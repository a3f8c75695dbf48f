----------------------------- MODULE PullProofs -----------------------------
(***************************************************************************)
(* Proofs about PullRequest, for every setting of its constants: its types, *)
(* that Town closes only pull requests it opened, that it merges only a     *)
(* head a review certified, that it commits only records the store accepts, *)
(* that no inventory takes a head back, and that a fix round counts once.   *)
(***************************************************************************)
EXTENDS PullRequest, FiniteSetTheorems, TLAPS

\* The stages in which Town changes or closes the pull request itself.
Work == {"closing", "fixes"}
Houses == {"simplifier", "review", "issue", "hall", "release"}

(***************************************************************************)
(* What the operators on the task record preserve.  A step from record k to *)
(* record r is harmless if it invents neither a clean audit nor, on a       *)
(* contributor's pull request, work of Town's own.                          *)
(***************************************************************************)
Keeps(k, r) ==
    /\ r \in TaskRecords /\ r.external = k.external
    /\ r.audit.verdict = "clean" => r.audit = k.audit
    /\ r.stage \in Work => k.stage \in Work \/ ~k.external

LEMMA KeepsTransitive ==
    ASSUME NEW k, NEW r, NEW s, Keeps(k, r), Keeps(r, s)
    PROVE  Keeps(k, s)
  BY DEF Keeps

LEMMA ConstantTypes ==
    /\ NoAudit \in Audits /\ NoAudit.verdict = "none"
    /\ NoIntent \in Intents /\ FirstPull \in Pulls
    /\ 0 \in Tries /\ 1 \in Tries /\ 2 \in Tries
    /\ 0 \in Heads \cup {0} /\ 1 \in Heads /\ 0 \in Texts
  BY PullConstants DEF NoAudit, Audits, Verdicts, Heads, Texts, Tries, NoIntent, Intents,
     FirstPull, Pulls

LEMMA MovedKeeps ==
    ASSUME NEW k \in TaskRecords, NEW stage \in Stages \ Work, NEW house \in Houses
    PROVE  Keeps(k, Moved(k, stage, house))
  BY DEF Keeps, Moved, TaskRecords, Houses

LEMMA RestedKeeps ==
    ASSUME NEW k \in TaskRecords
    PROVE  Keeps(k, Rested(k))
  BY ConstantTypes DEF Keeps, Rested, TaskRecords

LEMMA QueuedKeeps ==
    ASSUME NEW k \in TaskRecords
    PROVE  Keeps(k, Queued(k))
  <1> DEFINE b == [k EXCEPT !.audit = NoAudit, !.blocked = FALSE]
  <1>1. Keeps(k, b) /\ b \in TaskRecords
    BY ConstantTypes DEF Keeps, TaskRecords
  <1> HIDE DEF b
  <1>2. Keeps(b, Moved(b, "queued", "review"))
    BY <1>1, MovedKeeps DEF Stages, Work, Houses
  <1>3. Queued(k) = Moved(b, "queued", "review")
    BY DEF Queued, b
  <1>. QED  BY <1>1, <1>2, <1>3, KeepsTransitive

LEMMA AskMayorKeeps ==
    ASSUME NEW k \in TaskRecords
    PROVE  Keeps(k, AskMayor(k))
  BY DEF Keeps, AskMayor, Moved, TaskRecords, Stages, Work

LEMMA MarkClosingKeeps ==
    ASSUME NEW k \in TaskRecords, ~k.external \/ k.stage \in Work
    PROVE  Keeps(k, MarkClosing(k))
  <1> DEFINE b == [Rested(k) EXCEPT !.blocked = FALSE, !.decision = ""]
  <1>1. Keeps(k, k)
    BY DEF Keeps
  <1>2. Keeps(k, b) /\ b \in TaskRecords
    BY ConstantTypes DEF Keeps, Rested, TaskRecords
  <1> HIDE DEF b
  <1> DEFINE r == Moved(b, "closing", "hall")
  <1>3. r \in TaskRecords /\ r.external = b.external /\ r.audit = b.audit
    BY <1>2 DEF Moved, TaskRecords, Stages
  <1> HIDE DEF r
  <1>4. Keeps(k, r)
    BY <1>2, <1>3 DEF Keeps
  <1>. QED  BY <1>1, <1>4 DEF MarkClosing, b, r

LEMMA RetireKeeps ==
    ASSUME NEW k \in TaskRecords
    PROVE  Keeps(k, Retire(k))
  <1>1. CASE k.external
    <2>1. Keeps(k, Rested(k)) /\ Rested(k) \in TaskRecords
      BY RestedKeeps DEF Keeps
    <2>2. Keeps(Rested(k), AskMayor(Rested(k)))
      BY <2>1, AskMayorKeeps
    <2>. QED  BY <1>1, <2>1, <2>2, KeepsTransitive DEF Retire
  <1>2. CASE ~k.external
    BY <1>2, MarkClosingKeeps DEF Retire
  <1>. QED  BY <1>1, <1>2

LEMMA FailAttemptKeeps ==
    ASSUME NEW k \in TaskRecords
    PROVE  Keeps(k, FailAttempt(k))
  <1> DEFINE b == [k EXCEPT !.attempts = 2, !.blocked = FALSE]
  <1>1. Keeps(k, b) /\ b \in TaskRecords
    BY ConstantTypes DEF Keeps, TaskRecords
  <1>2. Keeps(k, [k EXCEPT !.attempts = 1, !.blocked = FALSE])
    BY ConstantTypes DEF Keeps, TaskRecords
  <1> HIDE DEF b
  <1>3. Keeps(k, Retire(b))
    BY <1>1, RetireKeeps, KeepsTransitive
  <1>. QED  BY <1>2, <1>3 DEF FailAttempt, b

-----------------------------------------------------------------------------
(***************************************************************************)
(* The inductive invariant.  MergedHeadCertified follows the certificate     *)
(* from the audit on the record through the run that reads it to the call;  *)
(* ClosesOnlyItsOwn needs that Town's own work on a pull request is never   *)
(* on a contributor's.                                                      *)
(***************************************************************************)
Fits(k, own, certified) ==
    /\ k \in TaskRecords
    /\ ~k.external => own
    /\ k.stage \in Work => own
    /\ k.audit.verdict = "clean" => k.audit.head \in certified

GitHubInv ==
    /\ gh \in Pulls /\ events \in 0..MaxEvents /\ gh.text <= events /\ gh.disc <= events
    /\ used \in Heads
    /\ history.merged => gh.state = "merged" /\ gh.head \in history.certified
TaskInv == owned \in BOOLEAN /\ Fits(task, owned, history.certified)

\* A repair intent names the commit it pushes.
NamesCommit(i) == i.kind = "repair" => i.new # 0
IntentInv == intent \in Intents /\ NamesCommit(intent)

ReviewInv ==
    /\ review \in ReviewRuns
    /\ review.pc \in {"certifying", "judged"} => review.audit.head \in Heads
    /\ review.pc \in {"gating", "doubting"} /\ review.audit.verdict = "clean"
         => review.audit.head \in history.certified
    /\ review.pc \in {"gated", "fresh", "calling"} => review.head \in history.certified
RepairInv ==
    /\ repair \in RepairRuns /\ NamesCommit(repair.intent)
    /\ repair.pc \in {"saving", "resuming", "pushing", "pushed"} => repair.intent.kind = "repair"
PassInv == pass \in PassRuns /\ (pass.pc = "closing" => owned)

Histories == [certified : SUBSET Heads, repairs : SUBSET Heads, merged : BOOLEAN,
              intake : BOOLEAN, tries : 0..2, early : BOOLEAN, refused : BOOLEAN]
RestInv ==
    /\ simplifier \in {"idle", "assessing"} /\ faults \in 0..MaxFaults
    /\ crashes \in 0..MaxCrashes /\ retries \in 0..MaxRetries /\ history \in Histories

PullInv == /\ GitHubInv /\ TaskInv /\ IntentInv /\ ReviewInv /\ RepairInv /\ PassInv /\ RestInv

LEMMA KeepsFits ==
    ASSUME NEW k, NEW r, NEW own, NEW certified, Fits(k, own, certified), Keeps(k, r)
    PROVE  Fits(r, own, certified)
  BY DEF Fits, Keeps

\* A change of GitHub's own conditions moves nothing else.
Still == UNCHANGED <<gh, owned, task, intent, simplifier, review, repair, pass, used,
                     events, faults, crashes, retries, history>>
LEMMA StillSteps == UNCHANGED vars \/ ConditionsChange => Still
  BY DEF vars, ConditionsChange, townState, houses, bounds, Still

\* GitHub's conditions are one fact, and no part of the invariants below.
LEMMA ClearTyped ==
    ASSUME [Next]_vars, clear \in BOOLEAN
    PROVE  clear' \in BOOLEAN
  <1>1. CASE UNCHANGED vars
    BY <1>1 DEF vars
  <1>2. CASE ReviewStep
    BY <1>2 DEF ReviewStep, ReviewStarts, ReviewFails, CertifyStarts, CertifyEnds, ReviewCommits,
       MergeStarts, MergeGates, MergeIsStale, MergeRechecks, MergeIntends, MergeCalls, MergeConfirms,
       MergeBlocks, reviewOnly
  <1>3. CASE RepairStep
    BY <1>3 DEF RepairStep, RepairStarts, RepairRecovers, RepairReads, RepairVerified,
       RepairAgentFails, RepairSaves, RepairResumes, RepairPushes, RepairProves, RepairConfirms,
       RepairSupersedes, RepairRequeues, RepairBlocks, RepairFails, repairOnly
  <1>4. CASE PassStep
    BY <1>4 DEF PassStep, PassStarts, PassReads, PassRecords, PassClaims, PassCloses,
       PassReleases, PassFinishesClose, passOnly
  <1>5. CASE \/ People \/ ConditionsChange \/ OwnershipRecorded \/ Decide \/ Retry \/ Crash
             \/ AssessStarts \/ AssessEnds \/ AssessCanceled
    BY <1>5 DEF People, ConditionsChange, OwnershipRecorded, Decide, Retry, Crash, AssessStarts,
       AssessEnds, AssessCanceled
  <1>. QED  BY <1>1, <1>2, <1>3, <1>4, <1>5 DEF Next

\* A part of the invariant whose variables a step leaves alone still holds.
SameFacts == history'.merged = history.merged /\ history'.certified = history.certified
LEMMA Untouched ==
    ASSUME PullInv
    PROVE  /\ SameFacts /\ UNCHANGED <<gh, used, events>> => GitHubInv'
           /\ SameFacts /\ UNCHANGED <<owned, task>> => TaskInv'
           /\ UNCHANGED intent => IntentInv'
           /\ SameFacts /\ UNCHANGED review => ReviewInv'
           /\ UNCHANGED repair => RepairInv'
           /\ UNCHANGED <<pass, owned>> => PassInv'
           /\ UNCHANGED <<simplifier, faults, crashes, retries, history>> => RestInv'
           /\ UNCHANGED history => SameFacts
  BY DEF PullInv, SameFacts, GitHubInv, TaskInv, IntentInv, ReviewInv, RepairInv, PassInv,
     RestInv, Fits, NamesCommit

\* A run that has ended asks nothing of the invariant.
LEMMA IdleRuns ==
    /\ NoReview \in ReviewRuns /\ NoReview.pc = "idle" /\ NoReview.audit.verdict = "none"
    /\ NoRepair \in RepairRuns /\ NoRepair.pc = "idle" /\ NamesCommit(NoRepair.intent)
    /\ NoPass \in PassRuns /\ NoPass.pc = "idle"
  BY ConstantTypes DEF NoReview, NoRepair, NoPass, ReviewRuns, RepairRuns, PassRuns,
     NamesCommit, NoIntent, NoAudit, Audits, Intents

LEMMA IdleKeeps ==
    ASSUME PullInv
    PROVE  /\ review' = NoReview => ReviewInv'
           /\ repair' = NoRepair => RepairInv'
           /\ pass' = NoPass => PassInv'
  BY IdleRuns DEF ReviewInv, RepairInv, PassInv

LEMMA InvInit == Init => PullInv
  <1> SUFFICES ASSUME Init PROVE PullInv
    OBVIOUS
  <1>1. NoTask \in TaskRecords /\ NoTask.external = TRUE /\ NoTask.stage = "unknown"
        /\ NoTask.audit.verdict = "none"
    BY ConstantTypes DEF NoTask, TaskRecords, Stages, NoAudit
  <1>2. TaskInv
    BY <1>1, PullConstants DEF Init, TaskInv, Fits, Work
  <1>3. GitHubInv
    BY ConstantTypes, PullConstants DEF Init, GitHubInv, FirstPull
  <1>4. IntentInv
    BY ConstantTypes DEF Init, IntentInv, NamesCommit, NoIntent
  <1>5. ReviewInv /\ RepairInv /\ PassInv
    BY IdleRuns DEF Init, ReviewInv, RepairInv, PassInv
  <1>6. RestInv
    BY PullConstants DEF Init, RestInv, Histories
  <1>. QED  BY <1>2, <1>3, <1>4, <1>5, <1>6 DEF PullInv

-----------------------------------------------------------------------------
(***************************************************************************)
(* Steps.  Each lemma names the parts of the invariant a step disturbs.     *)
(***************************************************************************)
LEMMA PeopleSafe ==
    ASSUME PullInv, People
    PROVE  PullInv'
  <1>1. GitHubInv'
    <2>1. events' \in 0..MaxEvents /\ events <= events' /\ events' = events + 1
      BY PullConstants DEF PullInv, GitHubInv, People, Event
    <2>2. CASE /\ gh.state = "open" /\ used < MaxHeads /\ used' = used + 1
               /\ \E log \in {{}, gh.log} :
                    gh' = [gh EXCEPT !.head = used + 1, !.log = log \cup {used + 1}]
      <3>1. PICK log \in {{}, gh.log} :
              gh' = [gh EXCEPT !.head = used + 1, !.log = log \cup {used + 1}]
        BY <2>2
      <3>2. used' \in Heads
        BY <2>2, PullConstants DEF PullInv, GitHubInv, Heads
      <3>3. log \cup {used + 1} \in SUBSET Heads
        BY <2>2, <3>2 DEF PullInv, GitHubInv, Pulls
      <3>4. gh' \in Pulls /\ gh'.text = gh.text /\ gh'.disc = gh.disc /\ gh'.state = "open"
        BY <2>2, <3>1, <3>2, <3>3 DEF PullInv, GitHubInv, Pulls
      <3>. QED  BY <2>1, <2>2, <3>2, <3>4 DEF PullInv, GitHubInv, People, Pulls, Texts
    <2>3. CASE /\ used' = used
               /\ \/ gh.state = "open" /\ gh' = [gh EXCEPT !.disc = @ + 1]
                  \/ gh.state = "open" /\ gh' = [gh EXCEPT !.text = @ + 1]
                  \/ gh.state = "open" /\ gh' = [gh EXCEPT !.draft = ~@]
                  \/ gh.state = "open" /\ gh' = [gh EXCEPT !.here = ~@]
                  \/ gh.state = "open" /\ gh' = [gh EXCEPT !.state = "closed"]
                  \/ gh.state = "open" /\ ~gh.draft /\ gh' = [gh EXCEPT !.state = "merged"]
                  \/ gh.state = "closed" /\ gh' = [gh EXCEPT !.state = "open"]
      <3>1. gh.text + 1 \in Texts /\ gh.disc + 1 \in Texts
            /\ gh.text + 1 <= events' /\ gh.disc + 1 <= events'
            /\ gh.text <= events' /\ gh.disc <= events'
        BY <2>1, PullConstants DEF PullInv, GitHubInv, Pulls, Texts
      <3>2. gh' \in Pulls /\ gh'.text <= events' /\ gh'.disc <= events'
        BY <2>3, <3>1 DEF PullInv, GitHubInv, Pulls
      <3>. QED  BY <2>1, <2>3, <3>2 DEF PullInv, GitHubInv, People
    <2>. QED  BY <2>2, <2>3 DEF People
  <1>. QED  BY <1>1, Untouched DEF People, townState, houses, PullInv, RestInv

LEMMA OwnershipSafe ==
    ASSUME PullInv, OwnershipRecorded
    PROVE  PullInv'
  <1>1. TaskInv'
    BY DEF PullInv, OwnershipRecorded, TaskInv, Fits
  <1>2. PassInv'
    BY DEF PullInv, OwnershipRecorded, PassInv, houses
  <1>. QED  BY <1>1, <1>2, Untouched DEF OwnershipRecorded, houses, bounds, PullInv, RestInv

LEMMA LosesRunsSafe ==
    ASSUME PullInv, LosesRuns
    PROVE  ReviewInv' /\ RepairInv' /\ PassInv' /\ simplifier' \in {"idle", "assessing"}
  BY IdleKeeps DEF LosesRuns

\* A step on the task record alone, as every house's commit is.
LEMMA TaskStep ==
    ASSUME PullInv, NEW r, Keeps(task, r), task' = r, SameFacts, UNCHANGED owned
    PROVE  TaskInv'
  <1>1. Fits(r, owned, history.certified)
    BY KeepsFits DEF PullInv, TaskInv
  <1>. QED  BY <1>1 DEF PullInv, TaskInv, SameFacts

LEMMA AssessSafe ==
    ASSUME PullInv, AssessStarts \/ AssessEnds
    PROVE  PullInv'
  <1>1. CASE AssessStarts
    BY <1>1, Untouched DEF AssessStarts, bounds, PullInv, RestInv
  <1>2. CASE AssessEnds
    <2>1. SameFacts /\ history' \in Histories
      BY <1>2 DEF AssessEnds, PullInv, RestInv, Histories, SameFacts
    <2>2. TaskInv'
      <3> DEFINE k == [Rested(task) EXCEPT !.blocked = FALSE]
                 asked == [k EXCEPT !.declined = FALSE]
                 admitted == [k EXCEPT !.decision = "", !.declined = FALSE]
                 declined == [k EXCEPT !.decision = "", !.declined = TRUE]
      <3>1. Keeps(task, Rested(task)) /\ Rested(task) \in TaskRecords
        BY RestedKeeps DEF PullInv, TaskInv, Fits, Keeps
      <3>2. /\ Keeps(Rested(task), asked) /\ asked \in TaskRecords
            /\ Keeps(Rested(task), admitted) /\ admitted \in TaskRecords
            /\ Keeps(Rested(task), declined) /\ declined \in TaskRecords
        BY <3>1 DEF Keeps, TaskRecords
      <3>3. task' \in {AskMayor(asked), Moved(admitted, "queued", "review"),
                       Moved(declined, "declined", "hall"), task, FailAttempt(task)}
        BY <1>2 DEF AssessEnds
      <3> HIDE DEF asked, admitted, declined
      <3>4. /\ Keeps(asked, AskMayor(asked))
            /\ Keeps(admitted, Moved(admitted, "queued", "review"))
            /\ Keeps(declined, Moved(declined, "declined", "hall"))
        BY <3>2, AskMayorKeeps, MovedKeeps DEF Stages, Work, Houses
      <3>5. Keeps(task, FailAttempt(task)) /\ Keeps(task, task)
        BY FailAttemptKeeps DEF PullInv, TaskInv, Fits, Keeps
      <3>6. Keeps(task, task')
        BY <3>1, <3>2, <3>3, <3>4, <3>5, KeepsTransitive
      <3>. QED  BY <1>2, <2>1, <3>6, TaskStep DEF AssessEnds
    <2>. QED  BY <1>2, <2>1, <2>2, Untouched DEF AssessEnds, bounds, PullInv, RestInv
  <1>. QED  BY <1>1, <1>2

LEMMA CanceledSafe ==
    ASSUME PullInv, AssessCanceled
    PROVE  PullInv'
  <1>1. SameFacts /\ history' \in Histories
    BY DEF AssessCanceled, PullInv, RestInv, Histories, SameFacts
  <1>2. CASE task.attempts > 0 /\ task' = [task EXCEPT !.attempts = @ - 1]
    <2>1. task \in TaskRecords
      BY DEF PullInv, TaskInv, Fits
    <2>2. task.attempts \in 0..2
      BY <2>1 DEF TaskRecords, Tries
    <2>3. task.attempts - 1 \in Tries
      BY <1>2, <2>2 DEF Tries
    <2>4. Keeps(task, task')
      BY <1>2, <2>3 DEF PullInv, TaskInv, Fits, Keeps, TaskRecords
    <2>5. TaskInv'
      BY <1>1, <2>4, TaskStep DEF AssessCanceled
    <2>. QED  BY <1>1, <1>2, <2>5, Untouched DEF AssessCanceled, bounds, PullInv, RestInv
  <1>3. CASE ~(task.attempts > 0)
    BY <1>1, <1>3, Untouched, LosesRunsSafe DEF AssessCanceled, bounds, PullInv, RestInv
  <1>. QED  BY <1>2, <1>3 DEF AssessCanceled

LEMMA DecideSafe ==
    ASSUME PullInv, Decide
    PROVE  PullInv'
  <1>1. SameFacts /\ history' \in Histories
    BY DEF Decide, PullInv, RestInv, Histories, SameFacts
  <1>2. Keeps(task, Rested(task)) /\ Rested(task) \in TaskRecords
    BY RestedKeeps DEF PullInv, TaskInv, Fits, Keeps
  <1>3. Keeps(Rested(task), task')
    BY <1>2 DEF Decide, Moved, Keeps, TaskRecords, Stages, Work
  <1>4. TaskInv'
    BY <1>1, <1>2, <1>3, KeepsTransitive, TaskStep DEF Decide
  <1>. QED  BY <1>1, <1>4, Untouched DEF Decide, houses, bounds, PullInv, RestInv

LEMMA RetrySafe ==
    ASSUME PullInv, Retry
    PROVE  PullInv'
  <1>1. Keeps(task, Rested(task)) /\ Rested(task) \in TaskRecords
    BY RestedKeeps DEF PullInv, TaskInv, Fits, Keeps
  <1>2. Keeps(Rested(task), task')
    BY <1>1 DEF Retry, Keeps, TaskRecords
  <1>3. TaskInv'
    BY <1>1, <1>2, KeepsTransitive, TaskStep, Untouched DEF Retry
  <1>4. IntentInv'
    BY DEF Retry, PullInv, IntentInv, Intents, NamesCommit
  <1>5. retries' \in 0..MaxRetries
    BY PullConstants DEF Retry, PullInv, RestInv
  <1>. QED  BY <1>3, <1>4, <1>5, Untouched DEF Retry, houses, PullInv, RestInv

LEMMA CrashSafe ==
    ASSUME PullInv, Crash
    PROVE  PullInv'
  <1>1. crashes' \in 0..MaxCrashes
    BY PullConstants DEF Crash, PullInv, RestInv
  <1>. QED  BY <1>1, Untouched, LosesRunsSafe DEF Crash, PullInv, RestInv

\* A step of the Review house on its run alone, and one on its run and the record.
LEMMA ReviewOnlyStep ==
    ASSUME PullInv, UNCHANGED <<reviewOnly, task, history>>, ReviewInv'
    PROVE  PullInv'
  BY Untouched DEF reviewOnly, bounds, PullInv, RestInv

LEMMA FailingKeeps ==
    ASSUME PullInv, NEW head, Failing(head)
    PROVE  SameFacts /\ Keeps(task, task') /\ history' \in Histories
  <1>1. Keeps(task, task')
    BY FailAttemptKeeps DEF Failing, PullInv, TaskInv, Fits
  <1> DEFINE tries == IF head = task.head /\ history.tries < 2 THEN history.tries + 1
                      ELSE history.tries
  <1>2. history \in Histories
    BY DEF PullInv, RestInv
  <1>3. history.tries \in 0..2
    BY <1>2 DEF Histories
  <1>4. tries \in 0..2
    BY <1>3
  <1> DEFINE early == history.early \/ (tries < 2 /\ task'.stage # task.stage)
             intake == history.intake /\ task'.decision # "pending"
  <1>5. history' = [history EXCEPT !.tries = tries, !.early = early, !.intake = intake]
    BY DEF Failing
  <1>6. early \in BOOLEAN /\ intake \in BOOLEAN
    OBVIOUS
  <1> HIDE DEF tries, early, intake
  <1>7. SameFacts /\ history' \in Histories
    BY <1>2, <1>4, <1>5, <1>6 DEF SameFacts, Histories
  <1>. QED  BY <1>1, <1>7

LEMMA ReviewRunSafe ==
    ASSUME PullInv, ReviewStarts \/ ReviewFails \/ CertifyStarts \/ CertifyEnds
    PROVE  PullInv'
  <1>1. review \in ReviewRuns /\ gh \in Pulls /\ task \in TaskRecords
    BY DEF PullInv, ReviewInv, GitHubInv, TaskInv, Fits
  <1>2. CASE ReviewStarts
    <2>1. review' \in ReviewRuns /\ review'.pc = "reviewing"
      BY <1>1, <1>2, ConstantTypes DEF ReviewStarts, NoReview, ReviewRuns, TaskRecords
    <2>. QED  BY <1>2, <2>1, ReviewOnlyStep DEF ReviewStarts, ReviewInv
  <1>3. CASE ReviewFails
    <2>1. review' \in ReviewRuns /\ review'.pc = "failed"
      BY <1>1, <1>3 DEF ReviewFails, ReviewRuns
    <2>. QED  BY <1>3, <2>1, ReviewOnlyStep DEF ReviewFails, ReviewInv
  <1>4. CASE CertifyStarts
    <2> DEFINE a == [verdict |-> "none", head |-> gh.head, text |-> gh.text, disc |-> gh.disc]
    <2>1. a \in Audits
      BY <1>1 DEF Pulls, Audits, Verdicts
    <2> HIDE DEF a
    <2>2. a.head \in Heads
      BY <1>1 DEF Pulls, a
    <2>3. /\ review' \in ReviewRuns /\ review'.pc \in {"certifying", "failed"}
          /\ review'.pc = "certifying" => review'.audit = a
      BY <1>1, <1>4, <2>1 DEF CertifyStarts, ReviewRuns, a
    <2>. QED  BY <1>4, <2>2, <2>3, ReviewOnlyStep DEF CertifyStarts, ReviewInv
  <1>5. CASE CertifyEnds
    <2>1. /\ review' \in ReviewRuns /\ review'.pc \in {"judged", "failed"}
          /\ review'.pc = "judged" => review'.audit.head \in Heads
      <3>1. CASE review' = [review EXCEPT !.pc = "failed"]
        BY <1>1, <3>1 DEF ReviewRuns
      <3>2. ASSUME NEW v \in Verdicts \ {"none"},
                   review' = [review EXCEPT !.pc = "judged", !.audit.verdict = v]
            PROVE  /\ review' \in ReviewRuns /\ review'.pc = "judged"
                   /\ review'.audit.head \in Heads
        <4>1. review.audit \in Audits /\ review.audit.head \in Heads
          BY <1>1, <1>5 DEF ReviewRuns, CertifyEnds, PullInv, ReviewInv
        <4>2. /\ [review.audit EXCEPT !.verdict = v] \in Audits
              /\ [review.audit EXCEPT !.verdict = v].head \in Heads
          BY <4>1 DEF Audits
        <4>. QED  BY <1>1, <3>2, <4>2 DEF ReviewRuns
      <3>. QED  BY <1>5, <3>1, <3>2 DEF CertifyEnds
    <2>. QED  BY <1>5, <2>1, ReviewOnlyStep DEF CertifyEnds, ReviewInv
  <1>. QED  BY <1>2, <1>3, <1>4, <1>5

\* An audit without a blocking finding is what certifies a head, and only the
\* ready task carries one as clean.
LEMMA SettleReviewFits ==
    ASSUME NEW k \in TaskRecords, NEW own \in BOOLEAN, NEW certified,
           ~k.external => own, k.stage \in Work => own
    PROVE  LET r == SettleReview(k)
           IN  /\ r.audit.head = k.audit.head
               /\ r.audit.verdict = "clean" => r.stage = "ready"
               /\ r \in TaskRecords /\ r.external = k.external
               /\ r.stage \in Work => own
  <1> DEFINE r == SettleReview(k)
             minor == [k EXCEPT !.audit = [@ EXCEPT !.verdict = "clean"]]
  <1>1. CASE k.audit.verdict = "clean"
    <2>1. r = Moved(k, "ready", "review")
      BY <1>1 DEF SettleReview
    <2>. QED  BY <2>1 DEF Moved, TaskRecords, Stages, Work
  <1>2. CASE k.audit.verdict # "clean" /\ k.external
    <2>1. r = AskMayor(k)
      BY <1>2 DEF SettleReview
    <2>. QED  BY <1>2, <2>1 DEF AskMayor, Moved, TaskRecords, Stages, Work
  <1>3. CASE k.audit.verdict # "clean" /\ ~k.external /\ k.cycles = 0
    <2>1. r = Moved(k, "fixes", "issue")
      BY <1>3 DEF SettleReview
    <2>. QED  BY <1>3, <2>1 DEF Moved, TaskRecords, Stages, Work
  <1>4. CASE k.audit.verdict = "blocking" /\ ~k.external /\ k.cycles # 0
    <2>1. r = MarkClosing(k)
      BY <1>4 DEF SettleReview
    <2>2. r \in TaskRecords /\ r.external = k.external
      BY <1>4, <2>1, MarkClosingKeeps DEF Keeps
    <2>3. r.audit = k.audit
      BY <2>1 DEF MarkClosing, Moved, Rested, TaskRecords
    <2>. QED  BY <1>4, <2>2, <2>3
  <1>5. CASE k.audit.verdict \notin {"clean", "blocking"} /\ ~k.external /\ k.cycles # 0
    <2>1. r = Moved(minor, "ready", "review")
      BY <1>5 DEF SettleReview
    <2>2. k.audit \in Audits
      BY DEF TaskRecords
    <2>3. [k.audit EXCEPT !.verdict = "clean"] \in Audits
      BY <2>2 DEF Audits, Verdicts
    <2>4. minor \in TaskRecords /\ minor.audit = [k.audit EXCEPT !.verdict = "clean"]
          /\ minor.external = k.external
      BY <2>3 DEF TaskRecords
    <2> HIDE DEF minor
    <2>5. minor.audit.head = k.audit.head
      BY <2>2, <2>4 DEF Audits
    <2>. QED  BY <2>1, <2>4, <2>5 DEF Moved, TaskRecords, Stages, Work
  <1>. QED  BY <1>1, <1>2, <1>3, <1>4, <1>5

LEMMA ReviewCommitsSafe ==
    ASSUME PullInv, ReviewCommits
    PROVE  PullInv'
  <1>1. task \in TaskRecords /\ review \in ReviewRuns /\ history \in Histories
        /\ owned \in BOOLEAN /\ Fits(task, owned, history.certified)
    BY DEF PullInv, TaskInv, Fits, ReviewInv, RestInv
  <1>2. /\ UNCHANGED <<gh, owned, intent, simplifier, repair, pass, used, events, faults,
                       crashes, retries>>
        /\ review' = NoReview
    BY DEF ReviewCommits, reviewOnly, bounds
  <1>3. CASE UNCHANGED <<task, history>>
    BY <1>2, <1>3, IdleKeeps, Untouched DEF PullInv, RestInv
  <1>4. CASE Failing(review.head)
    <2>1. SameFacts /\ Keeps(task, task') /\ history' \in Histories
      BY <1>4, FailingKeeps
    <2>2. TaskInv'
      BY <1>2, <2>1, TaskStep
    <2>. QED  BY <1>2, <2>1, <2>2, IdleKeeps, Untouched DEF PullInv, RestInv
  <1>5. CASE /\ review.pc = "judged" /\ AuditIsCurrent
             /\ task' = SettleReview([Rested(task) EXCEPT !.audit = review.audit])
             /\ history' = [history EXCEPT
                   !.certified = IF task'.stage = "ready" THEN @ \cup {task.head} ELSE @,
                   !.intake = @ /\ task'.decision # "pending"]
    <2> DEFINE k == [Rested(task) EXCEPT !.audit = review.audit]
    <2>1. Rested(task) \in TaskRecords /\ Rested(task).external = task.external
          /\ Rested(task).stage = task.stage
      BY <1>1, ConstantTypes DEF Rested, TaskRecords
    <2>2. k \in TaskRecords /\ k.external = task.external /\ k.stage = task.stage
          /\ k.audit = review.audit
      BY <1>1, <2>1 DEF TaskRecords, ReviewRuns
    <2> HIDE DEF k
    <2>3. /\ task'.audit.head = review.audit.head
          /\ task'.audit.verdict = "clean" => task'.stage = "ready"
          /\ task' \in TaskRecords /\ task'.external = task.external
          /\ task'.stage \in Work => owned
      BY <1>1, <1>5, <2>2, SettleReviewFits DEF Fits, k
    <2> DEFINE certified == IF task'.stage = "ready" THEN history.certified \cup {task.head}
                            ELSE history.certified
               intake == history.intake /\ task'.decision # "pending"
    <2>4. history' = [history EXCEPT !.certified = certified, !.intake = intake]
      BY <1>5
    <2>5. task'.stage = "ready" => task.head \in Heads
      <3>1. review.audit.head = task.head
        BY <1>5 DEF AuditIsCurrent
      <3>. QED  BY <1>5, <3>1 DEF PullInv, ReviewInv
    <2>6. certified \in SUBSET Heads /\ history.certified \subseteq certified
          /\ intake \in BOOLEAN
      BY <1>1, <2>5 DEF Histories
    <2> HIDE DEF certified, intake
    <2>7. history' \in Histories /\ history'.certified = certified
          /\ history'.merged = history.merged
      BY <1>1, <2>4, <2>6 DEF Histories
    <2>8. task'.audit.verdict = "clean" => task'.audit.head \in history'.certified
      BY <1>5, <2>3, <2>7 DEF certified, AuditIsCurrent
    <2>9. TaskInv'
      BY <1>1, <1>2, <2>3, <2>7, <2>8 DEF TaskInv, Fits
    <2>10. GitHubInv'
      BY <1>2, <2>6, <2>7 DEF PullInv, GitHubInv
    <2>. QED  BY <1>2, <2>7, <2>9, <2>10, IdleKeeps, Untouched DEF PullInv, RestInv
  <1>. QED  BY <1>3, <1>4, <1>5 DEF ReviewCommits

LEMMA MergeReadsSafe ==
    ASSUME PullInv, MergeStarts \/ MergeGates \/ MergeRechecks
    PROVE  PullInv'
  <1>1. review \in ReviewRuns /\ gh \in Pulls /\ task.audit \in Audits
    BY DEF PullInv, ReviewInv, GitHubInv, TaskInv, Fits, TaskRecords
  <1>2. CASE MergeStarts
    <2>1. /\ review' \in ReviewRuns /\ review'.pc \in {"doubting", "gating"}
          /\ review'.audit = task.audit
      BY <1>1, <1>2, IdleRuns DEF MergeStarts, ReviewRuns
    <2>2. ReviewInv'
      BY <1>2, <2>1 DEF ReviewInv, PullInv, TaskInv, Fits, MergeStarts
    <2>. QED  BY <1>2, <2>2, ReviewOnlyStep DEF MergeStarts
  <1>3. CASE MergeGates
    <2>1. /\ review' \in ReviewRuns
          /\ review'.pc \in {"idle", "confirming", "blocking", "gated", "stale"}
      BY <1>1, <1>3, IdleRuns DEF MergeGates, ReviewRuns, Pulls
    <2>2. ASSUME review'.pc = "gated" PROVE review'.head \in history.certified
      <3>1. review.pc = "gating" /\ GateAllows /\ review'.head = gh.head
        BY <1>1, <1>3, <2>2, IdleRuns DEF MergeGates, ReviewRuns
      <3>2. review.audit.verdict = "clean" /\ review.audit.head = gh.head
        BY <3>1 DEF GateAllows
      <3>. QED  BY <3>1, <3>2 DEF PullInv, ReviewInv
    <2>3. ReviewInv'
      BY <1>3, <2>1, <2>2 DEF ReviewInv, MergeGates
    <2>. QED  BY <1>3, <2>3, ReviewOnlyStep DEF MergeGates
  <1>4. CASE MergeRechecks
    <2>1. \/ review' = NoReview
          \/ /\ review.pc = "gated" /\ review' \in ReviewRuns /\ review'.pc = "fresh"
             /\ review'.head = review.head
      BY <1>1, <1>4 DEF MergeRechecks, ReviewRuns
    <2>2. ReviewInv'
      BY <1>4, <2>1, IdleKeeps DEF ReviewInv, PullInv, MergeRechecks
    <2>. QED  BY <1>4, <2>2, ReviewOnlyStep DEF MergeRechecks
  <1>. QED  BY <1>2, <1>3, <1>4

LEMMA MergeWritesSafe ==
    ASSUME PullInv, MergeIsStale \/ MergeIntends \/ MergeCalls \/ MergeConfirms \/ MergeBlocks
    PROVE  PullInv'
  <1>1. review \in ReviewRuns /\ gh \in Pulls /\ task \in TaskRecords /\ history \in Histories
    BY DEF PullInv, ReviewInv, GitHubInv, TaskInv, Fits, RestInv
  <1>2. CASE MergeIsStale
    <2>1. Keeps(task, task')
      BY <1>1, <1>2, ConstantTypes DEF MergeIsStale, Keeps, TaskRecords, Stages, Work
    <2>2. TaskInv'
      BY <1>2, <2>1, TaskStep, Untouched DEF MergeIsStale, reviewOnly
    <2>. QED  BY <1>2, <2>2, IdleKeeps, Untouched DEF MergeIsStale, reviewOnly, bounds,
              PullInv, RestInv
  <1>3. CASE MergeBlocks
    <2>1. Keeps(task, task')
      BY <1>1, <1>3 DEF MergeBlocks, Keeps, TaskRecords
    <2>2. TaskInv'
      BY <1>3, <2>1, TaskStep, Untouched DEF MergeBlocks, reviewOnly
    <2>. QED  BY <1>3, <2>2, IdleKeeps, Untouched DEF MergeBlocks, reviewOnly, bounds,
              PullInv, RestInv
  <1>4. CASE MergeIntends
    <2>1. IntentInv'
      BY <1>1, <1>4, ConstantTypes DEF MergeIntends, IntentInv, NamesCommit, Intents, ReviewRuns
    <2>2. ReviewInv'
      BY <1>1, <1>4 DEF MergeIntends, PullInv, ReviewInv, ReviewRuns
    <2>. QED  BY <1>4, <2>1, <2>2, Untouched DEF MergeIntends, bounds, PullInv, RestInv
  <1>5. CASE MergeConfirms
    <2>1. IntentInv'
      BY <1>5 DEF MergeConfirms, PullInv, IntentInv, NamesCommit, Intents
    <2>2. ReviewInv'
      BY <1>5, IdleRuns DEF MergeConfirms, ReviewInv, ReviewRuns
    <2>. QED  BY <1>5, <2>1, <2>2, Untouched DEF MergeConfirms, bounds, PullInv, RestInv
  <1>6. CASE MergeCalls
    <2>1. review' \in ReviewRuns /\ review'.pc \in {"accepted", "blocking"}
      BY <1>1, <1>6 DEF MergeCalls, ReviewRuns
    <2>2. faults' \in 0..MaxFaults
      BY <1>6, PullConstants DEF MergeCalls, Fault, PullInv, RestInv
    <2>3. CASE UNCHANGED <<gh, history>>
      BY <1>6, <2>1, <2>2, <2>3, Untouched DEF MergeCalls, PullInv, RestInv, ReviewInv
    <2>4. CASE /\ gh.head = review.head /\ gh' = [gh EXCEPT !.state = "merged"]
               /\ history' = [history EXCEPT !.merged = TRUE]
      <3>1. history' \in Histories /\ history'.certified = history.certified
        BY <1>1, <2>4 DEF Histories
      <3>2. gh' \in Pulls /\ gh'.state = "merged" /\ gh'.head = gh.head /\ gh'.text = gh.text
            /\ gh'.disc = gh.disc
        BY <1>1, <2>4 DEF Pulls
      <3>3. review.head \in history.certified
        BY <1>6 DEF MergeCalls, PullInv, ReviewInv
      <3>4. GitHubInv'
        BY <1>6, <2>4, <3>1, <3>2, <3>3 DEF MergeCalls, PullInv, GitHubInv
      <3>5. TaskInv'
        BY <1>6, <3>1 DEF MergeCalls, PullInv, TaskInv, Fits
      <3>. QED  BY <1>6, <2>1, <2>2, <3>1, <3>4, <3>5, Untouched DEF MergeCalls, PullInv,
                RestInv, ReviewInv
    <2>. QED  BY <1>6, <2>3, <2>4 DEF MergeCalls
  <1>. QED  BY <1>2, <1>3, <1>4, <1>5, <1>6

\* A step of the Issue house on its run alone.
LEMMA RepairOnlyStep ==
    ASSUME PullInv, RepairInv', faults' \in 0..MaxFaults,
           UNCHANGED <<gh, task, intent, repairOnly, used, history>>
    PROVE  PullInv'
  BY Untouched DEF repairOnly, PullInv, RestInv

LEMMA RepairReadsSafe ==
    ASSUME PullInv, RepairStarts \/ RepairRecovers \/ RepairReads \/ RepairAgentFails
                    \/ RepairProves
    PROVE  PullInv'
  <1>1. /\ repair \in RepairRuns /\ gh \in Pulls /\ task \in TaskRecords /\ intent \in Intents
        /\ NamesCommit(intent) /\ NamesCommit(repair.intent) /\ faults \in 0..MaxFaults
    BY DEF PullInv, RepairInv, GitHubInv, TaskInv, Fits, IntentInv, RestInv
  <1>2. CASE RepairStarts
    <2>1. CASE task.cycles >= 1
      <3>1. Keeps(task, task')
        BY <1>1, <1>2, <2>1, MarkClosingKeeps DEF RepairStarts, Work
      <3>2. TaskInv'
        BY <1>2, <3>1, TaskStep, Untouched DEF RepairStarts, repairOnly
      <3>. QED  BY <1>2, <2>1, <3>2, Untouched DEF RepairStarts, repairOnly, PullInv, RestInv
    <2>2. CASE ~(task.cycles >= 1)
      <3>1. repair' = [pc |-> "started", head |-> task.head, audit |-> task.audit,
                       intent |-> intent]
        BY <1>2, <2>2 DEF RepairStarts
      <3>2. task.head \in Heads \cup {0} /\ task.audit \in Audits
        BY <1>1 DEF TaskRecords
      <3>3. repair' \in RepairRuns /\ repair'.pc = "started" /\ repair'.intent = intent
        BY <1>1, <3>1, <3>2 DEF RepairRuns
      <3>. QED  BY <1>1, <1>2, <2>2, <3>3, RepairOnlyStep DEF RepairStarts, RepairInv
    <2>. QED  BY <2>1, <2>2
  <1>3. CASE RepairRecovers
    <2>1. /\ repair' \in RepairRuns /\ repair'.intent = repair.intent
          /\ repair'.pc \in {"confirming", "superseding", "blocking", "resuming", "failed"}
          /\ repair.intent.kind = "repair"
      BY <1>1, <1>3 DEF RepairRecovers, RepairTo, RepairRuns, Pulls, UnresolvedRepair
    <2>2. faults' \in 0..MaxFaults
      BY <1>1, <1>3, PullConstants DEF RepairRecovers, Fault
    <2>. QED  BY <1>1, <1>3, <2>1, <2>2, RepairOnlyStep DEF RepairRecovers, RepairInv
  <1>4. CASE RepairReads
    <2>1. /\ repair' \in RepairRuns /\ repair'.intent = repair.intent
          /\ repair'.pc \in {"failed", "fixing", "requeueing"}
      BY <1>1, <1>4 DEF RepairReads, RepairTo, RepairRuns
    <2>. QED  BY <1>1, <1>4, <2>1, RepairOnlyStep DEF RepairReads, RepairInv
  <1>5. CASE RepairAgentFails
    <2>1. repair' \in RepairRuns /\ repair'.intent = repair.intent /\ repair'.pc = "failed"
      BY <1>1, <1>5 DEF RepairAgentFails, RepairTo, RepairRuns
    <2>. QED  BY <1>1, <1>5, <2>1, RepairOnlyStep DEF RepairAgentFails, RepairInv
  <1>6. CASE RepairProves
    <2>1. /\ repair' \in RepairRuns /\ repair'.intent = repair.intent
          /\ repair'.pc \in {"confirming", "failed"}
      BY <1>1, <1>6 DEF RepairProves, RepairTo, RepairRuns
    <2>. QED  BY <1>1, <1>6, <2>1, RepairOnlyStep DEF RepairProves, RepairInv
  <1>. QED  BY <1>2, <1>3, <1>4, <1>5, <1>6

LEMMA RepairWritesSafe ==
    ASSUME PullInv, RepairVerified \/ RepairSaves \/ RepairResumes \/ RepairPushes
    PROVE  PullInv'
  <1>1. /\ repair \in RepairRuns /\ gh \in Pulls /\ intent \in Intents /\ used \in Heads
        /\ NamesCommit(intent) /\ NamesCommit(repair.intent) /\ faults \in 0..MaxFaults
        /\ history \in Histories
    BY DEF PullInv, RepairInv, GitHubInv, IntentInv, RestInv
  <1>2. CASE RepairVerified
    <2> DEFINE i == [kind |-> "repair", head |-> repair.head, new |-> used + 1,
                     status |-> "uncertain"]
    <2>1. used + 1 \in Heads /\ used + 1 # 0
      BY <1>1, <1>2, PullConstants DEF RepairVerified, Heads
    <2>2. i \in Intents /\ NamesCommit(i) /\ i.kind = "repair"
      BY <1>1, <2>1 DEF Intents, NamesCommit, RepairRuns
    <2> HIDE DEF i
    <2>3. \/ repair' = [repair EXCEPT !.pc = "saving", !.intent = i] /\ used' = used + 1
          \/ repair' = [repair EXCEPT !.pc = "requeueing"] /\ used' = used
      BY <1>2 DEF RepairVerified, RepairTo, i
    <2>4. RepairInv'
      BY <1>1, <2>2, <2>3 DEF RepairInv, RepairRuns
    <2>5. GitHubInv'
      BY <1>2, <2>1, <2>3 DEF RepairVerified, repairOnly, PullInv, GitHubInv
    <2>. QED  BY <1>2, <2>4, <2>5, Untouched DEF RepairVerified, repairOnly, PullInv, RestInv
  <1>3. CASE RepairSaves
    <2>1. IntentInv'
      BY <1>1, <1>3 DEF RepairSaves, IntentInv, RepairRuns
    <2>2. repair' \in RepairRuns /\ repair'.pc = "pushing" /\ repair'.intent = repair.intent
      BY <1>1, <1>3 DEF RepairSaves, RepairTo, RepairRuns
    <2>3. RepairInv'
      BY <1>3, <2>2 DEF RepairSaves, PullInv, RepairInv
    <2>. QED  BY <1>3, <2>1, <2>3, Untouched DEF RepairSaves, repairOnly, PullInv, RestInv
  <1>4. CASE RepairResumes
    <2>1. IntentInv'
      BY <1>1, <1>4 DEF RepairResumes, IntentInv, Intents, NamesCommit
    <2>2. repair' \in RepairRuns /\ repair'.pc = "pushing" /\ repair'.intent = repair.intent
      BY <1>1, <1>4 DEF RepairResumes, RepairTo, RepairRuns
    <2>3. RepairInv'
      BY <1>4, <2>2 DEF RepairResumes, PullInv, RepairInv
    <2>. QED  BY <1>4, <2>1, <2>3, Untouched DEF RepairResumes, repairOnly, PullInv, RestInv
  <1>5. CASE RepairPushes
    <2>1. /\ repair' \in RepairRuns /\ repair'.pc \in {"pushed", "failed"}
          /\ repair'.intent = repair.intent
      BY <1>1, <1>5 DEF RepairPushes, RepairTo, RepairRuns
    <2>2. RepairInv'
      BY <1>5, <2>1 DEF RepairPushes, PullInv, RepairInv
    <2>3. faults' \in 0..MaxFaults
      BY <1>1, <1>5, PullConstants DEF RepairPushes, Fault
    <2>4. repair.intent.new \in Heads
      <3>1. repair.intent.kind = "repair"
        BY <1>5 DEF RepairPushes, PullInv, RepairInv
      <3>. QED  BY <1>1, <3>1 DEF NamesCommit, RepairRuns, Intents
    <2>5. \/ gh' = gh
          \/ /\ gh.state # "merged"
             /\ gh' = [gh EXCEPT !.head = repair.intent.new, !.log = @ \cup {repair.intent.new}]
      BY <1>5 DEF RepairPushes
    <2>6. /\ gh' \in Pulls /\ gh'.text = gh.text /\ gh'.disc = gh.disc
          /\ gh' = gh \/ gh.state # "merged"
      <3>1. CASE gh' = gh
        BY <1>1, <3>1
      <3>2. CASE /\ gh.state # "merged"
                 /\ gh' = [gh EXCEPT !.head = repair.intent.new,
                                     !.log = @ \cup {repair.intent.new}]
        <4> DEFINE new == repair.intent.new
                   log == gh.log \cup {new}
        <4>1. log \in SUBSET Heads /\ gh' = [gh EXCEPT !.head = new, !.log = log]
          BY <1>1, <2>4, <3>2 DEF Pulls
        <4>2. new \in Heads
          BY <2>4
        <4> HIDE DEF new, log
        <4>. QED  BY <1>1, <3>2, <4>1, <4>2 DEF Pulls
      <3>. QED  BY <2>5, <3>1, <3>2
    <2>7. \/ history' = history
          \/ history' = [history EXCEPT !.repairs = @ \cup {repair.intent.new}]
      BY <1>5 DEF RepairPushes
    <2>8. history' \in Histories /\ SameFacts
      BY <1>1, <2>4, <2>7 DEF Histories, SameFacts
    <2>9. GitHubInv'
      BY <1>5, <2>6, <2>8 DEF RepairPushes, repairOnly, PullInv, GitHubInv, SameFacts
    <2>. QED  BY <1>5, <2>2, <2>3, <2>8, <2>9, Untouched DEF RepairPushes, repairOnly,
              PullInv, RestInv
  <1>. QED  BY <1>2, <1>3, <1>4, <1>5

LEMMA CountedKeeps ==
    ASSUME NEW k \in TaskRecords, NEW cycles \in Nat, NEW head \in Heads \cup {0}
    PROVE  /\ Keeps(k, Queued([Rested(k) EXCEPT !.cycles = cycles, !.head = head]))
           /\ Keeps(k, Queued([Rested(k) EXCEPT !.cycles = cycles]))
  <1>1. Keeps(k, Rested(k)) /\ Rested(k) \in TaskRecords
    BY RestedKeeps DEF Keeps
  <1> DEFINE b == [Rested(k) EXCEPT !.cycles = cycles, !.head = head]
             c == [Rested(k) EXCEPT !.cycles = cycles]
  <1>2. Keeps(Rested(k), b) /\ b \in TaskRecords /\ Keeps(Rested(k), c) /\ c \in TaskRecords
    BY <1>1 DEF Keeps, TaskRecords
  <1> HIDE DEF b, c
  <1>3. Keeps(b, Queued(b)) /\ Keeps(c, Queued(c))
    BY <1>2, QueuedKeeps
  <1>4. Keeps(k, Queued(b)) /\ Keeps(k, Queued(c))
    BY <1>1, <1>2, <1>3, KeepsTransitive
  <1>. QED  BY <1>4 DEF b, c

LEMMA RepairEndsSafe ==
    ASSUME PullInv, RepairConfirms \/ RepairSupersedes \/ RepairRequeues \/ RepairBlocks
                    \/ RepairFails
    PROVE  PullInv'
  <1>1. /\ repair \in RepairRuns /\ repair.intent \in Intents /\ task \in TaskRecords
        /\ intent \in Intents /\ task.cycles \in Nat
    BY DEF PullInv, RepairInv, RepairRuns, TaskInv, Fits, TaskRecords, IntentInv
  <1>2. RepairInv' /\ UNCHANGED <<gh, repairOnly, used, faults>>
    BY IdleKeeps DEF RepairConfirms, RepairSupersedes, RepairRequeues, RepairBlocks, RepairFails
  <1>3. Keeps(task, task) /\ Keeps(task, [task EXCEPT !.blocked = TRUE])
    BY <1>1 DEF Keeps, TaskRecords
  <1>4. task.cycles + 1 \in Nat /\ RoundsOnce \in Nat /\ repair.intent.new \in Heads \cup {0}
        /\ repair.head \in Heads \cup {0}
    BY <1>1 DEF RoundsOnce, Intents, RepairRuns
  <1>5. Keeps(task, task') /\ SameFacts /\ history' \in Histories
    <2>1. CASE RepairConfirms
      BY <1>1, <1>4, <2>1, CountedKeeps, Untouched DEF RepairConfirms, PullInv, RestInv
    <2>2. CASE RepairSupersedes
      <3>1. \/ task' = task
            \/ task' = Queued([Rested(task) EXCEPT !.cycles = @ + 1, !.head = repair.head])
        BY <2>2 DEF RepairSupersedes
      <3>2. \/ task' = task
            \/ task' = Queued([Rested(task) EXCEPT !.cycles = task.cycles + 1,
                                                   !.head = repair.head])
        BY <1>1, <3>1 DEF Rested, TaskRecords
      <3>3. Keeps(task, task')
        BY <1>1, <1>3, <1>4, <3>2, CountedKeeps
      <3>. QED  BY <2>2, <3>3, Untouched DEF RepairSupersedes, PullInv, RestInv
    <2>3. CASE RepairRequeues
      BY <1>1, <2>3, QueuedKeeps, Untouched DEF RepairRequeues, PullInv, RestInv
    <2>4. CASE RepairBlocks
      BY <1>3, <2>4, Untouched DEF RepairBlocks, PullInv, RestInv
    <2>5. CASE RepairFails
      BY <2>5, FailingKeeps DEF RepairFails
    <2>. QED  BY <2>1, <2>2, <2>3, <2>4, <2>5
  <1>6. TaskInv'
    BY <1>2, <1>5, TaskStep DEF repairOnly
  <1>7. IntentInv'
    BY <1>1 DEF RepairConfirms, RepairSupersedes, RepairRequeues, RepairBlocks, RepairFails,
       PullInv, IntentInv, Intents, NamesCommit
  <1>. QED  BY <1>2, <1>5, <1>6, <1>7, Untouched DEF repairOnly, PullInv, RestInv

-----------------------------------------------------------------------------
(***************************************************************************)
(* The inventory.  Only Ownership changes who a pull request belongs to,    *)
(* and it reads the same record of ownership the invariant does.            *)
(***************************************************************************)
LEMMA KeepsSelf ==
    ASSUME NEW k \in TaskRecords
    PROVE  Keeps(k, k)
  BY DEF Keeps

LEMMA ResumeKeeps ==
    ASSUME NEW k \in TaskRecords
    PROVE  Keeps(k, Resume(k))
  <1>1. Keeps(k, [k EXCEPT !.stage = "declined"]) /\ Keeps(k, [k EXCEPT !.stage = "simplifying"])
    BY DEF Keeps, TaskRecords, Stages, Work
  <1>2. Keeps(k, AskMayor(k)) /\ Keeps(k, Moved(k, "queued", "review"))
    BY AskMayorKeeps, MovedKeeps DEF Stages, Work, Houses
  <1>. QED  BY <1>1, <1>2 DEF Resume

LEMMA LeftBranchKeeps ==
    ASSUME NEW k \in TaskRecords
    PROVE  Keeps(k, LeftBranch(k))
  <1>1. Keeps(k, [k EXCEPT !.audit = NoAudit, !.offbranch = TRUE, !.blocked = TRUE])
    BY ConstantTypes DEF Keeps, TaskRecords
  <1>. QED  BY <1>1, KeepsSelf DEF LeftBranch

LEMMA DropStaleDeclineKeeps ==
    ASSUME NEW k \in TaskRecords
    PROVE  Keeps(k, DropStaleDecline(k))
  <1>1. Keeps(k, [k EXCEPT !.declined = FALSE])
    BY DEF Keeps, TaskRecords
  <1>. QED  BY <1>1, KeepsSelf DEF DropStaleDecline

LEMMA BackOnBranchKeeps ==
    ASSUME NEW k \in TaskRecords
    PROVE  Keeps(k, BackOnBranch(k))
  <1> DEFINE b == [Rested(k) EXCEPT !.offbranch = FALSE, !.blocked = FALSE, !.audit = NoAudit]
  <1>1. Keeps(k, Rested(k)) /\ Rested(k) \in TaskRecords
    BY RestedKeeps DEF Keeps
  <1>2. Keeps(Rested(k), b) /\ b \in TaskRecords
    BY <1>1, ConstantTypes DEF Keeps, TaskRecords
  <1>3. BackOnBranch(k) \in {k, b, Moved(b, "queued", "review")}
    BY DEF BackOnBranch
  <1> HIDE DEF b
  <1>4. Keeps(b, Moved(b, "queued", "review"))
    BY <1>2, MovedKeeps DEF Stages, Work, Houses
  <1>. QED  BY <1>1, <1>2, <1>3, <1>4, KeepsSelf, KeepsTransitive

LEMMA RevisionKeeps ==
    ASSUME NEW k \in TaskRecords, NEW p \in Pulls
    PROVE  Keeps(k, Revision(k, p))
  <1> DEFINE r == [Rested(k) EXCEPT !.audit = NoAudit, !.blocked = FALSE]
             c == IF SameRevision(k, p) THEN k ELSE Revised(k, p)
  <1>1. Keeps(k, Rested(k)) /\ Rested(k) \in TaskRecords
    BY RestedKeeps DEF Keeps
  <1>2. Keeps(Rested(k), r) /\ r \in TaskRecords
    BY <1>1, ConstantTypes DEF Keeps, TaskRecords
  <1>3. c \in {k, r, Moved(r, "queued", "review")}
    BY DEF Revised
  <1>4. Revision(k, p) = [c EXCEPT !.head = p.head, !.text = p.text]
    BY DEF Revision
  <1> HIDE DEF r, c
  <1>5. Keeps(r, Moved(r, "queued", "review"))
    BY <1>2, MovedKeeps DEF Stages, Work, Houses
  <1>6. Keeps(k, c) /\ c \in TaskRecords
    <2>1. Keeps(k, c)
      BY <1>1, <1>2, <1>3, <1>5, KeepsSelf, KeepsTransitive
    <2>. QED  BY <2>1 DEF Keeps
  <1>7. p.head \in Heads /\ p.text \in Texts
    BY DEF Pulls
  <1>8. Keeps(c, [c EXCEPT !.head = p.head, !.text = p.text])
    BY <1>6, <1>7 DEF Keeps, TaskRecords
  <1>. QED  BY <1>4, <1>6, <1>8, KeepsTransitive

LEMMA RepairLandedKeeps ==
    ASSUME NEW k \in TaskRecords
    PROVE  Keeps(k, RepairLanded(k))
  <1>1. k.cycles \in Nat
    BY DEF TaskRecords
  <1>2. k.cycles + 1 \in Nat
    BY <1>1
  <1>3. RepairLanded(k) = Queued([Rested(k) EXCEPT !.cycles = k.cycles + 1])
    BY DEF RepairLanded, Rested, TaskRecords
  <1>4. 0 \in Heads \cup {0}
    OBVIOUS
  <1>. QED  BY <1>2, <1>3, <1>4, CountedKeeps

LEMMA SettledKeeps ==
    ASSUME NEW k \in TaskRecords, NEW p \in Pulls
    PROVE  Keeps(k, Settled(k, p))
  <1>1. CASE p.state = "merged"
    <2> DEFINE blocked == IF intent.kind = "merge" THEN FALSE ELSE k.blocked
               b == [k EXCEPT !.decision = "", !.blocked = blocked]
    <2>1. blocked \in BOOLEAN
      BY DEF TaskRecords
    <2> HIDE DEF blocked
    <2>2. Keeps(k, b) /\ b \in TaskRecords
      BY <2>1 DEF Keeps, TaskRecords
    <2>3. Settled(k, p) = Moved(b, "merged", "release")
      BY <1>1 DEF Settled, blocked
    <2> HIDE DEF b
    <2>4. Keeps(b, Moved(b, "merged", "release"))
      BY <2>2, MovedKeeps DEF Stages, Work, Houses
    <2>. QED  BY <2>2, <2>3, <2>4, KeepsTransitive
  <1>2. CASE p.state = "closed" /\ k.stage = "closing"
    <2>1. Settled(k, p) = k
      BY <1>2 DEF Settled
    <2>. QED  BY <2>1, KeepsSelf
  <1>3. CASE p.state = "closed" /\ k.stage # "closing"
    <2> DEFINE decision == IF k.decision = "pending" THEN "" ELSE k.decision
    <2>1. Settled(k, p) = [k EXCEPT !.stage = "closed", !.decision = decision]
      BY <1>3 DEF Settled, ClosedByPeople
    <2>2. decision \in {"", "pending", "admitted", "declined"}
      BY DEF TaskRecords
    <2> HIDE DEF decision
    <2>. QED  BY <2>1, <2>2 DEF Keeps, TaskRecords, Stages, Work
  <1>4. CASE p.state = "open"
    <2> DEFINE o == IF k.stage = "closed" THEN Resume(k) ELSE k
    <2>1. Keeps(k, o) /\ o \in TaskRecords
      BY KeepsSelf, ResumeKeeps DEF Keeps
    <2>2. Settled(k, p) \in {o, [o EXCEPT !.stage = "draft"], Resume(o)}
      BY <1>4 DEF Settled
    <2> HIDE DEF o
    <2>3. Keeps(o, [o EXCEPT !.stage = "draft"]) /\ Keeps(o, Resume(o)) /\ Keeps(o, o)
      BY <2>1, KeepsSelf, ResumeKeeps DEF Keeps, TaskRecords, Stages, Work
    <2>. QED  BY <2>1, <2>2, <2>3, KeepsTransitive
  <1>. QED  BY <1>1, <1>2, <1>3, <1>4 DEF Pulls

LEMMA OwnershipFits ==
    ASSUME NEW k, NEW certified, owned \in BOOLEAN, Fits(k, owned, certified)
    PROVE  Fits(Ownership(k), owned, certified)
  <1> DEFINE o == [k EXCEPT !.external = ~owned]
             b == [o EXCEPT !.decision = ""]
  <1>1. Fits(o, owned, certified)
    BY DEF Fits, TaskRecords
  <1>2. Ownership(k) \in {o, Moved(b, "queued", "review")}
    BY DEF Ownership
  <1> HIDE DEF o
  <1>3. Keeps(o, b) /\ b \in TaskRecords
    BY <1>1 DEF Fits, Keeps, TaskRecords
  <1> HIDE DEF b
  <1>4. Keeps(b, Moved(b, "queued", "review"))
    BY <1>3, MovedKeeps DEF Stages, Work, Houses
  <1>. QED  BY <1>1, <1>2, <1>3, <1>4, KeepsTransitive, KeepsFits

LEMMA ReconciledFits ==
    ASSUME PullInv, NEW p \in Pulls, NEW observed, NEW mode
    PROVE  Fits(ReconciledTask(p, observed, mode), owned, history.certified)
  <1> DEFINE cert == history.certified
             arrived == IF task.stage = "unknown" THEN Arrived(mode) ELSE task
             dropped == DropStaleDecline(arrived)
             back == BackOnBranch(dropped)
             mine == Ownership(back)
             current == Revision(mine, p)
             landed == IF RepairSeen(p) THEN RepairLanded(current) ELSE current
  <1>1. Fits(task, owned, cert) /\ owned \in BOOLEAN /\ task \in TaskRecords
    BY DEF PullInv, TaskInv, Fits
  <1>2. Fits(LeftBranch(task), owned, cert)
    BY <1>1, LeftBranchKeeps, KeepsFits
  <1>3. Fits(arrived, owned, cert)
    <2>1. NoTask \in TaskRecords /\ NoTask.external = TRUE /\ NoTask.stage = "unknown"
          /\ NoTask.audit.verdict = "none"
      BY ConstantTypes DEF NoTask, TaskRecords, Stages, NoAudit
    <2>2. Fits(NoTask, owned, cert)
      BY <2>1 DEF Fits, Work
    <2>3. Keeps(NoTask, AskMayor(NoTask))
      BY <2>1, AskMayorKeeps
    <2>4. Keeps(NoTask, [NoTask EXCEPT !.stage = "simplifying"])
      BY <2>1 DEF Keeps, TaskRecords, Stages, Work
    <2>5. Fits(Arrived(mode), owned, cert)
      BY <2>2, <2>3, <2>4, KeepsFits DEF Arrived
    <2>. QED  BY <1>1, <2>5
  <1> HIDE DEF arrived
  <1>4. Fits(dropped, owned, cert)
    BY <1>3, DropStaleDeclineKeeps, KeepsFits DEF Fits
  <1> HIDE DEF dropped
  <1>5. Fits(back, owned, cert)
    BY <1>4, BackOnBranchKeeps, KeepsFits DEF Fits
  <1> HIDE DEF back
  <1>6. Fits(mine, owned, cert)
    BY <1>1, <1>5, OwnershipFits
  <1> HIDE DEF mine
  <1>7. Fits(current, owned, cert)
    BY <1>6, RevisionKeeps, KeepsFits DEF Fits
  <1> HIDE DEF current
  <1>8. Fits(landed, owned, cert)
    BY <1>7, RepairLandedKeeps, KeepsFits DEF Fits
  <1> HIDE DEF landed
  <1>9. Fits(Settled(landed, p), owned, cert)
    BY <1>8, SettledKeeps, KeepsFits DEF Fits
  <1>10. ReconciledTask(p, observed, mode) \in {LeftBranch(task), task, Settled(landed, p)}
    BY DEF ReconciledTask, landed, current, mine, back, dropped, arrived
  <1>. QED  BY <1>1, <1>2, <1>9, <1>10

\* Pass steps that leave the record, GitHub and the intent alone.
LEMMA PassReadsSafe ==
    ASSUME PullInv, PassStarts \/ PassReads
    PROVE  PullInv'
  <1>1. pass \in PassRuns /\ gh \in Pulls /\ task.head \in Heads \cup {0}
        /\ faults \in 0..MaxFaults
    BY DEF PullInv, PassInv, GitHubInv, TaskInv, Fits, TaskRecords, RestInv
  <1>2. PassInv'
    <2>1. \/ pass' = NoPass
          \/ pass' \in PassRuns /\ pass'.pc \in {"asked", "observed"}
      BY <1>1, IdleRuns DEF PassStarts, PassReads, PassEnds, PassRuns
    <2>. QED  BY <2>1, IdleKeeps DEF PassInv
  <1>3. ReviewInv'
    BY IdleKeeps, Untouched DEF PassStarts, PassReads, PassEnds
  <1>4. faults' \in 0..MaxFaults
    <2>1. faults' = faults \/ Fault
      BY DEF PassStarts, PassReads
    <2>. QED  BY <1>1, <2>1, PullConstants DEF Fault
  <1>. QED  BY <1>2, <1>3, <1>4, Untouched DEF PassStarts, PassReads, passOnly, PullInv, RestInv

LEMMA PassRecordsSafe ==
    ASSUME PullInv, PassRecords
    PROVE  PullInv'
  <1>1. pass \in PassRuns /\ pass.pull \in Pulls /\ history \in Histories /\ intent \in Intents
    BY DEF PullInv, PassInv, PassRuns, RestInv, IntentInv
  <1> DEFINE tries == IF task'.head = task.head THEN history.tries ELSE 0
             intake == history.intake /\ task'.decision # "pending"
  <1>2. tries \in 0..2 /\ intake \in BOOLEAN
    BY <1>1 DEF Histories
  <1>3. history' = [history EXCEPT !.tries = tries, !.intake = intake]
    BY DEF PassRecords
  <1> HIDE DEF tries, intake
  <1>4. history' \in Histories /\ SameFacts
    BY <1>1, <1>2, <1>3 DEF Histories, SameFacts
  <1>5. TaskInv'
    <2>1. PICK mode \in Modes : task' = ReconciledTask(pass.pull, pass.observed, mode)
      BY DEF PassRecords
    <2>2. Fits(task', owned, history.certified)
      BY <1>1, <2>1, ReconciledFits
    <2>. QED  BY <1>4, <2>2 DEF PassRecords, passOnly, PullInv, TaskInv, SameFacts
  <1>6. IntentInv'
    BY <1>1 DEF PassRecords, ReconciledIntent, PullInv, IntentInv, Intents, NamesCommit
  <1>7. PassInv'
    BY <1>1 DEF PassRecords, PassInv, PassRuns
  <1>. QED  BY <1>4, <1>5, <1>6, <1>7, Untouched DEF PassRecords, passOnly, PullInv, RestInv

LEMMA ClaimDeclinedKeeps ==
    ASSUME NEW k \in TaskRecords
    PROVE  Keeps(k, ClaimDeclined(k))
  <1> DEFINE b == [Rested(k) EXCEPT !.blocked = FALSE]
  <1>1. Keeps(k, b) /\ b \in TaskRecords
    BY ConstantTypes DEF Keeps, Rested, TaskRecords
  <1>2. \/ ClaimDeclined(k) = k
        \/ ~k.external /\ ClaimDeclined(k) = Moved(b, "closing", "hall")
    BY DEF ClaimDeclined, DeclinedOwn
  <1> HIDE DEF b
  <1> DEFINE r == Moved(b, "closing", "hall")
  <1>3. r \in TaskRecords /\ r.external = b.external /\ r.audit = b.audit
    BY <1>1 DEF Moved, TaskRecords, Stages
  <1> HIDE DEF r
  <1>4. ~k.external => Keeps(k, r)
    BY <1>1, <1>3 DEF Keeps
  <1>. QED  BY <1>2, <1>4, KeepsSelf DEF r

LEMMA PassClosesSafe ==
    ASSUME PullInv, PassClaims \/ PassCloses \/ PassReleases \/ PassFinishesClose
    PROVE  PullInv'
  <1>1. /\ pass \in PassRuns /\ gh \in Pulls /\ task \in TaskRecords /\ owned \in BOOLEAN
        /\ faults \in 0..MaxFaults
    BY DEF PullInv, PassInv, GitHubInv, TaskInv, Fits, RestInv
  <1>2. /\ UNCHANGED <<intent, passOnly, history>> /\ ReviewInv' /\ SameFacts
        /\ faults' \in 0..MaxFaults
    <2>1. UNCHANGED <<intent, passOnly, history>> /\ (faults' = faults \/ Fault)
      BY DEF PassClaims, PassCloses, PassReleases, PassFinishesClose
    <2>2. review' = review \/ review' = NoReview
      BY DEF PassClaims, PassCloses, PassReleases, PassFinishesClose, PassEnds
    <2>3. SameFacts
      BY <2>1, Untouched
    <2>4. ReviewInv'
      BY <2>2, <2>3, IdleKeeps, Untouched
    <2>5. faults' \in 0..MaxFaults
      BY <1>1, <2>1, PullConstants DEF Fault
    <2>. QED  BY <2>1, <2>3, <2>4, <2>5
  <1>3. Keeps(task, task')
    <2>1. CASE PassClaims
      BY <1>1, <2>1, ClaimDeclinedKeeps, KeepsSelf DEF PassClaims
    <2>2. CASE PassCloses
      BY <1>1, <2>2, KeepsSelf DEF PassCloses
    <2>3. CASE PassReleases
      BY <1>1, <2>3 DEF PassReleases, Keeps, TaskRecords, Stages, Work
    <2>4. CASE PassFinishesClose
      <3> DEFINE b == Moved(task, "closed", "hall")
                 decision == IF b.decision = "declined" THEN b.decision ELSE ""
      <3>1. Keeps(task, b) /\ b \in TaskRecords
        BY <1>1, MovedKeeps DEF Keeps, Stages, Work, Houses
      <3>2. task' \in {task, [b EXCEPT !.decision = decision]}
        BY <2>4 DEF PassFinishesClose
      <3> HIDE DEF b
      <3>3. decision \in {"", "pending", "admitted", "declined"}
        OBVIOUS
      <3> HIDE DEF decision
      <3>4. Keeps(b, [b EXCEPT !.decision = decision])
        BY <3>1, <3>3 DEF Keeps, TaskRecords
      <3>. QED  BY <1>1, <3>1, <3>2, <3>4, KeepsTransitive, KeepsSelf
    <2>. QED  BY <2>1, <2>2, <2>3, <2>4
  <1>4. TaskInv'
    BY <1>2, <1>3, TaskStep DEF passOnly
  <1>5. PassInv'
    <2>1. \/ pass' = NoPass
          \/ /\ pass' \in PassRuns /\ pass'.pc \in {"closing", "explaining", "refused"}
             /\ pass'.pc = "closing" => task'.stage = "closing"
      BY <1>1 DEF PassClaims, PassCloses, PassReleases, PassFinishesClose, PassEnds, PassTo,
         PassRuns
    <2>2. task'.stage = "closing" => owned'
      BY <1>4 DEF TaskInv, Fits, Work
    <2>. QED  BY <2>1, <2>2, IdleKeeps DEF PassInv
  <1>6. GitHubInv'
    <2>1. \/ gh' = gh
          \/ gh.state # "merged" /\ gh' = [gh EXCEPT !.state = "closed"]
      BY DEF PassClaims, PassCloses, PassReleases, PassFinishesClose
    <2>2. gh' \in Pulls /\ gh'.text = gh.text /\ gh'.disc = gh.disc
          /\ (gh' = gh \/ gh.state # "merged")
      BY <1>1, <2>1 DEF Pulls
    <2>. QED  BY <1>2, <2>2 DEF passOnly, PullInv, GitHubInv
  <1>. QED  BY <1>2, <1>4, <1>5, <1>6, Untouched DEF passOnly, PullInv, RestInv

-----------------------------------------------------------------------------
LEMMA InvNext ==
    ASSUME PullInv, [Next]_vars
    PROVE  PullInv'
  <1>1. CASE Still
    BY <1>1, Untouched DEF Still, PullInv
  <1>2. CASE ReviewStep
    BY <1>2, ReviewRunSafe, ReviewCommitsSafe, MergeReadsSafe, MergeWritesSafe DEF ReviewStep
  <1>3. CASE RepairStep
    BY <1>3, RepairReadsSafe, RepairWritesSafe, RepairEndsSafe DEF RepairStep
  <1>4. CASE PassStep
    BY <1>4, PassReadsSafe, PassRecordsSafe, PassClosesSafe DEF PassStep
  <1>. QED  BY <1>1, <1>2, <1>3, <1>4, PeopleSafe, OwnershipSafe, DecideSafe, RetrySafe,
            CrashSafe, AssessSafe, CanceledSafe, StillSteps DEF Next

\* The invariant that carries certificates and ownership holds in every state.
THEOREM PullInvariant == Spec => []PullInv
  BY InvInit, InvNext, PTL DEF Spec

\* Every variable keeps its type: the record, the intent and the runs hold only
\* values the code can write, however long the service runs.
THEOREM TypeCorrect == Spec => []TypeOK
  <1>1. PullInv /\ clear \in BOOLEAN => TypeOK
    BY DEF PullInv, GitHubInv, TaskInv, Fits, IntentInv, ReviewInv, RepairInv, PassInv,
       RestInv, Histories, TypeOK
  <1>2. Init => clear \in BOOLEAN
    BY PullConstants DEF Init
  <1>3. clear \in BOOLEAN /\ [Next]_vars => (clear \in BOOLEAN)'
    BY ClearTyped
  <1>. QED  BY <1>1, <1>2, <1>3, PullInvariant, PTL DEF Spec

\* The call that closes a pull request is made only for one Town opened,
\* although the inventory, the retirement and the decline each may ask for it.
THEOREM ClosesOwn == Spec => []ClosesOnlyItsOwn
  <1>1. PullInv => ClosesOnlyItsOwn
    BY DEF PullInv, PassInv, ClosesOnlyItsOwn
  <1>. QED  BY <1>1, PullInvariant, PTL

\* Town never merges a head that no review certified, whatever is pushed, said
\* or restarted between the review, the gate and the call.
THEOREM MergesCertified == Spec => []MergedHeadCertified
  <1>1. PullInv => MergedHeadCertified
    BY DEF PullInv, GitHubInv, MergedHeadCertified
  <1>. QED  BY <1>1, PullInvariant, PTL

-----------------------------------------------------------------------------
(***************************************************************************)
(* What the operators on the task record do to its fields.                  *)
(***************************************************************************)
At(r, stage, house, decision) == r.stage = stage /\ r.house = house /\ r.decision = decision
Stands(k, r) == At(r, k.stage, k.house, k.decision)
Asked(r)     == At(r, "awaiting_mayor", "hall", "pending")
Closing(r)   == At(r, "closing", "hall", "")
\* The step moves the record and keeps what it says of the pull request.
Same(k, r) ==
    /\ r \in TaskRecords /\ r.head = k.head /\ r.cycles = k.cycles
    /\ r.declined = k.declined /\ r.external = k.external /\ r.offbranch = k.offbranch
Core(k, r) == Same(k, r) /\ r.audit = k.audit

LEMMA RestedDoes ==
    ASSUME NEW k \in TaskRecords, NEW blocked \in BOOLEAN, NEW tries \in Tries
    PROVE  /\ Core(k, Rested(k)) /\ Stands(k, Rested(k))
           /\ LET r == [k EXCEPT !.attempts = tries, !.blocked = blocked]
              IN  Core(k, r) /\ Stands(k, r)
           /\ LET r == [Rested(k) EXCEPT !.blocked = blocked]
              IN  Core(k, r) /\ Stands(k, r)
           /\ LET r == [k EXCEPT !.blocked = blocked] IN Core(k, r) /\ Stands(k, r)
           /\ LET r == [k EXCEPT !.attempts = tries] IN Core(k, r) /\ Stands(k, r)
  BY ConstantTypes DEF Rested, Core, Same, Stands, At, TaskRecords

LEMMA MovedDoes ==
    ASSUME NEW k \in TaskRecords, NEW stage \in Stages, NEW house \in Houses
    PROVE  Core(k, Moved(k, stage, house)) /\ At(Moved(k, stage, house), stage, house, k.decision)
  BY DEF Moved, Core, Same, At, TaskRecords, Houses

LEMMA AskMayorDoes ==
    ASSUME NEW k \in TaskRecords
    PROVE  Core(k, AskMayor(k)) /\ Asked(AskMayor(k))
  BY DEF AskMayor, Moved, Core, Same, Asked, At, TaskRecords, Stages

LEMMA CoreTransitive ==
    ASSUME NEW k, NEW r, NEW s, Core(k, r), Core(r, s)
    PROVE  Core(k, s)
  BY DEF Core, Same

LEMMA MarkClosingDoes ==
    ASSUME NEW k \in TaskRecords
    PROVE  /\ Core(k, MarkClosing(k))
           /\ Stands(k, MarkClosing(k)) \/ Closing(MarkClosing(k))
           /\ k.stage \notin {"closing", "closed", "merged"} => Closing(MarkClosing(k))
  <1> DEFINE b == [Rested(k) EXCEPT !.blocked = FALSE, !.decision = ""]
  <1>1. Core(k, b) /\ b.decision = ""
    BY ConstantTypes DEF Core, Same, Rested, TaskRecords
  <1>2. Core(k, k) /\ Stands(k, k)
    BY DEF Core, Same, Stands, At
  <1>3. MarkClosing(k) = IF k.stage \in {"closing", "closed", "merged"} THEN k
                         ELSE Moved(b, "closing", "hall")
    BY DEF MarkClosing
  <1> HIDE DEF b
  <1>4. Core(b, Moved(b, "closing", "hall")) /\ Closing(Moved(b, "closing", "hall"))
    BY <1>1, MovedDoes DEF Core, Same, Stages, Houses, Closing
  <1>. QED  BY <1>1, <1>2, <1>3, <1>4, CoreTransitive

LEMMA FailAttemptDoes ==
    ASSUME NEW k \in TaskRecords
    PROVE  /\ Core(k, FailAttempt(k))
           /\ \/ Stands(k, FailAttempt(k))
              \/ k.external /\ Asked(FailAttempt(k))
              \/ ~k.external /\ Closing(FailAttempt(k))
  <1> DEFINE b == [k EXCEPT !.attempts = 2, !.blocked = FALSE]
             c == [k EXCEPT !.attempts = 1, !.blocked = FALSE]
  <1>1. Core(k, b) /\ Stands(k, b) /\ Core(k, c) /\ Stands(k, c)
    BY RestedDoes, ConstantTypes
  <1>2. FailAttempt(k) = IF k.attempts = 0 THEN c ELSE Retire(b)
    BY DEF FailAttempt
  <1> HIDE DEF b, c
  <1>3. /\ Core(b, Retire(b))
        /\ \/ Stands(b, Retire(b))
           \/ b.external /\ Asked(Retire(b))
           \/ ~b.external /\ Closing(Retire(b))
    <2>1. b \in TaskRecords
      BY <1>1 DEF Core, Same
    <2>2. CASE b.external
      <3>1. Core(b, Rested(b)) /\ Rested(b) \in TaskRecords
        BY <2>1, RestedDoes, ConstantTypes DEF Core, Same
      <3>2. Core(Rested(b), AskMayor(Rested(b))) /\ Asked(AskMayor(Rested(b)))
        BY <3>1, AskMayorDoes
      <3>. QED  BY <2>2, <3>1, <3>2, CoreTransitive DEF Retire
    <2>3. CASE ~b.external
      BY <2>1, <2>3, MarkClosingDoes DEF Retire
    <2>. QED  BY <2>2, <2>3
  <1>. QED  BY <1>1, <1>2, <1>3, CoreTransitive DEF Stands, At, Core, Same

LEMMA QueuedDoes ==
    ASSUME NEW k \in TaskRecords
    PROVE  /\ Same(k, Queued(k)) /\ Queued(k).audit = NoAudit
           /\ At(Queued(k), "queued", "review", k.decision)
  <1> DEFINE b == [k EXCEPT !.audit = NoAudit, !.blocked = FALSE]
  <1>1. Same(k, b) /\ b.audit = NoAudit /\ b.decision = k.decision
    BY ConstantTypes DEF Same, TaskRecords
  <1>2. Queued(k) = Moved(b, "queued", "review")
    BY DEF Queued
  <1> HIDE DEF b
  <1>3. Core(b, Queued(k)) /\ At(Queued(k), "queued", "review", b.decision)
    BY <1>1, <1>2, MovedDoes DEF Same, Stages, Houses
  <1>. QED  BY <1>1, <1>3 DEF Core, Same

\* A fix round that landed: counted or not, at the commit it pushed.
LEMMA CountedDoes ==
    ASSUME NEW k \in TaskRecords, NEW cycles \in Nat, NEW head \in Heads \cup {0}
    PROVE  LET r == Queued([Rested(k) EXCEPT !.cycles = cycles, !.head = head]) IN
           /\ r \in TaskRecords /\ At(r, "queued", "review", k.decision)
           /\ r.audit = NoAudit /\ r.cycles = cycles /\ r.head = head
           /\ r.declined = k.declined /\ r.external = k.external /\ r.offbranch = k.offbranch
  <1> DEFINE b == [Rested(k) EXCEPT !.cycles = cycles, !.head = head]
  <1>1. /\ b \in TaskRecords /\ b.decision = k.decision /\ b.cycles = cycles /\ b.head = head
        /\ b.declined = k.declined /\ b.external = k.external /\ b.offbranch = k.offbranch
    BY ConstantTypes DEF Rested, TaskRecords
  <1> HIDE DEF b
  <1>2. /\ Same(b, Queued(b)) /\ Queued(b).audit = NoAudit
        /\ At(Queued(b), "queued", "review", b.decision)
    BY <1>1, QueuedDoes
  <1>. QED  BY <1>1, <1>2 DEF b, Same

LEMMA RepairLandedDoes ==
    ASSUME NEW k \in TaskRecords
    PROVE  LET r == RepairLanded(k) IN
           /\ r \in TaskRecords /\ At(r, "queued", "review", k.decision)
           /\ r.audit = NoAudit /\ r.cycles = k.cycles + 1 /\ r.head = k.head
           /\ r.declined = k.declined /\ r.external = k.external /\ r.offbranch = k.offbranch
  <1> DEFINE cycles == k.cycles + 1
  <1>0. k.cycles \in Nat /\ k.head \in Heads \cup {0}
    BY DEF TaskRecords
  <1>1. cycles \in Nat
    BY <1>0
  <1>2. RepairLanded(k) = Queued([Rested(k) EXCEPT !.cycles = cycles])
    BY DEF RepairLanded, Rested, TaskRecords
  <1>3. [Rested(k) EXCEPT !.cycles = cycles]
          = [Rested(k) EXCEPT !.cycles = cycles, !.head = k.head]
    BY DEF Rested, TaskRecords
  <1> HIDE DEF cycles
  <1>4. LET r == Queued([Rested(k) EXCEPT !.cycles = cycles, !.head = k.head]) IN
           /\ r \in TaskRecords /\ At(r, "queued", "review", k.decision)
           /\ r.audit = NoAudit /\ r.cycles = cycles /\ r.head = k.head
           /\ r.declined = k.declined /\ r.external = k.external /\ r.offbranch = k.offbranch
    BY <1>0, <1>1, CountedDoes
  <1>. QED  BY <1>2, <1>3, <1>4 DEF cycles

LEMMA ClaimDeclinedDoes ==
    ASSUME NEW k \in TaskRecords
    PROVE  /\ Core(k, ClaimDeclined(k))
           /\ \/ Stands(k, ClaimDeclined(k))
              \/ DeclinedOwn(k) /\ At(ClaimDeclined(k), "closing", "hall", k.decision)
  <1> DEFINE b == [Rested(k) EXCEPT !.blocked = FALSE]
  <1>1. Core(k, b) /\ Stands(k, b)
    BY RestedDoes, ConstantTypes
  <1>2. Core(k, k) /\ Stands(k, k)
    BY DEF Core, Same, Stands, At
  <1>3. ClaimDeclined(k) = IF DeclinedOwn(k) /\ ~k.blocked /\ ~k.offbranch
                           THEN Moved(b, "closing", "hall") ELSE k
    BY DEF ClaimDeclined
  <1> HIDE DEF b
  <1>4. /\ Core(b, Moved(b, "closing", "hall"))
        /\ At(Moved(b, "closing", "hall"), "closing", "hall", b.decision)
    BY <1>1, MovedDoes DEF Core, Same, Stages, Houses
  <1>. QED  BY <1>1, <1>2, <1>3, <1>4, CoreTransitive DEF Stands, At

LEMMA SettleReviewDoes ==
    ASSUME NEW k \in TaskRecords, k.audit # NoAudit
    PROVE  LET r == SettleReview(k) IN
           /\ Same(k, r)
           /\ \/ At(r, "ready", "review", k.decision)
              \/ ~k.external /\ At(r, "fixes", "issue", k.decision) /\ r.audit # NoAudit
              \/ k.external /\ Asked(r)
              \/ ~k.external /\ Closing(r)
              \/ ~k.external /\ Stands(k, r) /\ k.stage \in {"closing", "closed", "merged"}
  <1>1. CASE k.audit.verdict = "clean"
    BY <1>1, MovedDoes DEF SettleReview, Core, Same, Stages, Houses
  <1>2. CASE k.audit.verdict # "clean" /\ k.external
    BY <1>2, AskMayorDoes DEF SettleReview, Core, Same
  <1>3. CASE k.audit.verdict # "clean" /\ ~k.external /\ k.cycles = 0
    <2>1. SettleReview(k) = Moved(k, "fixes", "issue")
      BY <1>3 DEF SettleReview
    <2>3. Core(k, Moved(k, "fixes", "issue")) /\ At(Moved(k, "fixes", "issue"), "fixes", "issue", k.decision)
      BY MovedDoes DEF Stages, Houses
    <2>. QED  BY <1>3, <2>1, <2>3 DEF Core, Same
  <1>4. CASE k.audit.verdict = "blocking" /\ ~k.external /\ k.cycles # 0
    <2>1. SettleReview(k) = MarkClosing(k)
      BY <1>4 DEF SettleReview
    <2>. QED  BY <1>4, <2>1, MarkClosingDoes DEF Core, Same
  <1>5. CASE k.audit.verdict \notin {"clean", "blocking"} /\ ~k.external /\ k.cycles # 0
    <2> DEFINE audit == [k.audit EXCEPT !.verdict = "clean"]
               b == [k EXCEPT !.audit = audit]
    <2>1. audit \in Audits
      BY DEF TaskRecords, Audits, Verdicts
    <2> HIDE DEF audit
    <2>2. Same(k, b) /\ b.decision = k.decision
      BY <2>1 DEF Same, TaskRecords
    <2>3. SettleReview(k) = Moved(b, "ready", "review")
      BY <1>5 DEF SettleReview, audit
    <2> HIDE DEF b
    <2>4. Core(b, SettleReview(k)) /\ At(SettleReview(k), "ready", "review", b.decision)
      BY <2>2, <2>3, MovedDoes DEF Same, Stages, Houses
    <2>. QED  BY <2>2, <2>4 DEF Core, Same
  <1>. QED  BY <1>1, <1>2, <1>3, <1>4, <1>5

-----------------------------------------------------------------------------
(***************************************************************************)
(* What the reconciliation's steps do, one after the other.                 *)
(***************************************************************************)

\* The shape of a record the store accepts, and what holds of it besides.
Undecided(k) == k.decision \notin {"pending", "declined"}
Lawful(k) ==
    /\ k.decision = "pending" => k.stage = "awaiting_mayor" /\ k.house = "hall"
    /\ k.decision = "declined" =>
         /\ k.house = "hall"
         /\ k.stage \in {"declined", "closed"} \/ (k.stage = "closing" /\ ~k.external)
    /\ k.stage \in {"unknown", "simplifying"} => k.house = "simplifier"
    /\ k.house = "simplifier" =>
         /\ k.stage \in {"unknown", "simplifying", "closed"}
         /\ k.decision = "" /\ ~k.declined /\ (k.stage # "simplifying" => ~k.offbranch)
    /\ k.stage = "fixes" =>
         k.house = "issue" /\ ~k.external /\ (k.audit # NoAudit \/ k.offbranch)
    /\ k.stage = "ready" => k.house = "review"
    /\ k.stage = "closing" => k.house = "hall"
\* No observation puts a record in this state before the Mayor again.
Reviewable(k) == Undecided(k) /\ (k.house = "hall" => ~k.declined /\ ~k.external)
Led(k) == k \in TaskRecords /\ Lawful(k) /\ (~k.external => owned)

\* From record k the reconciliation comes to record r.
Follows(k, r) ==
    /\ Led(r)
    /\ Reviewable(k) => Reviewable(r)
    /\ ~k.external => ~r.external
    /\ r.stage = "fixes" => k.stage = "fixes"
    /\ r.declined => k.declined
    /\ r.house = "simplifier" => k.house = "simplifier"
\* The steps before the pull request's own state is looked at.
Proceeds(k, r) ==
    /\ Follows(k, r)
    /\ Undecided(k) => Undecided(r)
    /\ k.house = "simplifier" => r.house = "simplifier"
    /\ r.stage = "merged" => k.stage = "merged"
    /\ r.stage = "unknown" => k.stage = "unknown"
    /\ r.cycles = k.cycles

LEMMA FollowsTransitive ==
    ASSUME NEW k, NEW r, NEW s
    PROVE  /\ Follows(k, r) /\ Follows(r, s) => Follows(k, s)
           /\ Proceeds(k, r) /\ Proceeds(r, s) => Proceeds(k, s)
  BY DEF Follows, Proceeds

LEMMA ProceedsSelf ==
    ASSUME NEW k, Led(k)
    PROVE  Proceeds(k, k)
  BY DEF Proceeds, Follows

LEMMA ArrivedLed ==
    ASSUME NEW mode, owned \in BOOLEAN
    PROVE  Led(Arrived(mode)) /\ ~Arrived(mode).declined /\ Arrived(mode).stage # "merged"
           /\ Arrived(mode).cycles = 0
  <1>1. /\ NoTask \in TaskRecords /\ NoTask.external = TRUE /\ NoTask.decision = ""
        /\ NoTask.house = "simplifier" /\ NoTask.declined = FALSE /\ NoTask.cycles = 0
    BY ConstantTypes DEF NoTask, TaskRecords, Stages, NoAudit
  <1>2. CASE Arrived(mode) = AskMayor(NoTask)
    <2>1. Core(NoTask, Arrived(mode)) /\ Asked(Arrived(mode))
      BY <1>1, <1>2, AskMayorDoes
    <2>. QED  BY <1>1, <2>1 DEF Core, Same, Asked, At, Led, Lawful
  <1>3. CASE Arrived(mode) = [NoTask EXCEPT !.stage = "simplifying"]
    <2> DEFINE r == Arrived(mode)
    <2>1. /\ r \in TaskRecords /\ r.external = TRUE /\ r.decision = "" /\ r.stage = "simplifying"
          /\ r.house = "simplifier" /\ r.declined = FALSE /\ r.cycles = 0
      BY <1>1, <1>3 DEF TaskRecords, Stages
    <2>. QED  BY <2>1 DEF Led, Lawful
  <1>. QED  BY <1>2, <1>3 DEF Arrived

LEMMA LeftBranchDoes ==
    ASSUME NEW k \in TaskRecords
    PROVE  LET r == LeftBranch(k) IN
           /\ r \in TaskRecords /\ Stands(k, r) /\ r.head = k.head /\ r.cycles = k.cycles
           /\ r.declined = k.declined /\ r.external = k.external
           /\ \/ r.offbranch = k.offbranch /\ r.audit = k.audit
              \/ r.offbranch /\ k.stage \notin {"unknown", "merged", "closed"}
  <1> DEFINE r == [k EXCEPT !.audit = NoAudit, !.offbranch = TRUE, !.blocked = TRUE]
  <1>1. /\ r \in TaskRecords /\ Stands(k, r) /\ r.head = k.head /\ r.cycles = k.cycles
        /\ r.declined = k.declined /\ r.external = k.external /\ r.offbranch
    BY ConstantTypes DEF Stands, At, TaskRecords
  <1> HIDE DEF r
  <1>2. LeftBranch(k) = IF k.stage \in {"unknown", "merged", "closed"} THEN k ELSE r
    BY DEF LeftBranch, r
  <1>. QED  BY <1>1, <1>2 DEF Stands, At

LEMMA DropStaleDeclineDoes ==
    ASSUME NEW k, Led(k)
    PROVE  /\ Proceeds(k, DropStaleDecline(k))
           /\ DropStaleDecline(k).declined => k.declined /\ k.house = "hall" /\ k.audit = NoAudit
           /\ DropStaleDecline(k).offbranch = k.offbranch /\ Stands(k, DropStaleDecline(k))
           /\ DropStaleDecline(k).external = k.external
  <1> DEFINE r == [k EXCEPT !.declined = FALSE]
             stale == k.house # "hall" \/ (k.decision = "pending" /\ k.external)
                        \/ k.audit # NoAudit
  <1>0. k \in TaskRecords
    BY DEF Led
  <1>1. /\ r \in TaskRecords /\ Stands(k, r) /\ r.head = k.head /\ r.cycles = k.cycles
        /\ r.declined = FALSE /\ r.external = k.external /\ r.audit = k.audit
        /\ r.offbranch = k.offbranch
    BY <1>0 DEF Stands, At, TaskRecords
  <1> HIDE DEF r
  <1>2. Led(r)
    BY <1>1 DEF Led, Lawful, Stands, At
  <1>3. Proceeds(k, r)
    BY <1>1, <1>2 DEF Proceeds, Follows, Stands, At, Undecided, Reviewable
  <1>4. DropStaleDecline(k) = IF k.declined /\ stale THEN r ELSE k
    BY DEF DropStaleDecline, r
  <1>5. k.declined \in BOOLEAN
    BY <1>0 DEF TaskRecords
  <1>. QED  BY <1>1, <1>3, <1>4, <1>5, ProceedsSelf DEF Stands, At

LEMMA BackOnBranchDoes ==
    ASSUME NEW k, Led(k)
    PROVE  /\ Proceeds(k, BackOnBranch(k)) /\ ~BackOnBranch(k).offbranch
           /\ BackOnBranch(k).external = k.external
           /\ \/ ~k.offbranch /\ BackOnBranch(k) = k
              \/ k.offbranch /\ HoldsIntake(k)
              \/ k.offbranch /\ At(BackOnBranch(k), "queued", "review", k.decision)
  <1> DEFINE b == [Rested(k) EXCEPT !.offbranch = FALSE, !.blocked = FALSE, !.audit = NoAudit]
             m == Moved(b, "queued", "review")
  <1>0. k \in TaskRecords
    BY DEF Led
  <1>1. /\ b \in TaskRecords /\ Stands(k, b) /\ b.head = k.head /\ b.cycles = k.cycles
        /\ b.declined = k.declined /\ b.external = k.external /\ b.offbranch = FALSE
    BY <1>0, ConstantTypes DEF Rested, Stands, At, TaskRecords
  <1>2. BackOnBranch(k) = IF ~k.offbranch THEN k ELSE IF HoldsIntake(b) THEN b ELSE m
    BY DEF BackOnBranch
  <1>3. HoldsIntake(b) = HoldsIntake(k)
    BY <1>1 DEF HoldsIntake, Stands, At
  <1> HIDE DEF b
  <1>4. Core(b, m) /\ At(m, "queued", "review", b.decision)
    BY <1>1, MovedDoes DEF Stages, Houses
  <1> HIDE DEF m
  <1>5. CASE ~k.offbranch
    BY <1>2, <1>5, ProceedsSelf
  <1>6. CASE k.offbranch /\ HoldsIntake(k)
    <2>1. Led(b)
      BY <1>1, <1>6 DEF Led, Lawful, Stands, At, HoldsIntake
    <2>2. Proceeds(k, b)
      BY <1>1, <2>1 DEF Proceeds, Follows, Stands, At, Undecided, Reviewable
    <2>. QED  BY <1>1, <1>2, <1>3, <1>6, <2>2
  <1>7. CASE k.offbranch /\ ~HoldsIntake(k)
    <2>1. k.house # "simplifier" /\ k.stage # "unknown"
      BY <1>7 DEF Led, Lawful, HoldsIntake
    <2>2. Led(m)
      BY <1>1, <1>4, <1>7, <2>1 DEF Led, Lawful, Stands, At, HoldsIntake, Core, Same
    <2>3. Proceeds(k, m)
      BY <1>1, <1>4, <1>7, <2>1, <2>2
         DEF Proceeds, Follows, Stands, At, Undecided, Reviewable, Core, Same, HoldsIntake
    <2>. QED  BY <1>1, <1>2, <1>3, <1>4, <1>7, <2>3 DEF Core, Same, Stands, At
  <1>. QED  BY <1>5, <1>6, <1>7

LEMMA OwnershipDoes ==
    ASSUME NEW k, Led(k), k.stage # "unknown", owned \in BOOLEAN
    PROVE  /\ Proceeds(k, Ownership(k))
           /\ Ownership(k).offbranch = k.offbranch
  <1> DEFINE o == [k EXCEPT !.external = ~owned]
             b == [o EXCEPT !.decision = ""]
             m == Moved(b, "queued", "review")
  <1>0. k \in TaskRecords
    BY DEF Led
  <1>1. /\ o \in TaskRecords /\ Stands(k, o) /\ o.head = k.head /\ o.cycles = k.cycles
        /\ o.declined = k.declined /\ o.external = ~owned /\ o.offbranch = k.offbranch
        /\ o.audit = k.audit
    BY <1>0 DEF Stands, At, TaskRecords
  <1>2. Ownership(k) = IF owned /\ k.external /\ k.decision = "pending" THEN m ELSE o
    BY DEF Ownership
  <1> HIDE DEF o
  <1>3. Core(o, b) /\ At(b, o.stage, o.house, "")
    BY <1>1 DEF Core, Same, At, TaskRecords
  <1> HIDE DEF b
  <1>4. Core(b, m) /\ At(m, "queued", "review", "")
    <2>1. b \in TaskRecords /\ b.decision = ""
      BY <1>3 DEF Core, Same, At
    <2>2. "queued" \in Stages /\ "review" \in Houses
      BY DEF Stages, Houses
    <2>. QED  BY <2>1, <2>2, MovedDoes
  <1> HIDE DEF m
  <1>5. k.external \in BOOLEAN
    BY <1>0 DEF TaskRecords
  <1>6. CASE Ownership(k) = o
    <2>1. Led(o)
      BY <1>1, <1>5 DEF Led, Lawful, Stands, At
    <2>2. Proceeds(k, o)
      BY <1>1, <1>5, <2>1 DEF Led, Proceeds, Follows, Stands, At, Undecided, Reviewable
    <2>. QED  BY <1>1, <1>6, <2>2
  <1>7. CASE Ownership(k) = m /\ owned /\ k.decision = "pending"
    <2>1. Led(m)
      BY <1>1, <1>3, <1>4, <1>7 DEF Led, Lawful, At, Core, Same
    <2>2. Proceeds(k, m)
      BY <1>1, <1>3, <1>4, <1>7, <2>1
         DEF Led, Lawful, Proceeds, Follows, At, Core, Same, Undecided, Reviewable
    <2>. QED  BY <1>1, <1>3, <1>4, <1>7, <2>2 DEF Core, Same
  <1>. QED  BY <1>2, <1>6, <1>7

LEMMA RevisionDoes ==
    ASSUME NEW k, Led(k), k.stage # "unknown", ~k.offbranch, NEW p \in Pulls
    PROVE  Proceeds(k, Revision(k, p)) /\ Revision(k, p).head = p.head
           /\ ~Revision(k, p).offbranch
  <1> DEFINE r == [Rested(k) EXCEPT !.audit = NoAudit, !.blocked = FALSE]
             m == Moved(r, "queued", "review")
             c == IF SameRevision(k, p) THEN k ELSE Revised(k, p)
             s == [c EXCEPT !.head = p.head, !.text = p.text]
  <1>0. k \in TaskRecords
    BY DEF Led
  <1>1. Same(k, r) /\ Stands(k, r)
    BY <1>0, ConstantTypes DEF Rested, Same, Stands, At, TaskRecords
  <1>2. c = IF SameRevision(k, p) THEN k
            ELSE IF k.stage \in {"merged", "closed", "closing"} \/ HoldsIntake(k) THEN r ELSE m
    BY DEF Revised
  <1>3. Revision(k, p) = s
    BY DEF Revision
  <1> HIDE DEF r, c
  <1>4. Core(r, m) /\ At(m, "queued", "review", r.decision)
    BY <1>1, MovedDoes DEF Same, Stages, Houses
  <1> HIDE DEF m
  <1>5. /\ Same(k, c)
        /\ \/ Stands(k, c) /\ c.audit = k.audit
           \/ Stands(k, c) /\ k.stage # "fixes"
           \/ /\ k.stage # "unknown" /\ k.house # "simplifier"
              /\ k.stage # "merged" /\ At(c, "queued", "review", k.decision) /\ Undecided(k)
    <2>1. CASE SameRevision(k, p)
      BY <1>0, <1>2, <2>1 DEF Same, Stands, At
    <2>2. CASE ~SameRevision(k, p) /\ (k.stage \in {"merged", "closed", "closing"} \/ HoldsIntake(k))
      BY <1>1, <1>2, <2>2 DEF HoldsIntake, Led, Lawful
    <2>3. CASE ~SameRevision(k, p) /\ ~(k.stage \in {"merged", "closed", "closing"} \/ HoldsIntake(k))
      BY <1>1, <1>2, <1>4, <2>3
         DEF HoldsIntake, Led, Lawful, Core, Same, Stands, At, Undecided
    <2>. QED  BY <2>1, <2>2, <2>3
  <1>6. /\ s \in TaskRecords /\ s.head = p.head /\ Stands(c, s) /\ s.audit = c.audit
        /\ s.declined = c.declined /\ s.external = c.external /\ s.offbranch = c.offbranch
        /\ s.cycles = c.cycles
    <2>1. p.head \in Heads \cup {0} /\ p.text \in Texts /\ c \in TaskRecords
      BY <1>5 DEF Pulls, Same
    <2>. QED  BY <2>1 DEF TaskRecords, Stands, At
  <1> HIDE DEF s
  <1>7. Led(s)
    BY <1>5, <1>6 DEF Led, Lawful, Same, Stands, At, Undecided
  <1>8. Proceeds(k, s)
    BY <1>5, <1>6, <1>7 DEF Proceeds, Follows, Same, Stands, At, Undecided, Reviewable
  <1>. QED  BY <1>3, <1>5, <1>6, <1>8 DEF Same

\* The pull request's own state is taken into the record.
Ends(k, r) ==
    /\ Follows(k, r) /\ r.head = k.head /\ r.cycles = k.cycles /\ ~r.offbranch
    /\ r.stage # "unknown"

LEMMA ResumeDoes ==
    ASSUME NEW k, Led(k), ~k.offbranch, k.stage \in {"closed", "draft"}
    PROVE  /\ Ends(k, Resume(k)) /\ Resume(k).stage \notin {"merged", "closed"}
           /\ k.house = "simplifier" => Resume(k).house = "simplifier"
  <1>0. k \in TaskRecords
    BY DEF Led
  <1>1. CASE Resume(k) = AskMayor(k) /\ k.house = "hall" /\ ~Reviewable(k)
    <2>1. Core(k, Resume(k)) /\ Asked(Resume(k))
      BY <1>0, <1>1, AskMayorDoes
    <2>2. Led(Resume(k))
      BY <2>1 DEF Led, Lawful, Core, Same, Asked, At
    <2>. QED  BY <1>1, <2>1, <2>2 DEF Ends, Follows, Core, Same, Asked, At
  <1>2. CASE /\ Resume(k) = [k EXCEPT !.stage = "declined"]
             /\ k.house = "hall" /\ ~Reviewable(k)
    <2> DEFINE r == [k EXCEPT !.stage = "declined"]
    <2>1. Core(k, r) /\ At(r, "declined", k.house, k.decision)
      BY <1>0 DEF Core, Same, At, TaskRecords, Stages
    <2> HIDE DEF r
    <2>2. Led(r)
      BY <1>2, <2>1 DEF Led, Lawful, Core, Same, At
    <2>. QED  BY <1>2, <2>1, <2>2 DEF Ends, Follows, Core, Same, At, r
  <1>3. CASE Resume(k) = [k EXCEPT !.stage = "simplifying"] /\ k.house = "simplifier"
    <2> DEFINE r == [k EXCEPT !.stage = "simplifying"]
    <2>1. Core(k, r) /\ At(r, "simplifying", k.house, k.decision)
      BY <1>0 DEF Core, Same, At, TaskRecords, Stages
    <2> HIDE DEF r
    <2>2. Led(r)
      BY <1>3, <2>1 DEF Led, Lawful, Core, Same, At
    <2>. QED  BY <1>3, <2>1, <2>2 DEF Ends, Follows, Core, Same, At, r, Reviewable, Undecided
  <1>4. CASE /\ Resume(k) = Moved(k, "queued", "review") /\ k.house # "simplifier"
             /\ Undecided(k)
    <2> DEFINE r == Moved(k, "queued", "review")
    <2>1. Core(k, r) /\ At(r, "queued", "review", k.decision)
      BY <1>0, MovedDoes DEF Stages, Houses
    <2> HIDE DEF r
    <2>2. Led(r)
      BY <1>4, <2>1 DEF Led, Lawful, Core, Same, At, Undecided
    <2>. QED  BY <1>4, <2>1, <2>2 DEF Ends, Follows, Core, Same, At, r, Reviewable, Undecided
  <1>5. \/ Resume(k) = AskMayor(k) /\ k.house = "hall" /\ ~Reviewable(k)
        \/ Resume(k) = [k EXCEPT !.stage = "declined"] /\ k.house = "hall" /\ ~Reviewable(k)
        \/ Resume(k) = [k EXCEPT !.stage = "simplifying"] /\ k.house = "simplifier"
        \/ Resume(k) = Moved(k, "queued", "review") /\ k.house # "simplifier" /\ Undecided(k)
    BY DEF Resume, Led, Lawful, Reviewable, Undecided
  <1>. QED  BY <1>1, <1>2, <1>3, <1>4, <1>5

LEMMA SettledDoes ==
    ASSUME NEW k, Led(k), ~k.offbranch, k.stage # "unknown", NEW p \in Pulls
    PROVE  /\ Ends(k, Settled(k, p))
           /\ p.state = "merged" => Settled(k, p).stage = "merged"
           /\ Settled(k, p).stage = "merged" => p.state = "merged" \/ k.stage = "merged"
           /\ k.house = "simplifier" /\ p.state # "merged" => Settled(k, p).house = "simplifier"
  <1>0. k \in TaskRecords
    BY DEF Led
  <1>1. CASE p.state = "merged"
    <2> DEFINE blocked == IF intent.kind = "merge" THEN FALSE ELSE k.blocked
               b == [k EXCEPT !.decision = "", !.blocked = blocked]
               m == Moved(b, "merged", "release")
    <2>1. blocked \in BOOLEAN
      BY <1>0 DEF TaskRecords
    <2> HIDE DEF blocked
    <2>2. Core(k, b) /\ b.decision = ""
      BY <1>0, <2>1 DEF Core, Same, TaskRecords
    <2>3. Settled(k, p) = m
      BY <1>1 DEF Settled, blocked
    <2> HIDE DEF b
    <2>4. Core(b, m) /\ At(m, "merged", "release", "")
      BY <2>2, MovedDoes DEF Core, Same, Stages, Houses
    <2> HIDE DEF m
    <2>5. Led(m)
      BY <2>2, <2>4 DEF Led, Lawful, Core, Same, At
    <2>6. Ends(k, m)
      BY <2>2, <2>4, <2>5 DEF Ends, Follows, Core, Same, At, Reviewable, Undecided
    <2>. QED  BY <1>1, <2>3, <2>4, <2>6 DEF At
  <1>2. CASE p.state = "closed" /\ k.stage = "closing"
    <2>1. Settled(k, p) = k
      BY <1>2 DEF Settled
    <2>. QED  BY <1>2, <2>1, ProceedsSelf DEF Ends, Proceeds
  <1>3. CASE p.state = "closed" /\ k.stage # "closing"
    <2> DEFINE decision == IF k.decision = "pending" THEN "" ELSE k.decision
               r == [k EXCEPT !.stage = "closed", !.decision = decision]
    <2>1. Settled(k, p) = r
      BY <1>3 DEF Settled, ClosedByPeople
    <2>2. decision \in {"", "pending", "admitted", "declined"}
      BY <1>0 DEF TaskRecords
    <2>3. /\ decision # "pending" /\ (decision = "declined" <=> k.decision = "declined")
          /\ k.decision = "" => decision = ""
      OBVIOUS
    <2> HIDE DEF decision
    <2>4. Core(k, r) /\ At(r, "closed", k.house, decision)
      BY <1>0, <2>2 DEF Core, Same, At, TaskRecords, Stages
    <2> HIDE DEF r
    <2>5. Led(r)
      BY <2>3, <2>4 DEF Led, Lawful, Core, Same, At
    <2>6. Ends(k, r)
      BY <2>3, <2>4, <2>5 DEF Ends, Follows, Core, Same, At, Reviewable, Undecided
    <2>. QED  BY <1>3, <2>1, <2>4, <2>6 DEF At
  <1>4. CASE p.state = "open"
    <2> DEFINE o == IF k.stage = "closed" THEN Resume(k) ELSE k
    <2>1. /\ Ends(k, o) /\ o.stage # "closed" /\ (o.stage = "merged" => k.stage = "merged")
          /\ k.house = "simplifier" => o.house = "simplifier"
      BY ResumeDoes, ProceedsSelf DEF Ends, Proceeds
    <2>2. Settled(k, p) = IF o.stage = "closing" \/ HoldsIntake(o) THEN o
                ELSE IF p.draft THEN [o EXCEPT !.stage = "draft"]
                ELSE IF o.stage = "draft" THEN Resume(o) ELSE o
      BY <1>4 DEF Settled
    <2> HIDE DEF o
    <2>3. CASE Settled(k, p) = o
      BY <1>4, <2>1, <2>3
    <2>4. CASE ~HoldsIntake(o) /\ Settled(k, p) = [o EXCEPT !.stage = "draft"]
      <3> DEFINE r == [o EXCEPT !.stage = "draft"]
      <3>1. o \in TaskRecords
        BY <2>1 DEF Ends, Follows, Led
      <3>2. Core(o, r) /\ At(r, "draft", o.house, o.decision)
        BY <3>1 DEF Core, Same, At, TaskRecords, Stages
      <3> HIDE DEF r
      <3>3. Led(r) /\ o.house # "simplifier"
        BY <2>1, <2>4, <3>2 DEF Ends, Follows, Led, Lawful, Core, Same, At, HoldsIntake
      <3>4. Ends(o, r)
        BY <2>1, <3>2, <3>3 DEF Ends, Follows, Core, Same, At, Reviewable, Undecided
      <3>5. Ends(k, r)
        BY <2>1, <3>4, FollowsTransitive DEF Ends
      <3>. QED  BY <1>4, <2>1, <2>4, <3>2, <3>3, <3>5 DEF At, r
    <2>5. CASE o.stage = "draft" /\ Settled(k, p) = Resume(o)
      <3>1. /\ Ends(o, Resume(o)) /\ Resume(o).stage # "merged"
            /\ o.house = "simplifier" => Resume(o).house = "simplifier"
        BY <2>1, <2>5, ResumeDoes DEF Ends, Follows
      <3>2. Ends(k, Resume(o))
        BY <2>1, <3>1, FollowsTransitive DEF Ends
      <3>. QED  BY <1>4, <2>1, <2>5, <3>1, <3>2
    <2>. QED  BY <2>2, <2>3, <2>4, <2>5
  <1>. QED  BY <1>1, <1>2, <1>3, <1>4 DEF Pulls

LEMMA RepairLandedFollows ==
    ASSUME NEW k, Led(k), Undecided(k), k.house # "simplifier"
    PROVE  Follows(k, RepairLanded(k))
  <1> DEFINE r == RepairLanded(k)
  <1>1. /\ r \in TaskRecords /\ At(r, "queued", "review", k.decision)
        /\ r.declined = k.declined /\ r.external = k.external
    BY RepairLandedDoes DEF Led
  <1> HIDE DEF r
  <1>2. Led(r)
    BY <1>1 DEF Led, Lawful, At, Undecided
  <1>. QED  BY <1>1, <1>2 DEF Follows, At, Reviewable, Undecided, r

\* A record whose repair landed after the observation was made: no observation
\* without that repair puts it before the Mayor either.
Racing(k) ==
    /\ Undecided(k) /\ ~k.external
    /\ k.declined =>
         \/ k.stage = "fixes"
         \/ /\ k.house = "hall" /\ k.stage \in {"closing", "closed", "declined"}
            /\ k.audit # NoAudit \/ (k.offbranch /\ k.stage # "declined")

LEMMA ReconciledDoes ==
    ASSUME PullInv, Lawful(task), NEW p \in Pulls, NEW observed, NEW mode,
           p.here, ~ObservationStale(observed),
           RepairSeen(p) => Undecided(task) /\ task.house # "simplifier"
    PROVE  LET r == ReconciledTask(p, observed, mode) IN
           /\ Led(r) /\ r.head = p.head /\ r.stage # "unknown"
           /\ p.state = "merged" => r.stage = "merged"
           /\ r.stage = "merged" => p.state = "merged" \/ task.stage = "merged"
           /\ task.stage = "unknown" => r.cycles = 0
           /\ task.stage # "unknown" =>
                /\ r.cycles = IF RepairSeen(p) THEN task.cycles + 1 ELSE task.cycles
                /\ Reviewable(task) \/ Racing(task) => Reviewable(r)
                /\ ~task.external => ~r.external
                /\ r.stage = "fixes" => task.stage = "fixes"
                /\ r.house = "simplifier" => task.house = "simplifier"
                /\ task.house = "simplifier" /\ p.state # "merged" => r.house = "simplifier"
                /\ r.declined => task.declined /\ task.house = "hall"
  <1> DEFINE arrived == IF task.stage = "unknown" THEN Arrived(mode) ELSE task
             dropped == DropStaleDecline(arrived)
             back == BackOnBranch(dropped)
             mine == Ownership(back)
             current == Revision(mine, p)
             landed == IF RepairSeen(p) THEN RepairLanded(current) ELSE current
             r == Settled(landed, p)
  <1>1. Led(task) /\ owned \in BOOLEAN /\ task.cycles \in Nat
    BY DEF PullInv, TaskInv, Fits, Led, TaskRecords
  <1>2. ReconciledTask(p, observed, mode) = r
    BY DEF ReconciledTask
  <1>3. /\ Led(arrived) /\ arrived.stage # "unknown"
        /\ arrived.stage = "merged" => task.stage = "merged"
        /\ task.stage = "unknown" => arrived.cycles = 0
        /\ task.stage # "unknown" => arrived = task
    <2>1. Arrived(mode).stage # "unknown"
      <3>1. Arrived(mode) \in {AskMayor(NoTask), [NoTask EXCEPT !.stage = "simplifying"]}
        BY DEF Arrived
      <3>2. AskMayor(NoTask).stage = "awaiting_mayor"
        BY DEF AskMayor, Moved, NoTask
      <3>3. [NoTask EXCEPT !.stage = "simplifying"].stage = "simplifying"
        BY DEF NoTask
      <3>. QED  BY <3>1, <3>2, <3>3
    <2>. QED  BY <1>1, <2>1, ArrivedLed
  <1> HIDE DEF arrived
  <1>4. /\ Proceeds(arrived, dropped) /\ Led(dropped) /\ dropped.stage # "unknown"
        /\ dropped.declined => arrived.declined /\ arrived.house = "hall" /\ arrived.audit = NoAudit
        /\ dropped.offbranch = arrived.offbranch /\ Stands(arrived, dropped)
        /\ dropped.external = arrived.external
    BY <1>3, DropStaleDeclineDoes DEF Proceeds, Follows
  <1> HIDE DEF dropped
  <1>5. /\ Proceeds(dropped, back) /\ Led(back) /\ ~back.offbranch /\ back.stage # "unknown"
        /\ \/ ~dropped.offbranch /\ back = dropped
           \/ dropped.offbranch /\ HoldsIntake(dropped)
           \/ dropped.offbranch /\ At(back, "queued", "review", dropped.decision)
    BY <1>4, BackOnBranchDoes DEF Proceeds, Follows
  <1> HIDE DEF back
  <1>6. Racing(arrived) => Reviewable(back)
    <2> SUFFICES ASSUME Racing(arrived) PROVE Reviewable(back)
      OBVIOUS
    <2>1. CASE ~dropped.declined
      <3>1. Reviewable(dropped)
        BY <1>4, <2>1 DEF Racing, Reviewable, Undecided, Stands, At
      <3>. QED  BY <1>5, <3>1 DEF Proceeds, Follows
    <2>2. CASE dropped.declined
      <3>1. dropped.offbranch /\ ~HoldsIntake(dropped) /\ Undecided(dropped)
        BY <1>3, <1>4, <2>2
           DEF Racing, Led, Lawful, Stands, At, HoldsIntake, Undecided
      <3>. QED  BY <1>5, <3>1 DEF Reviewable, At, Undecided
    <2>. QED  BY <2>1, <2>2
  <1>7. Proceeds(back, mine) /\ Led(mine) /\ ~mine.offbranch /\ mine.stage # "unknown"
    BY <1>1, <1>5, OwnershipDoes DEF Proceeds, Follows
  <1> HIDE DEF mine
  <1>8. /\ Proceeds(mine, current) /\ Led(current) /\ current.head = p.head
        /\ ~current.offbranch /\ current.stage # "unknown"
    BY <1>7, RevisionDoes DEF Proceeds, Follows
  <1> HIDE DEF current
  <1>9. /\ Proceeds(arrived, current) /\ Proceeds(back, current)
    BY <1>4, <1>5, <1>7, <1>8, FollowsTransitive
  <1>10. RepairSeen(p) => Undecided(current) /\ current.house # "simplifier" /\ arrived = task
    <2>1. RepairSeen(p) => task.stage # "unknown"
      BY DEF Lawful
    <2>. QED  BY <1>3, <1>9, <2>1 DEF Proceeds, Follows
  <1>11. /\ Follows(current, landed) /\ Led(landed) /\ landed.head = p.head
         /\ ~landed.offbranch /\ landed.stage # "unknown"
         /\ landed.cycles = IF RepairSeen(p) THEN current.cycles + 1 ELSE current.cycles
         /\ landed.stage = "merged" => current.stage = "merged"
         /\ current.house = "simplifier" => landed.house = "simplifier"
    <2>1. CASE RepairSeen(p)
      <3>1. Follows(current, RepairLanded(current))
        BY <1>8, <1>10, <2>1, RepairLandedFollows
      <3>2. LET l == RepairLanded(current) IN
            /\ At(l, "queued", "review", current.decision) /\ l.cycles = current.cycles + 1
            /\ l.head = current.head /\ l.offbranch = current.offbranch
        BY <1>8, RepairLandedDoes DEF Led
      <3>. QED  BY <1>8, <1>10, <2>1, <3>1, <3>2 DEF At, Follows
    <2>2. CASE ~RepairSeen(p)
      <3>1. landed = current
        BY <2>2
      <3>2. Follows(current, current)
        BY <1>8, ProceedsSelf DEF Proceeds
      <3>. QED  BY <1>8, <2>2, <3>1, <3>2
    <2>. QED  BY <2>1, <2>2
  <1> HIDE DEF landed
  <1>12. /\ Ends(landed, r)
         /\ p.state = "merged" => r.stage = "merged"
         /\ r.stage = "merged" => p.state = "merged" \/ landed.stage = "merged"
         /\ landed.house = "simplifier" /\ p.state # "merged" => r.house = "simplifier"
    BY <1>11, SettledDoes
  <1> HIDE DEF r
  <1>13. /\ Led(r) /\ r.head = p.head /\ r.stage # "unknown"
         /\ r.cycles = IF RepairSeen(p) THEN arrived.cycles + 1 ELSE arrived.cycles
    BY <1>9, <1>11, <1>12 DEF Ends, Follows, Proceeds
  <1>14. r.stage = "merged" => p.state = "merged" \/ task.stage = "merged"
    BY <1>3, <1>9, <1>11, <1>12 DEF Proceeds
  <1>15. Follows(arrived, r) /\ Follows(back, r)
    BY <1>9, <1>11, <1>12, FollowsTransitive DEF Ends, Proceeds
  <1>16. arrived.house = "simplifier" /\ p.state # "merged" => r.house = "simplifier"
    BY <1>9, <1>11, <1>12 DEF Proceeds
  <1>17. Reviewable(arrived) \/ Racing(arrived) => Reviewable(r)
    BY <1>6, <1>15 DEF Follows
  <1>18. r.declined => arrived.declined /\ arrived.house = "hall"
    BY <1>4, <1>5, <1>9, <1>11, <1>12 DEF Ends, Follows, Proceeds
  <1>19. task.stage = "unknown" => ~RepairSeen(p)
    BY DEF Lawful
  <1>. QED  BY <1>2, <1>3, <1>12, <1>13, <1>14, <1>15, <1>16, <1>17, <1>18, <1>19 DEF Follows

-----------------------------------------------------------------------------
(***************************************************************************)
(* The revisions.  Every step of the branch goes up, every push Town makes  *)
(* is above the head it was made for, and Town never knows a head above     *)
(* GitHub's, except that of a pull request which merged meanwhile.          *)
(***************************************************************************)
Aimed(i) == i.kind = "repair" => i.head < i.new /\ i.new <= used
HeadInv ==
    /\ gh.head <= used /\ pass.pull.head <= gh.head
    /\ gh.state # "merged" => task.head <= gh.head
    /\ Aimed(intent) /\ Aimed(repair.intent)
    /\ repair.pc = "confirming" => gh.state = "merged" \/ repair.intent.new <= gh.head
    /\ repair.pc = "superseding" => repair.head <= gh.head
    /\ pass.pc = "asked" => gh.state = "merged" \/ pass.observed <= gh.head
    /\ pass.pc = "observed" => gh.state = "merged" \/ pass.observed <= pass.pull.head

LEMMA HeadTypes ==
    ASSUME PullInv
    PROVE  /\ gh \in Pulls /\ task \in TaskRecords /\ intent \in Intents
           /\ repair \in RepairRuns /\ repair.intent \in Intents /\ pass \in PassRuns
           /\ pass.pull \in Pulls /\ review \in ReviewRuns
           /\ gh.head \in Nat /\ gh.head >= 1 /\ used \in Nat /\ task.head \in Nat
           /\ intent.head \in Nat /\ intent.new \in Nat
           /\ repair.head \in Nat /\ repair.intent.head \in Nat /\ repair.intent.new \in Nat
           /\ pass.observed \in Nat /\ pass.pull.head \in Nat
  <1>1. /\ gh \in Pulls /\ task \in TaskRecords /\ intent \in Intents
        /\ repair \in RepairRuns /\ pass \in PassRuns /\ review \in ReviewRuns /\ used \in Heads
    BY DEF PullInv, GitHubInv, TaskInv, Fits, IntentInv, RepairInv, PassInv, ReviewInv
  <1>2. repair.intent \in Intents /\ pass.pull \in Pulls
    BY <1>1 DEF RepairRuns, PassRuns
  <1>3. \A h \in Heads \cup {0} : h \in Nat
    BY PullConstants DEF Heads
  <1>4. \A h \in Heads : h \in Nat /\ h >= 1
    BY PullConstants DEF Heads
  <1>5. gh.head \in Heads /\ pass.pull.head \in Heads
    BY <1>1, <1>2 DEF Pulls
  <1>6. /\ task.head \in Heads \cup {0} /\ intent.head \in Heads \cup {0}
        /\ intent.new \in Heads \cup {0} /\ repair.head \in Heads \cup {0}
        /\ repair.intent.head \in Heads \cup {0} /\ repair.intent.new \in Heads \cup {0}
        /\ pass.observed \in Heads \cup {0}
    BY <1>1, <1>2 DEF TaskRecords, Intents, RepairRuns, PassRuns
  <1> HIDE DEF Heads
  <1>. QED  BY <1>1, <1>2, <1>3, <1>4, <1>5, <1>6

\* A step that moves no head.
LEMMA HeadFrame ==
    ASSUME PullInv, HeadInv, used' = used, task'.head = task.head, Aimed(intent'),
           gh'.head = gh.head, gh.state = "merged" => gh'.state = "merged",
           \/ pass' = pass \/ pass' = NoPass
           \/ pass'.pull = pass.pull /\ pass'.pc \notin {"asked", "observed"},
           \/ repair' = repair \/ repair' = NoRepair
           \/ Aimed(repair'.intent) /\ repair'.pc \notin {"confirming", "superseding"}
    PROVE  HeadInv'
  <1>1. /\ NoPass.pc = "idle" /\ NoPass.pull.head = 1 /\ NoRepair.pc = "idle"
        /\ NoRepair.intent.kind = "none"
    BY DEF NoPass, FirstPull, NoRepair, NoIntent
  <1>. QED  BY <1>1, HeadTypes DEF HeadInv, Aimed

LEMMA HeadInit == Init => HeadInv
  <1> SUFFICES ASSUME Init PROVE HeadInv
    OBVIOUS
  <1>1. /\ gh.head = 1 /\ used = 1 /\ pass.pull.head = 1 /\ task.head = 0 /\ intent.kind = "none"
        /\ repair.intent.kind = "none" /\ repair.pc = "idle" /\ pass.pc = "idle"
    BY DEF Init, FirstPull, NoPass, NoRepair, NoIntent, NoTask
  <1>. QED  BY <1>1 DEF HeadInv, Aimed

LEMMA HeadPeople ==
    ASSUME PullInv, HeadInv, People
    PROVE  HeadInv'
  <1>1. UNCHANGED <<task, intent, repair, pass>>
    BY DEF People, townState, houses
  <1>2. /\ used' \in Nat /\ used <= used' /\ gh'.head \in Nat /\ gh.head <= gh'.head
        /\ gh'.head <= used' /\ gh.state # "merged"
    <2>1. CASE /\ gh.state = "open" /\ used' = used + 1
               /\ \E log \in {{}, gh.log} :
                    gh' = [gh EXCEPT !.head = used + 1, !.log = log \cup {used + 1}]
      <3>1. gh'.head = used + 1
        BY <2>1, HeadTypes DEF Pulls
      <3>. QED  BY <2>1, <3>1, HeadTypes DEF HeadInv
    <2>2. CASE /\ used' = used
               /\ \/ gh.state = "open" /\ gh' = [gh EXCEPT !.disc = @ + 1]
                  \/ gh.state = "open" /\ gh' = [gh EXCEPT !.text = @ + 1]
                  \/ gh.state = "open" /\ gh' = [gh EXCEPT !.draft = ~@]
                  \/ gh.state = "open" /\ gh' = [gh EXCEPT !.here = ~@]
                  \/ gh.state = "open" /\ gh' = [gh EXCEPT !.state = "closed"]
                  \/ gh.state = "open" /\ ~gh.draft /\ gh' = [gh EXCEPT !.state = "merged"]
                  \/ gh.state = "closed" /\ gh' = [gh EXCEPT !.state = "open"]
      <3>1. gh'.head = gh.head /\ gh.state # "merged"
        BY <2>2, HeadTypes DEF Pulls
      <3>. QED  BY <2>2, <3>1, HeadTypes DEF HeadInv
    <2>. QED  BY <2>1, <2>2 DEF People
  <1>. QED  BY <1>1, <1>2, HeadTypes DEF HeadInv, Aimed

\* Everything but the pushes and the passes moves no head.
LEMMA HeadQuiet ==
    ASSUME PullInv, HeadInv,
           \/ OwnershipRecorded \/ Decide \/ Retry \/ Crash \/ AssessStarts \/ AssessEnds
           \/ AssessCanceled
    PROVE  HeadInv'
  <1>1. Core(task, Rested(task)) /\ Rested(task) \in TaskRecords
    BY HeadTypes, RestedDoes, ConstantTypes DEF Core, Same
  <1>2. CASE OwnershipRecorded \/ Crash \/ AssessStarts
    <2>1. UNCHANGED <<gh, used, task, intent>>
      BY <1>2 DEF OwnershipRecorded, Crash, AssessStarts, houses, bounds
    <2>2. (pass' = pass \/ pass' = NoPass) /\ (repair' = repair \/ repair' = NoRepair)
      BY <1>2 DEF OwnershipRecorded, Crash, AssessStarts, houses, LosesRuns
    <2>3. Aimed(intent')
      BY <2>1 DEF HeadInv, Aimed
    <2>. QED  BY <2>1, <2>2, <2>3, HeadFrame
  <1>3. CASE Decide
    <2>1. task'.head = Rested(task).head
      BY <1>1, <1>3 DEF Decide, Moved, TaskRecords
    <2>2. UNCHANGED <<gh, used, intent, repair, pass>>
      BY <1>3 DEF Decide, houses, bounds
    <2>. QED  BY <1>1, <2>1, <2>2, HeadFrame DEF Core, Same, HeadInv, Aimed
  <1>4. CASE Retry
    <2>1. task'.head = Rested(task).head
      BY <1>1, <1>4 DEF Retry, TaskRecords
    <2>2. /\ intent'.kind = intent.kind /\ intent'.head = intent.head /\ intent'.new = intent.new
          /\ UNCHANGED <<gh, used, repair, pass>>
      BY <1>4, HeadTypes DEF Retry, Intents, houses
    <2>. QED  BY <1>1, <2>1, <2>2, HeadFrame DEF Core, Same, HeadInv, Aimed
  <1>5. CASE AssessEnds
    <2> DEFINE k == [Rested(task) EXCEPT !.blocked = FALSE]
               asked == [k EXCEPT !.declined = FALSE]
               admitted == [k EXCEPT !.decision = "", !.declined = FALSE]
               declined == [k EXCEPT !.decision = "", !.declined = TRUE]
    <2>1. /\ asked \in TaskRecords /\ admitted \in TaskRecords /\ declined \in TaskRecords
          /\ asked.head = task.head /\ admitted.head = task.head /\ declined.head = task.head
      BY <1>1 DEF TaskRecords, Core, Same
    <2>2. task' \in {AskMayor(asked), Moved(admitted, "queued", "review"),
                     Moved(declined, "declined", "hall"), task, FailAttempt(task)}
      BY <1>5 DEF AssessEnds
    <2> HIDE DEF asked, admitted, declined
    <2>3. /\ AskMayor(asked).head = asked.head
          /\ Moved(admitted, "queued", "review").head = admitted.head
          /\ Moved(declined, "declined", "hall").head = declined.head
      BY <2>1, AskMayorDoes, MovedDoes DEF Core, Same, Stages, Houses
    <2>4. FailAttempt(task).head = task.head
      BY HeadTypes, FailAttemptDoes DEF Core, Same
    <2>5. task'.head = task.head
      BY <2>1, <2>2, <2>3, <2>4
    <2>. QED  BY <1>5, <2>5, HeadFrame DEF AssessEnds, bounds, HeadInv, Aimed
  <1>6. CASE AssessCanceled
    <2>1. task'.head = task.head
      BY <1>6, HeadTypes DEF AssessCanceled, TaskRecords
    <2>2. /\ UNCHANGED <<gh, used, intent>>
          /\ (pass' = pass \/ pass' = NoPass) /\ (repair' = repair \/ repair' = NoRepair)
      BY <1>6 DEF AssessCanceled, bounds, LosesRuns
    <2>. QED  BY <2>1, <2>2, HeadFrame DEF HeadInv, Aimed
  <1>. QED  BY <1>2, <1>3, <1>4, <1>5, <1>6

LEMMA FailingDoes ==
    ASSUME PullInv, NEW head, Failing(head)
    PROVE  /\ Core(task, task')
           /\ \/ Stands(task, task')
              \/ task.external /\ Asked(task')
              \/ ~task.external /\ Closing(task')
           /\ history'.refused = history.refused /\ history'.repairs = history.repairs
  <1>1. task' = FailAttempt(task)
    BY DEF Failing
  <1>2. history'.refused = history.refused /\ history'.repairs = history.repairs
    BY DEF Failing, PullInv, RestInv, Histories
  <1>. QED  BY <1>1, <1>2, HeadTypes, FailAttemptDoes

\* A review's commit fails the revision, settles it, or comes too late.
LEMMA ReviewCommitsDoes ==
    ASSUME PullInv, ReviewCommits
    PROVE  /\ Same(task, task')
           /\ \/ task' = task
              \/ Core(task, task') /\ Stands(task, task')
              \/ At(task', "ready", "review", task.decision)
              \/ ~task.external /\ At(task', "fixes", "issue", task.decision) /\ task'.audit # NoAudit
              \/ task.external /\ Asked(task')
              \/ ~task.external /\ Closing(task')
              \/ Stands(task, task') /\ task.stage \in {"closing", "closed", "merged"}
           /\ history'.refused = history.refused /\ history'.repairs = history.repairs
  <1>1. CASE Failing(review.head)
    BY <1>1, FailingDoes DEF Core
  <1>2. CASE task' = task /\ history' = history
    BY <1>2, HeadTypes DEF Same
  <1>3. CASE /\ review.pc = "judged" /\ AuditIsCurrent /\ review.audit.verdict # "inconclusive"
             /\ task' = SettleReview([Rested(task) EXCEPT !.audit = review.audit])
    <2> DEFINE k == [Rested(task) EXCEPT !.audit = review.audit]
    <2>1. review.audit \in Audits /\ review.audit # NoAudit
      <3>1. review.audit \in Audits /\ review.audit.head \in Heads
        BY <1>3, HeadTypes DEF ReviewRuns, PullInv, ReviewInv
      <3>. QED  BY <3>1, PullConstants DEF NoAudit, Heads
    <2>2. Same(task, k) /\ Stands(task, k) /\ k.audit # NoAudit
      BY <2>1, HeadTypes, ConstantTypes DEF Rested, Same, Stands, At, TaskRecords
    <2> HIDE DEF k
    <2>3. LET r == SettleReview(k) IN
           /\ Same(k, r)
           /\ \/ At(r, "ready", "review", k.decision)
              \/ ~k.external /\ At(r, "fixes", "issue", k.decision) /\ r.audit # NoAudit
              \/ k.external /\ Asked(r)
              \/ ~k.external /\ Closing(r)
              \/ ~k.external /\ Stands(k, r) /\ k.stage \in {"closing", "closed", "merged"}
      BY <2>2, SettleReviewDoes DEF Same
    <2>4. task' = SettleReview(k)
      BY <1>3 DEF k
    <2>5. history'.refused = history.refused /\ history'.repairs = history.repairs
      <3>1. history \in Histories /\ history'.refused = history.refused
        BY <1>3 DEF ReviewCommits, Failing, PullInv, RestInv, Histories
      <3>. QED  BY <1>3 DEF ReviewCommits, Failing, PullInv, RestInv, Histories
    <2>. QED  BY <2>2, <2>3, <2>4, <2>5 DEF Same, Stands, At
  <1>. QED  BY <1>1, <1>2, <1>3 DEF ReviewCommits

LEMMA HeadReview ==
    ASSUME PullInv, HeadInv, ReviewStep
    PROVE  HeadInv'
  <1>1. UNCHANGED <<used, repair, pass>>
    BY DEF ReviewStep, ReviewStarts, ReviewFails, CertifyStarts, CertifyEnds, ReviewCommits,
       MergeStarts, MergeGates, MergeIsStale, MergeRechecks, MergeIntends, MergeCalls,
       MergeConfirms, MergeBlocks, reviewOnly, bounds
  <1>2. gh'.head = gh.head /\ (gh.state = "merged" => gh'.state = "merged")
    <2>1. gh' = gh \/ gh' = [gh EXCEPT !.state = "merged"]
      BY DEF ReviewStep, ReviewStarts, ReviewFails, CertifyStarts, CertifyEnds, ReviewCommits,
         MergeStarts, MergeGates, MergeIsStale, MergeRechecks, MergeIntends, MergeCalls,
         MergeConfirms, MergeBlocks, reviewOnly
    <2>. QED  BY <2>1, HeadTypes DEF Pulls
  <1>3. task'.head = task.head
    <2>1. CASE ReviewCommits
      BY <2>1, ReviewCommitsDoes DEF Same
    <2>2. CASE ~ReviewCommits
      <3>1. task' \in {task, [task EXCEPT !.audit = NoAudit, !.stage = "queued"],
                       [task EXCEPT !.blocked = TRUE]}
        BY <2>2 DEF ReviewStep, ReviewStarts, ReviewFails, CertifyStarts, CertifyEnds,
           MergeStarts, MergeGates, MergeIsStale, MergeRechecks, MergeIntends, MergeCalls,
           MergeConfirms, MergeBlocks
      <3>. QED  BY <3>1, HeadTypes DEF TaskRecords
    <2>. QED  BY <2>1, <2>2
  <1>4. Aimed(intent')
    <2>1. CASE MergeIntends
      BY <2>1 DEF MergeIntends, Aimed
    <2>2. CASE MergeConfirms
      BY <1>1, <2>2, HeadTypes DEF MergeConfirms, HeadInv, Aimed, Intents
    <2>3. CASE ~MergeIntends /\ ~MergeConfirms
      <3>1. intent' = intent
        BY <2>3 DEF ReviewStep, ReviewStarts, ReviewFails, CertifyStarts, CertifyEnds,
           ReviewCommits, MergeStarts, MergeGates, MergeIsStale, MergeRechecks, MergeCalls,
           MergeBlocks, reviewOnly
      <3>. QED  BY <3>1 DEF HeadInv, Aimed
    <2>. QED  BY <2>1, <2>2, <2>3
  <1>. QED  BY <1>1, <1>2, <1>3, <1>4, HeadFrame

\* The repair's steps up to its end, but for the push.
LEMMA HeadRepairWorks ==
    ASSUME PullInv, HeadInv,
           \/ RepairStarts \/ RepairRecovers \/ RepairReads \/ RepairVerified \/ RepairAgentFails
           \/ RepairSaves \/ RepairResumes \/ RepairProves
    PROVE  HeadInv'
  <1>1. UNCHANGED <<gh, pass>>
    BY DEF RepairStarts, RepairRecovers, RepairReads, RepairVerified, RepairAgentFails,
       RepairSaves, RepairResumes, RepairProves, repairOnly
  <1>2. CASE RepairStarts
    <2>1. task'.head = task.head
      BY <1>2, HeadTypes, MarkClosingDoes DEF RepairStarts, Core, Same
    <2>2. /\ repair' = repair \/ (repair'.intent = intent /\ repair'.pc = "started")
          /\ UNCHANGED <<used, intent>>
      BY <1>2 DEF RepairStarts
    <2>. QED  BY <1>1, <2>1, <2>2, HeadFrame DEF HeadInv, Aimed
  <1>3. CASE RepairRecovers
    <2>1. UNCHANGED <<used, intent, task>>
      BY <1>3 DEF RepairRecovers, repairOnly
    <2>2. /\ repair'.intent = repair.intent
          /\ repair'.pc = "confirming" => gh.head = repair.intent.new
          /\ repair'.pc = "superseding" => repair'.head = gh.head
      BY <1>3, HeadTypes DEF RepairRecovers, RepairTo, RepairRuns
    <2>. QED  BY <1>1, <2>1, <2>2, HeadTypes DEF HeadInv, Aimed
  <1>4. CASE RepairReads \/ RepairAgentFails
    <2>1. UNCHANGED <<used, intent, task>> /\ repair'.intent = repair.intent
          /\ repair'.pc \notin {"confirming", "superseding"}
      BY <1>4, HeadTypes DEF RepairReads, RepairAgentFails, repairOnly, RepairTo, RepairRuns
    <2>. QED  BY <1>1, <2>1, HeadFrame DEF HeadInv, Aimed
  <1>5. CASE RepairVerified
    <2>1. UNCHANGED <<intent, task>>
      BY <1>5 DEF RepairVerified
    <2>2. CASE repair' = [repair EXCEPT !.pc = "requeueing"] /\ used' = used
      <3>1. repair'.intent = repair.intent /\ repair'.pc = "requeueing"
        BY <2>2, HeadTypes DEF RepairRuns
      <3>. QED  BY <1>1, <2>1, <2>2, <3>1, HeadFrame DEF HeadInv, Aimed
    <2>3. CASE /\ gh.head = repair.head /\ used' = used + 1
               /\ repair' = [repair EXCEPT !.pc = "saving",
                             !.intent = [kind |-> "repair", head |-> repair.head,
                                         new |-> used + 1, status |-> "uncertain"]]
      <3>1. /\ repair'.pc = "saving" /\ repair'.intent.head = repair.head
            /\ repair'.intent.new = used + 1
        BY <2>3, HeadTypes DEF RepairRuns
      <3>. QED  BY <1>1, <2>1, <2>3, <3>1, HeadTypes DEF HeadInv, Aimed
    <2>. QED  BY <1>5, <2>2, <2>3 DEF RepairVerified, RepairTo
  <1>6. CASE RepairSaves \/ RepairResumes
    <2>1. UNCHANGED <<used, task>> /\ repair'.intent = repair.intent /\ repair'.pc = "pushing"
      BY <1>6, HeadTypes DEF RepairSaves, RepairResumes, repairOnly, RepairTo, RepairRuns
    <2>2. \/ intent' = repair.intent \/ intent' = [intent EXCEPT !.status = "uncertain"]
      BY <1>6 DEF RepairSaves, RepairResumes
    <2>3. Aimed(intent')
      BY <2>2, HeadTypes DEF HeadInv, Aimed, Intents
    <2>. QED  BY <1>1, <2>1, <2>3, HeadFrame DEF HeadInv, Aimed
  <1>7. CASE RepairProves
    <2>1. /\ UNCHANGED <<used, intent, task>> /\ repair'.intent = repair.intent
          /\ repair'.pc \in {"confirming", "failed"}
          /\ repair'.pc = "confirming" => gh.head = repair.intent.new \/ gh.state = "merged"
      BY <1>7, HeadTypes DEF RepairProves, repairOnly, RepairTo, RepairRuns
    <2>. QED  BY <1>1, <2>1, HeadTypes DEF HeadInv, Aimed
  <1>. QED  BY <1>2, <1>3, <1>4, <1>5, <1>6, <1>7

LEMMA HeadRepairPushes ==
    ASSUME PullInv, HeadInv, RepairPushes
    PROVE  HeadInv'
  <1>1. /\ UNCHANGED <<used, intent, task, pass>> /\ repair'.intent = repair.intent
        /\ repair'.pc \in {"pushed", "failed"} /\ repair.intent.kind = "repair"
    BY HeadTypes DEF RepairPushes, repairOnly, RepairTo, RepairRuns, PullInv, RepairInv
  <1>2. CASE gh' = gh
    BY <1>1, <1>2, HeadFrame DEF HeadInv, Aimed
  <1>3. CASE /\ gh.head = repair.intent.head
             /\ gh' = [gh EXCEPT !.head = repair.intent.new, !.log = @ \cup {repair.intent.new}]
    <2>1. gh'.head = repair.intent.new /\ gh'.state = gh.state
      BY <1>3, HeadTypes DEF Pulls
    <2>2. gh.head < gh'.head /\ gh'.head <= used /\ gh'.head \in Nat
      BY <1>1, <1>3, <2>1, HeadTypes DEF HeadInv, Aimed
    <2>. QED  BY <1>1, <2>1, <2>2, HeadTypes DEF HeadInv, Aimed
  <1>. QED  BY <1>2, <1>3 DEF RepairPushes

\* A counted repair's commit, or the head that buried it, is known to GitHub.
Counted(r, cycles, head) ==
    /\ r \in TaskRecords /\ At(r, "queued", "review", task.decision)
    /\ r.audit = NoAudit /\ r.cycles = cycles /\ r.head = head
    /\ r.declined = task.declined /\ r.external = task.external /\ r.offbranch = task.offbranch
LEMMA RepairCounts ==
    ASSUME PullInv
    PROVE  /\ RepairConfirms => /\ task' = Queued([Rested(task) EXCEPT !.cycles = RoundsOnce,
                                                         !.head = repair.intent.new])
                               /\ RoundsOnce \in Nat
           /\ RepairSupersedes =>
                 \/ intent.status \in {"none", "confirmed"} /\ task' = task /\ intent' = intent
                 \/ /\ intent.status \notin {"none", "confirmed"}
                    /\ task' = Queued([Rested(task) EXCEPT !.cycles = task.cycles + 1,
                                                           !.head = repair.head])
           /\ RepairConfirms => Counted(task', RoundsOnce, repair.intent.new)
           /\ RepairSupersedes /\ intent.status \notin {"none", "confirmed"} =>
                 Counted(task', task.cycles + 1, repair.head)
  <1>1. task.cycles \in Nat /\ task.cycles + 1 \in Nat
    <2>1. task.cycles \in Nat
      BY HeadTypes DEF TaskRecords
    <2>. QED  BY <2>1
  <1>2. [Rested(task) EXCEPT !.cycles = @ + 1, !.head = repair.head]
          = [Rested(task) EXCEPT !.cycles = task.cycles + 1, !.head = repair.head]
    BY HeadTypes DEF Rested, TaskRecords
  <1>3. repair.intent.new \in Heads \cup {0} /\ repair.head \in Heads \cup {0}
    BY HeadTypes DEF Intents, RepairRuns
  <1>4. RoundsOnce \in Nat
    BY <1>1 DEF RoundsOnce
  <1>5. ASSUME NEW cycles \in Nat, NEW head \in Heads \cup {0}
        PROVE  Counted(Queued([Rested(task) EXCEPT !.cycles = cycles, !.head = head]), cycles, head)
    BY HeadTypes, CountedDoes DEF Counted
  <1>6. Counted(Queued([Rested(task) EXCEPT !.cycles = RoundsOnce, !.head = repair.intent.new]),
                RoundsOnce, repair.intent.new)
    BY <1>3, <1>4, <1>5
  <1>7. Counted(Queued([Rested(task) EXCEPT !.cycles = task.cycles + 1, !.head = repair.head]),
                task.cycles + 1, repair.head)
    BY <1>1, <1>3, <1>5
  <1>. QED  BY <1>2, <1>4, <1>6, <1>7 DEF RepairConfirms, RepairSupersedes

LEMMA HeadRepairEnds ==
    ASSUME PullInv, HeadInv,
           RepairConfirms \/ RepairSupersedes \/ RepairRequeues \/ RepairBlocks \/ RepairFails
    PROVE  HeadInv'
  <1>1. UNCHANGED <<gh, pass, used>> /\ repair' = NoRepair
    BY DEF RepairConfirms, RepairSupersedes, RepairRequeues, RepairBlocks, RepairFails, repairOnly
  <1>2. Aimed(intent')
    <2>1. intent' = intent \/ intent' = [intent EXCEPT !.status = "confirmed"]
      BY DEF RepairConfirms, RepairSupersedes, RepairRequeues, RepairBlocks, RepairFails
    <2>. QED  BY <2>1, HeadTypes DEF HeadInv, Aimed, Intents
  <1>3. NoRepair.pc = "idle" /\ NoRepair.intent.kind = "none"
    BY DEF NoRepair, NoIntent
  <1>4. CASE RepairConfirms
    <2>1. task'.head = repair.intent.new
      BY <1>4, RepairCounts DEF Counted
    <2>2. gh.state = "merged" \/ repair.intent.new <= gh.head
      BY <1>4 DEF RepairConfirms, HeadInv
    <2>. QED  BY <1>1, <1>2, <1>3, <2>1, <2>2, HeadTypes DEF HeadInv, Aimed
  <1>5. CASE RepairSupersedes
    <2>1. task'.head \in {task.head, repair.head}
      BY <1>5, RepairCounts DEF Counted
    <2>2. repair.head <= gh.head
      BY <1>5 DEF RepairSupersedes, HeadInv
    <2>. QED  BY <1>1, <1>2, <1>3, <2>1, <2>2, HeadTypes DEF HeadInv, Aimed
  <1>6. CASE RepairRequeues \/ RepairBlocks \/ RepairFails
    <2>1. task'.head = task.head
      <3>1. CASE RepairRequeues
        BY <3>1, HeadTypes, QueuedDoes DEF RepairRequeues, Same
      <3>2. CASE RepairBlocks
        BY <3>2, HeadTypes DEF RepairBlocks, TaskRecords
      <3>3. CASE RepairFails
        BY <3>3, FailingDoes DEF RepairFails, Core, Same
      <3>. QED  BY <1>6, <3>1, <3>2, <3>3
    <2>. QED  BY <1>1, <1>2, <2>1, HeadFrame
  <1>. QED  BY <1>4, <1>5, <1>6

-----------------------------------------------------------------------------
(***************************************************************************)
(* The record and the runs that work on it.  A run of Review or Issue moves *)
(* the record without looking at the Mayor's decision, so while one is      *)
(* under way nothing may put the record before the Mayor; nor may it be     *)
(* there when the inventory sees a repair that landed.                      *)
(***************************************************************************)
Unresolved(i) == i.kind = "repair" /\ i.status # "confirmed"
Assessing ==
    /\ simplifier = "assessing" =>
         (task.house = "simplifier" /\ task.stage # "unknown") \/ task.stage = "merged"
    /\ simplifier = "assessing" \/ task.house = "simplifier" =>
         review.pc = "idle" /\ repair.pc = "idle" /\ intent.kind = "none"
Merging ==
    /\ pass.pull.state = "merged" => gh.state = "merged"
    /\ task.stage = "merged" =>
         gh.state = "merged" /\ (pass.pc = "observed" => pass.pull.state = "merged")
Reviewing == review.pc # "idle" => Reviewable(task) /\ task.stage # "fixes"
Repairing ==
    /\ repair.pc # "idle" =>
         Undecided(task) /\ ~task.external /\ (task.declined => task.stage = "fixes")
    /\ repair.pc = "started" /\ ~Unresolved(repair.intent) => ~Unresolved(intent)
    /\ repair.pc \in {"fixing", "saving", "requeueing"} => ~Unresolved(intent)
\* The saved repair is the head on GitHub, or the one an inventory has read.
Visible ==
    /\ Unresolved(intent)
    /\ intent.new = gh.head \/ (pass.pc = "observed" /\ intent.new = pass.pull.head)
Landing ==
    Visible => /\ Undecided(task) /\ ~task.external
               /\ pass.pc = "observed" /\ pass.pull.head # intent.new => Racing(task)
RecordInv == Lawful(task) /\ Assessing /\ Merging /\ Reviewing /\ Repairing /\ Landing

\* What an inventory that is not stale makes of record k.
Reconciles(p, k, r) ==
    /\ Led(r) /\ r.head = p.head /\ r.stage # "unknown"
    /\ p.state = "merged" => r.stage = "merged"
    /\ r.stage = "merged" => p.state = "merged" \/ k.stage = "merged"
    /\ k.stage = "unknown" => r.cycles = 0
    /\ k.stage # "unknown" =>
         /\ r.cycles = IF RepairSeen(p) THEN k.cycles + 1 ELSE k.cycles
         /\ Reviewable(k) \/ Racing(k) => Reviewable(r)
         /\ ~k.external => ~r.external
         /\ r.stage = "fixes" => k.stage = "fixes"
         /\ r.house = "simplifier" => k.house = "simplifier"
         /\ k.house = "simplifier" /\ p.state # "merged" => r.house = "simplifier"
         /\ r.declined => k.declined /\ k.house = "hall"

\* What an inventory's commit does to the record.
LEMMA RecordsDoes ==
    ASSUME PullInv, RecordInv, PassRecords
    PROVE  \/ ~pass.pull.here /\ task' = LeftBranch(task) /\ intent' = intent
           \/ /\ pass.pull.here /\ task.head # pass.observed /\ task.stage # "unknown"
              /\ task' = task /\ intent' = intent
           \/ /\ pass.pull.here /\ (task.stage = "unknown" \/ task.head = pass.observed)
              /\ intent' = IF RepairSeen(pass.pull)
                                \/ (pass.pull.state = "merged" /\ intent.kind = "merge")
                           THEN [intent EXCEPT !.status = "confirmed"] ELSE intent
              /\ Reconciles(pass.pull, task, task')
  <1>1. PICK mode \in Modes : task' = ReconciledTask(pass.pull, pass.observed, mode)
    BY DEF PassRecords
  <1>2. intent' = ReconciledIntent(pass.pull, pass.observed) /\ pass.pc = "observed"
    BY DEF PassRecords
  <1>3. CASE ~pass.pull.here
    BY <1>1, <1>2, <1>3 DEF ReconciledTask, ReconciledIntent
  <1>4. CASE pass.pull.here /\ ObservationStale(pass.observed)
    BY <1>1, <1>2, <1>4 DEF ReconciledTask, ReconciledIntent, ObservationStale
  <1>5. CASE pass.pull.here /\ ~ObservationStale(pass.observed)
    <2>1. RepairSeen(pass.pull) => Undecided(task) /\ task.house # "simplifier"
      BY <1>2 DEF RepairSeen, RecordInv, Landing, Visible, Unresolved, Assessing
    <2>2. pass.pull \in Pulls /\ Lawful(task)
      BY HeadTypes DEF RecordInv
    <2>3. intent' = IF RepairSeen(pass.pull) \/ (pass.pull.state = "merged" /\ intent.kind = "merge")
                    THEN [intent EXCEPT !.status = "confirmed"] ELSE intent
      BY <1>2, <1>5 DEF ReconciledIntent
    <2>4. task.stage = "unknown" \/ task.head = pass.observed
      BY <1>5 DEF ObservationStale
    <2>5. Reconciles(pass.pull, task, ReconciledTask(pass.pull, pass.observed, mode))
      BY <1>5, <2>1, <2>2, ReconciledDoes DEF Reconciles
    <2>. QED  BY <1>1, <1>5, <2>3, <2>4, <2>5
  <1>. QED  BY <1>3, <1>4, <1>5

\* The claim, the close and the release move the record between stages of the Hall.
LEMMA ClosesDoes ==
    ASSUME PullInv, PassClaims \/ PassCloses \/ PassReleases \/ PassFinishesClose
    PROVE  /\ Core(task, task')
           /\ \/ Stands(task, task')
              \/ DeclinedOwn(task) /\ At(task', "closing", "hall", task.decision)
              \/ /\ task.stage = "closing" /\ task.decision = "" /\ task.declined
                 /\ At(task', "declined", task.house, "")
              \/ /\ task.stage = "closing"
                 /\ At(task', "closed", "hall", IF task.decision = "declined" THEN "declined" ELSE "")
           /\ UNCHANGED <<intent, simplifier, repair, used, history, owned>>
           /\ gh'.head = gh.head /\ gh'.log = gh.log
           /\ gh'.state = "merged" <=> gh.state = "merged"
           /\ pass' = NoPass \/ (pass'.pull = pass.pull /\ pass'.pc \notin {"asked", "observed"})
           /\ review' = review \/ review' = NoReview
  <1>1. /\ UNCHANGED <<intent, simplifier, repair, used, history, owned>>
        /\ pass' = NoPass \/ (pass'.pull = pass.pull /\ pass'.pc \notin {"asked", "observed"})
        /\ review' = review \/ review' = NoReview
    BY HeadTypes DEF PassClaims, PassCloses, PassReleases, PassFinishesClose, passOnly, PassEnds,
       PassTo, PassRuns
  <1>2. gh'.head = gh.head /\ gh'.log = gh.log /\ (gh'.state = "merged" <=> gh.state = "merged")
    <2>1. \/ gh' = gh
          \/ gh.state # "merged" /\ gh' = [gh EXCEPT !.state = "closed"]
      BY DEF PassClaims, PassCloses, PassReleases, PassFinishesClose
    <2>. QED  BY <2>1, HeadTypes DEF Pulls
  <1>3. Core(task, task) /\ Stands(task, task)
    BY HeadTypes DEF Core, Same, Stands, At
  <1>4. CASE PassClaims
    BY <1>1, <1>2, <1>3, <1>4, HeadTypes, ClaimDeclinedDoes DEF PassClaims
  <1>5. CASE PassCloses
    BY <1>1, <1>2, <1>3, <1>5 DEF PassCloses
  <1>6. CASE PassReleases
    <2>1. LET r == [task EXCEPT !.stage = "declined"] IN
          Core(task, r) /\ At(r, "declined", task.house, task.decision)
      BY HeadTypes DEF Core, Same, At, TaskRecords, Stages
    <2>. QED  BY <1>1, <1>2, <1>3, <1>6, <2>1 DEF PassReleases
  <1>7. CASE PassFinishesClose
    <2> DEFINE b == Moved(task, "closed", "hall")
               decision == IF b.decision = "declined" THEN b.decision ELSE ""
               r == [b EXCEPT !.decision = decision]
    <2>1. Core(task, b) /\ At(b, "closed", "hall", task.decision)
      BY HeadTypes, MovedDoes DEF Stages, Houses
    <2>2. task' = task \/ (task.stage = "closing" /\ task' = r)
      BY <1>7 DEF PassFinishesClose
    <2> HIDE DEF b
    <2>3. Core(b, r) /\ At(r, b.stage, b.house, decision)
      BY <2>1 DEF Core, Same, At, TaskRecords
    <2> HIDE DEF r
    <2>4. Core(task, r) /\ At(r, "closed", "hall", IF task.decision = "declined" THEN "declined" ELSE "")
      BY <2>1, <2>3, CoreTransitive DEF At
    <2>. QED  BY <1>1, <1>2, <1>3, <2>2, <2>4
  <1>. QED  BY <1>4, <1>5, <1>6, <1>7

LEMMA HeadPass ==
    ASSUME PullInv, HeadInv, RecordInv, PassStep
    PROVE  HeadInv'
  <1>1. CASE PassStarts
    <2>1. pass'.pc = "asked" /\ pass'.observed = task.head /\ pass'.pull.head = 1
      BY <1>1 DEF PassStarts, NoPass, FirstPull
    <2>. QED  BY <1>1, <2>1, HeadTypes DEF PassStarts, passOnly, HeadInv, Aimed
  <1>2. CASE PassReads
    <2>1. UNCHANGED <<gh, task, intent, repair, used>>
      BY <1>2 DEF PassReads, passOnly
    <2>2. CASE pass' = NoPass
      BY <2>1, <2>2, HeadFrame DEF HeadInv, Aimed
    <2>3. CASE pass' = [pass EXCEPT !.pc = "observed", !.pull = gh]
      <3>1. pass'.pc = "observed" /\ pass'.pull = gh /\ pass'.observed = pass.observed
        BY <2>3, HeadTypes DEF PassRuns
      <3>2. pass.pc = "asked"
        BY <1>2 DEF PassReads
      <3>. QED  BY <2>1, <3>1, <3>2, HeadTypes DEF HeadInv, Aimed
    <2>. QED  BY <1>2, <2>2, <2>3 DEF PassReads, PassEnds
  <1>3. CASE PassRecords
    <2>1. UNCHANGED <<gh, repair, used>> /\ pass'.pull = pass.pull /\ pass'.pc = "recorded"
          /\ pass.pc = "observed"
      BY <1>3, HeadTypes DEF PassRecords, passOnly, PassRuns
    <2>2. task'.head \in {task.head, pass.pull.head}
      BY <1>3, HeadTypes, RecordsDoes, LeftBranchDoes DEF Reconciles
    <2>3. Aimed(intent')
      <3>1. intent' = intent \/ intent' = [intent EXCEPT !.status = "confirmed"]
        BY <1>3 DEF PassRecords, ReconciledIntent
      <3>. QED  BY <2>1, <3>1, HeadTypes DEF HeadInv, Aimed, Intents
    <2>. QED  BY <2>1, <2>2, <2>3, HeadTypes DEF HeadInv, Aimed
  <1>4. CASE PassClaims \/ PassCloses \/ PassReleases \/ PassFinishesClose
    BY <1>4, ClosesDoes, HeadFrame DEF Core, Same, HeadInv, Aimed
  <1>. QED  BY <1>1, <1>2, <1>3, <1>4 DEF PassStep

LEMMA HeadNext ==
    ASSUME PullInv, HeadInv, RecordInv, [Next]_vars
    PROVE  HeadInv'
  <1>1. CASE Still
    BY <1>1 DEF Still, HeadInv, Aimed
  <1>2. CASE ReviewStep
    BY <1>2, HeadReview
  <1>3. CASE RepairStep
    BY <1>3, HeadRepairWorks, HeadRepairPushes, HeadRepairEnds DEF RepairStep
  <1>4. CASE PassStep
    BY <1>4, HeadPass
  <1>. QED  BY <1>1, <1>2, <1>3, <1>4, HeadPeople, HeadQuiet, StillSteps DEF Next

LEMMA RecordInit == Init => RecordInv
  <1> SUFFICES ASSUME Init PROVE RecordInv
    OBVIOUS
  <1>1. /\ task.stage = "unknown" /\ task.house = "simplifier" /\ task.decision = ""
        /\ task.declined = FALSE /\ task.offbranch = FALSE
        /\ intent.kind = "none" /\ simplifier = "idle" /\ review.pc = "idle" /\ repair.pc = "idle"
        /\ pass.pull.state = "open"
    BY DEF Init, NoTask, NoIntent, NoReview, NoRepair, NoPass, FirstPull
  <1>. QED  BY <1>1 DEF RecordInv, Lawful, Assessing, Merging, Reviewing, Repairing, Landing,
               Visible, Unresolved

LEMMA RecordPeople ==
    ASSUME PullInv, HeadInv, RecordInv, People
    PROVE  RecordInv'
  <1>1. /\ UNCHANGED <<task, intent, simplifier, review, repair, pass>>
        /\ gh'.head = gh.head \/ gh'.head = used + 1
        /\ gh.state # "merged"
    <2>1. CASE /\ gh.state = "open" /\ used < MaxHeads
               /\ \E log \in {{}, gh.log} :
                    gh' = [gh EXCEPT !.head = used + 1, !.log = log \cup {used + 1}]
      BY <2>1, HeadTypes DEF People, townState, houses, Pulls
    <2>2. CASE gh'.head = gh.head /\ gh.state # "merged"
      BY <2>2 DEF People, townState, houses
    <2>. QED  BY <2>1, <2>2, HeadTypes DEF People, Pulls
  <1>2. Visible' => Visible
    BY <1>1, HeadTypes DEF Visible, Unresolved, HeadInv, Aimed
  <1>. QED  BY <1>1, <1>2 DEF RecordInv, Assessing, Merging, Reviewing, Repairing, Landing

\* Nothing is before the Mayor while a house works on the record, or a landed
\* repair waits to be seen.
LEMMA RecordDecide ==
    ASSUME PullInv, RecordInv, Decide
    PROVE  RecordInv'
  <1>1. /\ UNCHANGED <<gh, intent, simplifier, review, repair, pass>>
        /\ task.house = "hall" /\ task.stage \in {"awaiting_mayor", "declined"}
        /\ ~Undecided(task) \/ (task.decision = "" /\ task.declined /\ task.stage = "declined")
    BY DEF Decide, AwaitsMayor, Overrulable, houses, Undecided
  <1>2. review.pc = "idle" /\ repair.pc = "idle" /\ simplifier # "assessing"
    BY <1>1 DEF RecordInv, Assessing, Reviewing, Repairing, Reviewable
  <1>3. \/ At(task', "queued", "review", "admitted") /\ task'.external = task.external
           /\ (AwaitsMayor \/ ~task'.declined)
        \/ AwaitsMayor /\ At(task', "declined", "hall", "declined")
    <2>1. CASE /\ AwaitsMayor
               /\ task' = [Rested(task) EXCEPT !.decision = "declined", !.stage = "declined"]
      BY <2>1, HeadTypes DEF AwaitsMayor, Rested, TaskRecords, At
    <2>2. CASE /\ AwaitsMayor \/ Overrulable
               /\ task' = Moved([Rested(task) EXCEPT !.decision = "admitted",
                                     !.declined = IF AwaitsMayor THEN @ ELSE FALSE],
                                "queued", "review")
      BY <2>2, HeadTypes DEF Rested, Moved, TaskRecords, At
    <2>. QED  BY <2>1, <2>2 DEF Decide
  <1>4. Visible => ~AwaitsMayor
    BY DEF RecordInv, Landing, AwaitsMayor, Undecided
  <1>. QED  BY <1>1, <1>2, <1>3, <1>4 DEF RecordInv, Lawful, Assessing, Merging, Reviewing, Repairing,
               Landing, Visible, Unresolved, Undecided, Racing, At

LEMMA RecordAssess ==
    ASSUME PullInv, RecordInv, AssessEnds
    PROVE  RecordInv'
  <1>1. /\ simplifier = "assessing" /\ simplifier' = "idle"
        /\ UNCHANGED <<gh, intent, review, repair, pass>>
    BY DEF AssessEnds
  <1>2. review.pc = "idle" /\ repair.pc = "idle" /\ intent.kind = "none"
    BY <1>1 DEF RecordInv, Assessing
  <1>3. Lawful(task') /\ (task'.stage = "merged" => task.stage = "merged")
    <2>1. CASE task' = task
      BY <2>1 DEF RecordInv
    <2>2. CASE task' = FailAttempt(task)
      BY <2>2, HeadTypes, FailAttemptDoes DEF RecordInv, Lawful, Core, Same, Stands, At, Asked, Closing
    <2>3. CASE InIntake /\ task' # task
      <3> DEFINE k == [Rested(task) EXCEPT !.blocked = FALSE]
                 asked == [k EXCEPT !.declined = FALSE]
                 admitted == [k EXCEPT !.decision = "", !.declined = FALSE]
                 declined == [k EXCEPT !.decision = "", !.declined = TRUE]
      <3>1. k \in TaskRecords
        BY HeadTypes, RestedDoes, ConstantTypes DEF Core, Same
      <3> HIDE DEF k
      <3>2. /\ asked \in TaskRecords /\ admitted \in TaskRecords /\ declined \in TaskRecords
            /\ admitted.decision = "" /\ declined.decision = ""
        BY <3>1 DEF TaskRecords
      <3>3. task' \in {AskMayor(asked), Moved(admitted, "queued", "review"),
                       Moved(declined, "declined", "hall"), FailAttempt(task)}
        BY <2>3 DEF AssessEnds, k
      <3> HIDE DEF asked, admitted, declined
      <3>4. /\ Asked(AskMayor(asked))
            /\ At(Moved(admitted, "queued", "review"), "queued", "review", "")
            /\ At(Moved(declined, "declined", "hall"), "declined", "hall", "")
        BY <3>2, AskMayorDoes, MovedDoes DEF Stages, Houses
      <3>. QED  BY <2>2, <3>3, <3>4 DEF Lawful, Asked, At
    <2>. QED  BY <2>1, <2>2, <2>3 DEF AssessEnds
  <1>. QED  BY <1>1, <1>2, <1>3 DEF RecordInv, Assessing, Merging, Reviewing, Repairing, Landing,
               Visible, Unresolved

\* A step that leaves the record where it is and keeps what it says.
LEMMA StandsLawful ==
    ASSUME NEW k, NEW r, Stands(k, r), r.declined = k.declined, r.external = k.external,
           r.audit = k.audit, r.offbranch = k.offbranch
    PROVE  /\ Lawful(k) => Lawful(r)
           /\ Reviewable(k) <=> Reviewable(r)
           /\ Undecided(k) <=> Undecided(r)
           /\ Racing(k) <=> Racing(r)
  BY DEF Stands, At, Lawful, Reviewable, Undecided, Racing

LEMMA RecordQuiet ==
    ASSUME PullInv, RecordInv,
           OwnershipRecorded \/ Retry \/ Crash \/ AssessStarts \/ AssessCanceled
    PROVE  RecordInv'
  <1>1. /\ gh' = gh
        /\ Stands(task, task') /\ task'.declined = task.declined
        /\ task'.external = task.external /\ task'.audit = task.audit
        /\ task'.offbranch = task.offbranch
        /\ intent'.kind = intent.kind /\ intent'.new = intent.new
        /\ intent'.status = "confirmed" <=> intent.status = "confirmed"
    <2>1. CASE Retry
      BY <2>1, HeadTypes DEF Retry, Rested, TaskRecords, Intents, Stands, At
    <2>2. CASE AssessCanceled
      BY <2>2, HeadTypes DEF AssessCanceled, TaskRecords, Stands, At
    <2>. QED  BY <2>1, <2>2 DEF OwnershipRecorded, Crash, AssessStarts, Stands, At
  <1> DEFINE alike == /\ task'.stage = task.stage /\ task'.house = task.house
                      /\ task'.declined = task.declined /\ task'.external = task.external
                      /\ (Lawful(task) => Lawful(task'))
                      /\ (Reviewable(task) <=> Reviewable(task'))
                      /\ (Undecided(task) <=> Undecided(task'))
                      /\ (Racing(task) <=> Racing(task'))
  <1>7. alike
    BY <1>1, StandsLawful DEF Stands, At
  <1>8. (Unresolved(intent) <=> Unresolved(intent)') /\ (intent'.kind = intent.kind)
         /\ intent'.new = intent.new
    BY <1>1 DEF Unresolved
  <1>2. CASE OwnershipRecorded \/ Retry
    <2>1. UNCHANGED <<simplifier, review, repair, pass>>
      BY <1>2 DEF OwnershipRecorded, Retry, houses
    <2>2. Visible' <=> Visible
      BY <1>1, <1>8, <2>1 DEF Visible
    <2>. QED  BY <1>1, <1>7, <1>8, <2>1, <2>2 DEF RecordInv, Assessing, Merging, Reviewing, Repairing,
                 Landing
  <1>3. CASE AssessStarts
    BY <1>3 DEF AssessStarts, RecordInv, Assessing, Merging, Reviewing, Repairing, Landing, Visible,
       Unresolved
  <1>4. CASE simplifier' = "idle" /\ UNCHANGED <<review, repair, pass>>
    <2>1. Visible' <=> Visible
      BY <1>1, <1>4, <1>8 DEF Visible
    <2>. QED  BY <1>1, <1>4, <1>7, <1>8, <2>1 DEF RecordInv, Assessing, Merging, Reviewing, Repairing,
                 Landing
  <1>5. CASE LosesRuns
    <2>1. /\ simplifier' = "idle" /\ review'.pc = "idle" /\ repair'.pc = "idle"
          /\ pass'.pc = "idle" /\ pass'.pull.state = "open"
      BY <1>5 DEF LosesRuns, NoReview, NoRepair, NoPass, FirstPull
    <2>2. Visible' => Visible
      BY <1>1, <1>8, <2>1 DEF Visible
    <2>. QED  BY <1>1, <1>7, <1>8, <2>1, <2>2 DEF RecordInv, Assessing, Merging, Reviewing, Repairing,
                 Landing
  <1>6. CASE Crash \/ AssessCanceled
    BY <1>4, <1>5, <1>6 DEF Crash, AssessCanceled
  <1>. QED  BY <1>2, <1>3, <1>6


\* A run of Review that only reads, or works on the merge intent.
LEMMA RecordReviewReads ==
    ASSUME PullInv, RecordInv,
           \/ ReviewStarts \/ ReviewFails \/ CertifyStarts \/ CertifyEnds \/ MergeStarts
           \/ MergeGates \/ MergeRechecks \/ MergeIntends \/ MergeCalls \/ MergeConfirms
    PROVE  RecordInv'
  <1>1. /\ UNCHANGED <<task, simplifier, repair, pass>>
        /\ gh'.head = gh.head /\ (gh.state = "merged" => gh'.state = "merged")
    BY HeadTypes DEF ReviewStarts, ReviewFails, CertifyStarts, CertifyEnds, MergeStarts,
       MergeGates, MergeRechecks, MergeIntends, MergeCalls, MergeConfirms, reviewOnly, Pulls
  <1>2. intent' = intent \/ (intent'.kind = "repair" => intent'.status = "confirmed")
    <2>1. CASE MergeIntends
      BY <2>1 DEF MergeIntends
    <2>2. CASE MergeConfirms
      BY <2>2, HeadTypes DEF MergeConfirms, Intents
    <2>3. CASE \/ ReviewStarts \/ ReviewFails \/ CertifyStarts \/ CertifyEnds \/ MergeStarts
               \/ MergeGates \/ MergeRechecks \/ MergeCalls
      BY <2>3 DEF ReviewStarts, ReviewFails, CertifyStarts, CertifyEnds, MergeStarts,
         MergeGates, MergeRechecks, MergeCalls, reviewOnly
    <2>. QED  BY <2>1, <2>2, <2>3
  <1>3. \/ review.pc # "idle"
        \/ task.stage = "queued" /\ task.house = "review"
        \/ task.stage = "ready"
    BY DEF ReviewStarts, ReviewFails, CertifyStarts, CertifyEnds, MergeStarts,
       MergeGates, MergeRechecks, MergeIntends, MergeCalls, MergeConfirms
  <1>4. /\ simplifier # "assessing" /\ task.house # "simplifier"
        /\ Reviewable(task) /\ task.stage # "fixes"
    BY <1>3 DEF RecordInv, Assessing, Reviewing, Lawful, Reviewable, Undecided
  <1>5. Visible' => Visible /\ intent' = intent
    BY <1>1, <1>2 DEF Visible, Unresolved
  <1>6. Unresolved(intent)' => Unresolved(intent)
    BY <1>2 DEF Unresolved
  <1>7. Lawful(task)' /\ Assessing' /\ Reviewing'
    BY <1>1, <1>4 DEF RecordInv, Assessing, Reviewing
  <1>8. Merging' /\ Landing'
    BY <1>1, <1>5 DEF RecordInv, Merging, Landing
  <1>9. Repairing'
    BY <1>1, <1>6 DEF RecordInv, Repairing
  <1>. QED  BY <1>7, <1>8, <1>9 DEF RecordInv

\* The commits of a run of Review: what became of the record meanwhile is still
\* nothing the Mayor has to decide.
LEMMA RecordReviewWrites ==
    ASSUME PullInv, RecordInv, ReviewCommits \/ MergeIsStale \/ MergeBlocks
    PROVE  RecordInv'
  <1>1. /\ UNCHANGED <<gh, intent, simplifier, repair, pass>> /\ review'.pc = "idle"
        /\ review.pc # "idle"
    BY DEF ReviewCommits, MergeIsStale, MergeBlocks, reviewOnly, NoReview
  <1>2. /\ simplifier # "assessing" /\ task.house # "simplifier"
        /\ Reviewable(task) /\ task.stage # "fixes"
    BY <1>1 DEF RecordInv, Assessing, Reviewing
  <1>3. /\ task'.declined = task.declined /\ task'.external = task.external
        /\ task'.offbranch = task.offbranch
        /\ \/ Stands(task, task') /\ task'.audit = task.audit
           \/ At(task', "ready", "review", task.decision)
           \/ ~task.external /\ At(task', "fixes", "issue", task.decision) /\ task'.audit # NoAudit
           \/ task.external /\ Asked(task')
           \/ ~task.external /\ Closing(task')
           \/ Stands(task, task') /\ task.stage \in {"closing", "closed", "merged"}
           \/ At(task', "queued", task.house, task.decision)
    <2>1. CASE ReviewCommits
      <3>1. task' = task => Stands(task, task')
        BY DEF Stands, At
      <3>. QED  BY <2>1, <3>1, ReviewCommitsDoes DEF Same, Core
    <2>2. CASE MergeIsStale
      BY <2>2, HeadTypes, ConstantTypes DEF MergeIsStale, At, TaskRecords
    <2>3. CASE MergeBlocks
      BY <2>3, HeadTypes DEF MergeBlocks, Stands, At, TaskRecords
    <2>. QED  BY <2>1, <2>2, <2>3
  <1>4. Lawful(task)
    BY DEF RecordInv
  <1>5. Lawful(task') /\ (task'.stage = "merged" => task.stage = "merged")
         /\ task'.house # "simplifier"
    <2>1. CASE Stands(task, task') /\ task'.audit = task.audit
      BY <1>2, <1>3, <1>4, <2>1, StandsLawful DEF Stands, At
    <2>. QED  BY <1>2, <1>3, <1>4, <2>1 DEF Lawful, Reviewable, Undecided, Stands, At, Asked, Closing
  <1>6. Undecided(task') \/ task.external
    BY <1>2, <1>3 DEF Reviewable, Undecided, Stands, At, Asked, Closing
  <1>7. ~task.declined \/ task.house # "hall"
    BY <1>2 DEF Reviewable
  <1>8. repair.pc # "idle" => ~task.declined
    BY <1>2 DEF RecordInv, Repairing
  <1>9. pass.pc = "observed" /\ pass.pull.head # intent.new /\ Visible => ~task.declined
    BY <1>2 DEF RecordInv, Landing, Racing, Reviewable
  <1>10. Visible' <=> Visible
    BY <1>1 DEF Visible
  <1>11. Assessing' /\ Merging'
    BY <1>1, <1>2, <1>5 DEF RecordInv, Assessing, Merging
  <1>12. Reviewing' /\ Repairing'
    BY <1>1, <1>3, <1>6, <1>8 DEF RecordInv, Reviewing, Repairing
  <1>13. Landing'
    BY <1>1, <1>3, <1>6, <1>9, <1>10 DEF RecordInv, Landing, Racing
  <1>. QED  BY <1>5, <1>11, <1>12, <1>13 DEF RecordInv

\* The fix round's steps before its commit.
LEMMA RecordRepairWorks ==
    ASSUME PullInv, RecordInv,
           \/ RepairRecovers \/ RepairReads \/ RepairVerified \/ RepairAgentFails \/ RepairSaves
           \/ RepairResumes \/ RepairPushes \/ RepairProves
    PROVE  RecordInv'
  <1>1. UNCHANGED <<task, simplifier, review, pass>> /\ gh'.state = gh.state /\ repair.pc # "idle"
    BY HeadTypes DEF RepairRecovers, RepairReads, RepairVerified, RepairAgentFails, RepairSaves,
       RepairResumes, RepairPushes, RepairProves, repairOnly, Pulls
  <1>2. /\ simplifier # "assessing" /\ task.house # "simplifier"
        /\ Undecided(task) /\ ~task.external /\ (task.declined => task.stage = "fixes")
    BY <1>1 DEF RecordInv, Assessing, Repairing
  <1>3. Racing(task)
    BY <1>2 DEF Racing
  <1>4. repair'.pc \in {"fixing", "saving", "requeueing"} => ~Unresolved(intent')
    <2>1. CASE RepairReads
      BY <2>1, HeadTypes DEF RepairReads, RepairTo, RecordInv, Repairing, UnresolvedRepair, Unresolved
    <2>2. CASE RepairVerified
      BY <2>2, HeadTypes DEF RepairVerified, RepairTo, RecordInv, Repairing, RepairRuns
    <2>3. CASE \/ RepairRecovers \/ RepairAgentFails \/ RepairSaves \/ RepairResumes
               \/ RepairPushes \/ RepairProves
      BY <2>3, HeadTypes DEF RepairRecovers, RepairAgentFails, RepairSaves, RepairResumes,
         RepairPushes, RepairProves, RepairTo, RepairRuns
    <2>. QED  BY <2>1, <2>2, <2>3
  <1>5. repair'.pc # "started"
    BY HeadTypes DEF RepairRecovers, RepairReads, RepairVerified, RepairAgentFails, RepairSaves,
       RepairResumes, RepairPushes, RepairProves, RepairTo, RepairRuns
  <1>. QED  BY <1>1, <1>2, <1>3, <1>4, <1>5 DEF RecordInv, Assessing, Merging, Reviewing, Repairing,
               Landing


\* The fix round's commits.
LEMMA RecordRepairEnds ==
    ASSUME PullInv, RecordInv,
           \/ RepairStarts \/ RepairConfirms \/ RepairSupersedes \/ RepairRequeues \/ RepairBlocks
           \/ RepairFails
    PROVE  RecordInv'
  <1>1. UNCHANGED <<gh, simplifier, review, pass>>
    BY DEF RepairStarts, RepairConfirms, RepairSupersedes, RepairRequeues, RepairBlocks, RepairFails,
       repairOnly
  <1>2. Lawful(task) /\ task \in TaskRecords
    BY HeadTypes DEF RecordInv
  <1>3. CASE RepairStarts
    <2>1. /\ task.stage = "fixes" /\ task.house = "issue" /\ ~task.external /\ Undecided(task)
          /\ task.audit # NoAudit \/ task.offbranch
          /\ intent' = intent /\ repair.pc = "idle"
      BY <1>2, <1>3 DEF RepairStarts, Lawful, Undecided
    <2>2. simplifier # "assessing" /\ review.pc = "idle"
      BY <2>1 DEF RecordInv, Assessing, Reviewing
    <2>3. CASE task.cycles >= 1
      <3>1. Core(task, task') /\ Closing(task') /\ repair' = repair
        BY <1>2, <1>3, <2>1, <2>3, MarkClosingDoes DEF RepairStarts
      <3>2. Lawful(task') /\ Racing(task')
        BY <2>1, <3>1 DEF Closing, At, Core, Same, Lawful, Racing, Undecided
      <3>. QED  BY <1>1, <2>1, <2>2, <3>1, <3>2 DEF RecordInv, Assessing, Merging, Reviewing,
                   Repairing, Landing, Visible, Closing, At, Core, Same, Racing
    <2>4. CASE ~(task.cycles >= 1)
      <3>1. repair'.intent = intent /\ repair'.pc = "started" /\ task' = task
        BY <1>3, <2>4 DEF RepairStarts
      <3>. QED  BY <1>1, <2>1, <2>2, <3>1 DEF RecordInv, Assessing, Merging, Reviewing,
                   Repairing, Landing, Visible
    <2>. QED  BY <2>3, <2>4
  <1>4. CASE \/ RepairConfirms \/ RepairSupersedes \/ RepairRequeues \/ RepairBlocks \/ RepairFails
    <2>1. repair.pc # "idle" /\ repair'.pc = "idle"
      BY <1>4 DEF RepairConfirms, RepairSupersedes, RepairRequeues, RepairBlocks, RepairFails, NoRepair
    <2>2. /\ simplifier # "assessing" /\ task.house # "simplifier"
          /\ Undecided(task) /\ ~task.external /\ (task.declined => task.stage = "fixes")
      BY <2>1 DEF RecordInv, Assessing, Repairing
    <2>3. /\ task'.declined = task.declined /\ task'.external = task.external
          /\ task'.offbranch = task.offbranch
          /\ \/ Stands(task, task') /\ task'.audit = task.audit /\ intent' = intent
             \/ Closing(task') /\ task'.audit = task.audit /\ intent' = intent
             \/ At(task', "queued", "review", task.decision) /\ ~Unresolved(intent)'
      <3>1. CASE RepairConfirms
        <4>1. intent'.status = "confirmed"
          BY <3>1, HeadTypes DEF RepairConfirms, Intents
        <4>. QED  BY <3>1, <4>1, RepairCounts DEF Counted, Unresolved
      <3>2. CASE RepairSupersedes /\ intent.status \notin {"none", "confirmed"}
        <4>1. intent'.status = "confirmed"
          BY <3>2, HeadTypes DEF RepairSupersedes, Intents
        <4>. QED  BY <3>2, <4>1, RepairCounts DEF Counted, Unresolved
      <3>3. CASE RepairSupersedes /\ intent.status \in {"none", "confirmed"}
        BY <3>3 DEF RepairSupersedes, Stands, At
      <3>4. CASE RepairRequeues
        <4>1. ~Unresolved(intent) /\ intent' = intent
          BY <3>4 DEF RepairRequeues, RecordInv, Repairing
        <4>2. task' = Queued(task)
          BY <3>4 DEF RepairRequeues
        <4>. QED  BY <1>2, <4>1, <4>2, QueuedDoes DEF Same, Unresolved
      <3>5. CASE RepairBlocks
        BY <1>2, <3>5 DEF RepairBlocks, Stands, At, TaskRecords
      <3>6. CASE RepairFails
        BY <2>2, <3>6, FailingDoes DEF RepairFails, Core, Same
      <3>. QED  BY <1>4, <3>1, <3>2, <3>3, <3>4, <3>5, <3>6
    <2>4. /\ Lawful(task') /\ Undecided(task') /\ task'.house # "simplifier"
          /\ task'.stage = "merged" => task.stage = "merged"
      <3>1. CASE Stands(task, task') /\ task'.audit = task.audit
        BY <1>2, <2>2, <2>3, <3>1, StandsLawful DEF Stands, At
      <3>. QED  BY <1>2, <2>2, <2>3, <3>1 DEF Lawful, Undecided, At, Closing
    <2>5. review.pc # "idle" => Reviewable(task') /\ task'.stage # "fixes"
      BY <2>2, <2>3, <2>4 DEF RecordInv, Reviewing, Reviewable, Stands, At, Closing
    <2>6. Unresolved(intent)' => Racing(task')
      <3>1. task.stage = "fixes" => task.audit # NoAudit \/ task.offbranch
        BY <1>2 DEF Lawful
      <3>. QED  BY <2>2, <2>3, <2>4, <3>1 DEF Racing, Stands, At, Closing
    <2>7. Lawful(task)' /\ Assessing' /\ Merging'
      BY <1>1, <2>2, <2>4 DEF RecordInv, Assessing, Merging
    <2>8. Reviewing' /\ Repairing' /\ Landing'
      BY <1>1, <2>1, <2>2, <2>3, <2>4, <2>5, <2>6 DEF RecordInv, Reviewing, Repairing, Landing, Visible
    <2>. QED  BY <2>7, <2>8 DEF RecordInv
  <1>. QED  BY <1>3, <1>4

\* What the inventory records: a house at work stays out of the Mayor's way.
LEMMA RecordPassRecords ==
    ASSUME PullInv, RecordInv, PassRecords
    PROVE  RecordInv'
  <1>1. /\ UNCHANGED <<gh, simplifier, review, repair>> /\ pass'.pull = pass.pull
        /\ pass'.pc = "recorded" /\ pass.pc = "observed"
    BY HeadTypes DEF PassRecords, passOnly, PassRuns
  <1>2. Lawful(task) /\ task \in TaskRecords
    BY HeadTypes DEF RecordInv
  <1>3. CASE task' = task /\ intent' = intent
    BY <1>1, <1>3 DEF RecordInv, Assessing, Merging, Reviewing, Repairing, Landing, Visible
  <1>4. CASE task' = LeftBranch(task) /\ intent' = intent
    <2>1. /\ Stands(task, task') /\ task'.declined = task.declined
          /\ task'.external = task.external
          /\ \/ task'.offbranch = task.offbranch /\ task'.audit = task.audit
             \/ task'.offbranch /\ task.stage \notin {"unknown", "merged", "closed"}
      BY <1>2, <1>4, LeftBranchDoes
    <2>2. Lawful(task')
      BY <1>2, <2>1, StandsLawful DEF Stands, At, Lawful
    <2>. QED  BY <1>1, <1>4, <2>1, <2>2 DEF RecordInv, Assessing, Merging, Reviewing, Repairing, Landing,
                 Visible, Stands, At, Undecided, Reviewable
  <1>5. CASE /\ intent' = IF RepairSeen(pass.pull)
                               \/ (pass.pull.state = "merged" /\ intent.kind = "merge")
                          THEN [intent EXCEPT !.status = "confirmed"] ELSE intent
             /\ Reconciles(pass.pull, task, task')
    <2>1. Lawful(task') /\ task'.stage # "unknown"
      BY <1>5 DEF Reconciles, Led
    <2>2. \/ intent' = intent /\ ~RepairSeen(pass.pull)
          \/ intent'.kind = intent.kind /\ intent'.new = intent.new /\ intent'.status = "confirmed"
      BY <1>5, HeadTypes DEF Intents
    <2>3. Unresolved(intent)' => intent' = intent /\ ~RepairSeen(pass.pull)
      BY <2>2 DEF Unresolved
    <2>4. intent'.kind = intent.kind
      BY <2>2
    <2>5. task.stage = "unknown" => /\ task.house = "simplifier" /\ review.pc = "idle"
                                    /\ repair.pc = "idle" /\ intent.kind = "none"
      BY <1>2 DEF Lawful, RecordInv, Assessing
    <2>6. Assessing'
      <3>1. simplifier = "assessing" =>
              (task'.house = "simplifier" /\ task'.stage # "unknown") \/ task'.stage = "merged"
        BY <1>1, <1>5, <2>1 DEF Reconciles, RecordInv, Assessing, Merging
      <3>2. task'.house = "simplifier" => task.house = "simplifier"
        BY <1>5, <2>5 DEF Reconciles
      <3>. QED  BY <1>1, <2>4, <3>1, <3>2 DEF RecordInv, Assessing
    <2>7. Merging'
      BY <1>1, <1>5 DEF Reconciles, RecordInv, Merging
    <2>8. Reviewing'
      BY <1>1, <1>5, <2>5 DEF Reconciles, RecordInv, Reviewing
    <2>9. Repairing'
      <3>1. CASE repair.pc = "idle"
        BY <1>1, <3>1 DEF Repairing
      <3>2. CASE repair.pc # "idle"
        <4>1. /\ Undecided(task) /\ ~task.external /\ (task.declined => task.stage = "fixes")
              /\ task.stage # "unknown"
          BY <2>5, <3>2 DEF RecordInv, Repairing
        <4>2. Racing(task)
          BY <4>1 DEF Racing
        <4>3. Reviewable(task') /\ ~task'.external
          BY <1>5, <4>1, <4>2 DEF Reconciles
        <4>4. task'.declined => task'.stage = "fixes"
          BY <1>2, <1>5, <4>1 DEF Reconciles, Lawful
        <4>5. Unresolved(intent)' => Unresolved(intent)
          BY <2>3
        <4>. QED  BY <1>1, <4>3, <4>4, <4>5 DEF RecordInv, Repairing, Reviewable
      <3>. QED  BY <3>1, <3>2
    <2>10. Landing'
      <3>1. Visible' => Visible /\ intent' = intent /\ pass.pull.head # intent.new
        BY <1>1, <2>3 DEF Visible, Unresolved, RepairSeen
      <3>2. Visible => /\ ~task.external /\ task.stage # "unknown"
                       /\ (pass.pull.head # intent.new => Racing(task))
        BY <1>1, <2>5 DEF RecordInv, Landing, Visible, Unresolved
      <3>3. Visible' => Reviewable(task') /\ ~task'.external
        BY <1>5, <3>1, <3>2 DEF Reconciles
      <3>. QED  BY <1>1, <3>3 DEF Landing, Reviewable
    <2>. QED  BY <2>1, <2>6, <2>7, <2>8, <2>9, <2>10 DEF RecordInv
  <1>. QED  BY <1>3, <1>4, <1>5, RecordsDoes

\* The rest of a pass: the read, and the close of a pull request of Town's own.
LEMMA RecordPass ==
    ASSUME PullInv, RecordInv, PassStep
    PROVE  RecordInv'
  <1>1. CASE PassStarts
    <2>1. /\ UNCHANGED <<gh, task, intent, review, simplifier, repair>>
          /\ pass'.pc = "asked" /\ pass'.pull.state = "open"
      BY <1>1 DEF PassStarts, passOnly, NoPass, FirstPull
    <2>. QED  BY <2>1 DEF RecordInv, Assessing, Merging, Reviewing, Repairing, Landing, Visible
  <1>2. CASE PassReads
    <2>1. UNCHANGED <<gh, task, intent, simplifier, repair>>
      BY <1>2 DEF PassReads, passOnly
    <2>2. CASE /\ pass'.pc = "idle" /\ pass'.pull.state = "open"
               /\ (review' = review \/ review'.pc = "idle")
      BY <2>1, <2>2 DEF RecordInv, Assessing, Merging, Reviewing, Repairing, Landing, Visible
    <2>3. CASE pass'.pull = gh /\ review' = review
      <3>1. Visible' => Visible /\ intent.new = gh.head
        BY <2>1, <2>3 DEF Visible
      <3>. QED  BY <2>1, <2>3, <3>1 DEF RecordInv, Assessing, Merging, Reviewing, Repairing, Landing
    <2>4. NoPass.pc = "idle" /\ NoPass.pull.state = "open" /\ NoReview.pc = "idle"
      BY DEF NoPass, FirstPull, NoReview
    <2>5. [pass EXCEPT !.pc = "observed", !.pull = gh].pull = gh
      BY HeadTypes DEF PassRuns
    <2>. QED  BY <1>2, <2>2, <2>3, <2>4, <2>5 DEF PassReads, PassEnds
  <1>3. CASE PassRecords
    BY <1>3, RecordPassRecords
  <1>4. CASE PassClaims \/ PassCloses \/ PassReleases \/ PassFinishesClose
    <2>1. /\ Core(task, task')
          /\ \/ Stands(task, task')
             \/ DeclinedOwn(task) /\ At(task', "closing", "hall", task.decision)
             \/ /\ task.stage = "closing" /\ task.decision = "" /\ task.declined
                /\ At(task', "declined", task.house, "")
             \/ /\ task.stage = "closing"
                /\ At(task', "closed", "hall", IF task.decision = "declined" THEN "declined" ELSE "")
      BY <1>4, ClosesDoes
    <2>2. /\ UNCHANGED <<intent, simplifier, repair>>
          /\ gh'.head = gh.head /\ (gh'.state = "merged" <=> gh.state = "merged")
          /\ pass'.pc \notin {"asked", "observed"}
          /\ pass'.pull.state = "open" \/ pass'.pull = pass.pull
          /\ review' = review \/ review'.pc = "idle"
      <3>1. NoPass.pc = "idle" /\ NoPass.pull.state = "open" /\ NoReview.pc = "idle"
        BY DEF NoPass, FirstPull, NoReview
      <3>. QED  BY <1>4, <3>1, ClosesDoes
    <2>3. Lawful(task)
      BY DEF RecordInv
    <2>4. Lawful(task')
      <3>1. CASE Stands(task, task')
        BY <2>1, <2>3, <3>1, StandsLawful DEF Core, Same
      <3>. QED  BY <2>1, <2>3, <3>1 DEF Core, Same, Lawful, At, DeclinedOwn
    <2>5. Reviewable(task) => Reviewable(task') /\ (task.stage # "fixes" => task'.stage # "fixes")
      BY <2>1, <2>3 DEF Core, Same, Reviewable, Undecided, Stands, At, DeclinedOwn, Lawful
    <2>6. Undecided(task) => Undecided(task') /\ task'.external = task.external
                             /\ task'.declined = task.declined
      BY <2>1 DEF Core, Same, Undecided, Stands, At, DeclinedOwn
    <2>7. /\ task'.house = "simplifier" => task.house = "simplifier"
          /\ task.house = "simplifier" => Stands(task, task')
          /\ task'.stage = "merged" => task.stage = "merged"
          /\ task.stage = "merged" => task'.stage = "merged"
      BY <2>1, <2>3 DEF Stands, At, DeclinedOwn, Lawful
    <2>8. task.declined /\ task.stage = "fixes" => task'.stage = "fixes"
      BY <2>1 DEF Stands, At, DeclinedOwn
    <2>9. Assessing' /\ Merging'
      BY <2>2, <2>7 DEF RecordInv, Assessing, Merging, Stands, At
    <2>10. Reviewing' /\ Repairing'
      BY <2>2, <2>5, <2>6, <2>8 DEF RecordInv, Reviewing, Repairing
    <2>11. Landing'
      BY <2>2, <2>6 DEF RecordInv, Landing, Visible
    <2>. QED  BY <2>4, <2>9, <2>10, <2>11 DEF RecordInv
  <1>. QED  BY <1>1, <1>2, <1>3, <1>4 DEF PassStep

LEMMA RecordNext ==
    ASSUME PullInv, HeadInv, RecordInv, [Next]_vars
    PROVE  RecordInv'
  <1>1. CASE Still
    BY <1>1 DEF Still, RecordInv, Assessing, Merging, Reviewing, Repairing, Landing, Visible
  <1>2. CASE ReviewStep
    BY <1>2, RecordReviewReads, RecordReviewWrites DEF ReviewStep
  <1>3. CASE RepairStep
    BY <1>3, RecordRepairWorks, RecordRepairEnds DEF RepairStep
  <1>4. CASE PassStep
    BY <1>4, RecordPass
  <1>. QED  BY <1>1, <1>2, <1>3, <1>4, RecordPeople, RecordDecide, RecordAssess, RecordQuiet, StillSteps DEF Next


-----------------------------------------------------------------------------
(***************************************************************************)
(* The fix rounds, for a town that leaves merging to people: no merge        *)
(* intent takes the place of a repair whose push may have landed.            *)
(***************************************************************************)
LeavesMerging == MergePolicy = "manual" /\ MaxCycles > 1

\* The revisions GitHub, or the inventory under way, has seen on the branch.
Known == gh.log \cup {gh.head, pass.pull.head}
SameRepair(i) == i.kind = intent.kind /\ i.new = intent.new /\ i.head = intent.head

Saved ==
    /\ intent.kind # "merge" /\ (intent.status = "none" <=> intent.kind = "none")
    /\ intent.kind = "repair" => intent.new > 1
    /\ history.repairs # {} =>
         /\ intent.kind = "repair" /\ history.repairs = {intent.new}
         /\ gh.state = "merged" \/ gh.head >= intent.new
    /\ intent.kind = "repair" /\ intent.new \in Known => history.repairs # {}
    /\ \A h \in gh.log : h <= used
CountedOnce ==
    /\ task.cycles = IF intent.status = "confirmed" THEN 1 ELSE 0
    /\ intent.status = "confirmed" => history.repairs # {}
\* What a run carries agrees with the intent it saved or found.
Carried ==
    /\ repair.pc \notin {"idle", "saving"} => SameRepair(repair.intent)
    /\ repair.pc \in {"saving", "resuming", "pushing", "pushed", "confirming", "superseding"} =>
         repair.intent.kind = "repair"
    /\ repair.pc = "started" /\ ~UnresolvedRepair => intent.kind = "none"
    /\ repair.pc \in {"fixing", "saving"} => intent.kind = "none"
    /\ repair.pc = "saving" =>
         repair.intent.status = "uncertain" /\ repair.intent.new > 1 /\ repair.intent.new \notin Known
    /\ repair.pc = "resuming" => history.repairs = {}
    /\ repair.pc \in {"pushed", "confirming", "superseding"} => history.repairs # {}
NeverMerging == review.pc \in {"idle", "reviewing", "certifying", "judged", "failed"}
RoundsInv == Saved /\ CountedOnce /\ Carried /\ NeverMerging

LEMMA RoundsInit == Init => RoundsInv
  <1> SUFFICES ASSUME Init PROVE RoundsInv
    OBVIOUS
  <1>1. /\ task.cycles = 0 /\ intent.kind = "none" /\ intent.status = "none"
        /\ review.pc = "idle" /\ repair.pc = "idle" /\ history.repairs = {}
        /\ gh.log = {1} /\ used = 1
    BY DEF Init, NoTask, NoIntent, NoReview, NoRepair, FirstPull
  <1>. QED  BY <1>1 DEF RoundsInv, Saved, CountedOnce, Carried, NeverMerging

\* A step that pushes nothing, saves nothing and counts nothing.
LEMMA RoundsFrame ==
    ASSUME RoundsInv,
           task'.cycles = task.cycles, used' = used, history'.repairs = history.repairs,
           gh'.log = gh.log, gh'.head = gh.head, gh.state = "merged" => gh'.state = "merged",
           pass'.pull = pass.pull \/ pass'.pull.head = 1 \/ pass'.pull = gh,
           intent'.kind = intent.kind, intent'.new = intent.new, intent'.head = intent.head,
           intent'.status = intent.status \/ {intent.status, intent'.status} \subseteq {"uncertain", "retry"},
           repair' = repair \/ repair'.pc = "idle",
           NeverMerging'
    PROVE  RoundsInv'
  <1>1. Known' \subseteq Known \cup {1}
    BY DEF Known
  <1>2. Saved'
    BY <1>1 DEF RoundsInv, Saved
  <1>3. CountedOnce'
    BY DEF RoundsInv, CountedOnce
  <1>4. Carried'
    <2>1. CASE repair'.pc = "idle"
      BY <2>1 DEF Carried
    <2>2. CASE repair' = repair
      BY <1>1, <2>2 DEF RoundsInv, Carried, SameRepair, UnresolvedRepair
    <2>. QED  BY <2>1, <2>2
  <1>. QED  BY <1>2, <1>3, <1>4 DEF RoundsInv

LEMMA RoundsPeople ==
    ASSUME PullInv, HeadInv, RoundsInv, People
    PROVE  RoundsInv'
  <1>1. UNCHANGED <<task, intent, review, repair, pass, history>>
    BY DEF People, townState, houses
  <1>2. CASE /\ gh.state = "open" /\ used < MaxHeads /\ used' = used + 1
             /\ \E log \in {{}, gh.log} :
                  gh' = [gh EXCEPT !.head = used + 1, !.log = log \cup {used + 1}]
    <2>1. gh'.head = used + 1 /\ gh'.log \subseteq gh.log \cup {used + 1} /\ gh.state # "merged"
      BY <1>2, HeadTypes DEF Pulls
    <2>2. Known' \subseteq Known \cup {used + 1}
      BY <1>1, <2>1 DEF Known
    <2>3. /\ intent.kind = "repair" => intent.new <= used
          /\ repair.intent.kind = "repair" => repair.intent.new <= used
      BY DEF HeadInv, Aimed
    <2>4. Saved'
      <3>1. \A h \in gh'.log : h <= used'
        <4>1. \A h \in gh.log : h \in Nat /\ h <= used
          BY HeadTypes DEF Pulls, Heads, RoundsInv, Saved
        <4>. QED  BY <1>2, <2>1, <4>1, HeadTypes
      <3>2. history.repairs # {} => intent.kind = "repair" /\ gh'.head >= intent.new
        BY <2>1, <2>3, HeadTypes DEF RoundsInv, Saved
      <3>3. intent.kind = "repair" /\ intent.new \in Known' => history.repairs # {}
        BY <2>2, <2>3, HeadTypes DEF RoundsInv, Saved
      <3>. QED  BY <1>1, <3>1, <3>2, <3>3 DEF RoundsInv, Saved
    <2>5. Carried'
      BY <1>1, <1>2, <2>2, <2>3, HeadTypes DEF RoundsInv, Carried, SameRepair, UnresolvedRepair
    <2>. QED  BY <1>1, <2>4, <2>5 DEF RoundsInv, CountedOnce, NeverMerging
  <1>3. CASE gh'.head = gh.head /\ gh'.log = gh.log /\ gh.state # "merged" /\ used' = used
    BY <1>1, <1>3, RoundsFrame DEF RoundsInv, NeverMerging
  <1>. QED  BY <1>2, <1>3, HeadTypes DEF People, Pulls

LEMMA RoundsQuiet ==
    ASSUME PullInv, RoundsInv, LeavesMerging,
           \/ OwnershipRecorded \/ Decide \/ Retry \/ Crash \/ AssessStarts \/ AssessEnds
           \/ AssessCanceled
    PROVE  RoundsInv'
  <1>1. gh' = gh /\ used' = used /\ history'.repairs = history.repairs
    BY HeadTypes DEF OwnershipRecorded, Decide, Retry, Crash, AssessStarts, AssessEnds, AssessCanceled,
       houses, bounds, PullInv, RestInv, Histories
  <1>2. /\ intent'.kind = intent.kind /\ intent'.new = intent.new /\ intent'.head = intent.head
        /\ \/ intent'.status = intent.status
           \/ {intent.status, intent'.status} \subseteq {"uncertain", "retry"}
    BY HeadTypes DEF OwnershipRecorded, Decide, Retry, Crash, AssessStarts, AssessEnds, AssessCanceled,
       Intents
  <1>3. /\ pass' = pass \/ pass' = NoPass
        /\ repair' = repair \/ repair' = NoRepair
        /\ review' = review \/ review' = NoReview
    BY DEF OwnershipRecorded, Decide, Retry, Crash, AssessStarts, AssessEnds, AssessCanceled,
       houses, LosesRuns
  <1>4. NoPass.pull.head = 1 /\ NoRepair.pc = "idle" /\ NoReview.pc = "idle"
    BY DEF NoPass, FirstPull, NoRepair, NoReview
  <1>5. task'.cycles = task.cycles
    <2>1. CASE OwnershipRecorded \/ Crash \/ AssessStarts
      BY <2>1 DEF OwnershipRecorded, Crash, AssessStarts
    <2>2. CASE Decide \/ AssessCanceled
      BY <2>2, HeadTypes DEF Decide, AssessCanceled, Moved, Rested, TaskRecords
    <2>3. CASE Retry
      <3>1. ~(task.cycles >= MaxCycles)
        BY PullConstants DEF LeavesMerging, RoundsInv, CountedOnce
      <3>. QED  BY <2>3, <3>1, HeadTypes DEF Retry, Rested, TaskRecords
    <2>4. CASE AssessEnds
      <3>1. FailAttempt(task).cycles = task.cycles
        BY HeadTypes, FailAttemptDoes DEF Core, Same
      <3>2. task' # FailAttempt(task) /\ InIntake => task'.cycles = task.cycles
        BY <2>4, HeadTypes DEF AssessEnds, AskMayor, Moved, Rested, TaskRecords
      <3>. QED  BY <2>4, <3>1, <3>2 DEF AssessEnds
    <2>. QED  BY <2>1, <2>2, <2>3, <2>4
  <1>. QED  BY <1>1, <1>2, <1>3, <1>4, <1>5, RoundsFrame DEF RoundsInv, NeverMerging

LEMMA RoundsReview ==
    ASSUME PullInv, RoundsInv, LeavesMerging, ReviewStep
    PROVE  RoundsInv'
  <1>1. CASE ReviewStarts \/ ReviewFails \/ CertifyStarts \/ CertifyEnds
    <2>1. UNCHANGED <<gh, task, intent, repair, pass, used, history>>
      BY <1>1 DEF ReviewStarts, ReviewFails, CertifyStarts, CertifyEnds, reviewOnly, bounds
    <2>2. NeverMerging'
      BY <1>1, HeadTypes DEF ReviewStarts, ReviewFails, CertifyStarts, CertifyEnds, NoReview,
         ReviewRuns, NeverMerging
    <2>. QED  BY <2>1, <2>2, RoundsFrame
  <1>2. CASE ReviewCommits
    <2>1. UNCHANGED <<gh, intent, repair, pass, used>> /\ review'.pc = "idle"
      BY <1>2 DEF ReviewCommits, reviewOnly, bounds, NoReview
    <2>2. task'.cycles = task.cycles /\ history'.repairs = history.repairs
      BY <1>2, ReviewCommitsDoes DEF Same
    <2>. QED  BY <2>1, <2>2, RoundsFrame DEF NeverMerging
  <1>3. ~(MergeStarts \/ MergeGates \/ MergeIsStale \/ MergeRechecks \/ MergeIntends \/ MergeCalls
           \/ MergeConfirms \/ MergeBlocks)
    BY DEF LeavesMerging, MayMerge, RoundsInv, NeverMerging, MergeStarts, MergeGates, MergeIsStale,
       MergeRechecks, MergeIntends, MergeCalls, MergeConfirms, MergeBlocks
  <1>. QED  BY <1>1, <1>2, <1>3 DEF ReviewStep


LEMMA RoundsRepairReads ==
    ASSUME PullInv, HeadInv, RoundsInv, RepairStarts \/ RepairRecovers \/ RepairReads
    PROVE  RoundsInv'
  <1>1. UNCHANGED <<gh, intent, review, pass, used, history>>
    BY DEF RepairStarts, RepairRecovers, RepairReads, repairOnly
  <1>2. task'.cycles = task.cycles
    <2>1. MarkClosing(task).cycles = task.cycles
      BY HeadTypes, MarkClosingDoes DEF Core, Same
    <2>. QED  BY <2>1 DEF RepairStarts, RepairRecovers, RepairReads
  <1>3. Saved' /\ CountedOnce' /\ NeverMerging' /\ Known' = Known
    BY <1>1, <1>2 DEF RoundsInv, Saved, CountedOnce, NeverMerging, Known
  <1>4. Carried'
    <2>1. CASE RepairStarts
      <3>1. \/ repair' = repair
            \/ repair'.pc = "started" /\ repair'.intent = intent /\ task.cycles = 0
        <4>1. task.cycles \in Nat /\ (~(task.cycles >= 1) => task.cycles = 0)
          BY DEF RoundsInv, CountedOnce
        <4>. QED  BY <2>1, <4>1 DEF RepairStarts
      <3>2. task.cycles = 0 /\ ~(intent.kind = "repair" /\ intent.status # "confirmed")
              => intent.kind = "none"
        BY HeadTypes DEF RoundsInv, CountedOnce, Saved, Intents
      <3>. QED  BY <1>1, <1>3, <3>1, <3>2 DEF RoundsInv, Carried, SameRepair, UnresolvedRepair
    <2>2. CASE RepairRecovers
      <3>1. /\ repair'.intent = repair.intent /\ repair.pc = "started"
            /\ repair.intent.kind = "repair" /\ SameRepair(repair.intent)
            /\ repair'.pc \in {"confirming", "superseding", "blocking", "resuming", "failed"}
            /\ repair'.pc \in {"confirming", "superseding"} => repair.intent.new \in Known
            /\ repair'.pc = "resuming" => gh.head = repair.intent.head /\ gh.state = "open"
        BY <2>2, HeadTypes DEF RepairRecovers, RepairTo, UnresolvedRepair, RepairRuns, RoundsInv,
           Carried, Known
      <3>2. intent.head < intent.new
        BY <3>1 DEF SameRepair, HeadInv, Aimed
      <3>3. repair'.pc = "resuming" => history.repairs = {}
        BY <3>1, <3>2, HeadTypes DEF SameRepair, RoundsInv, Saved
      <3>4. repair'.pc \in {"confirming", "superseding"} => history.repairs # {}
        BY <3>1 DEF SameRepair, RoundsInv, Saved
      <3>. QED  BY <1>1, <3>1, <3>3, <3>4 DEF Carried, SameRepair
    <2>3. CASE RepairReads
      <3>1. /\ repair'.intent = repair.intent /\ repair.pc = "started" /\ ~UnresolvedRepair
            /\ repair'.pc \in {"failed", "fixing", "requeueing"}
        BY <2>3, HeadTypes DEF RepairReads, RepairTo, RepairRuns
      <3>. QED  BY <1>1, <3>1 DEF RoundsInv, Carried, SameRepair
    <2>. QED  BY <2>1, <2>2, <2>3
  <1>. QED  BY <1>3, <1>4 DEF RoundsInv

LEMMA RoundsRepairWorks ==
    ASSUME PullInv, HeadInv, RoundsInv,
           RepairVerified \/ RepairAgentFails \/ RepairSaves \/ RepairResumes \/ RepairProves
    PROVE  RoundsInv'
  <1>1. UNCHANGED <<gh, task, review, pass, history>> /\ used' >= used
    BY HeadTypes DEF RepairVerified, RepairAgentFails, RepairSaves, RepairResumes, RepairProves, repairOnly
  <1>2. Known' = Known /\ NeverMerging'
    BY <1>1 DEF Known, RoundsInv, NeverMerging
  <1>3. \A h \in gh.log : h <= used'
    <2>1. \A h \in gh.log : h \in Nat /\ h <= used
      BY HeadTypes DEF Pulls, Heads, RoundsInv, Saved
    <2>2. used' \in Nat
      BY HeadTypes DEF RepairVerified, RepairAgentFails, RepairSaves, RepairResumes, RepairProves,
         repairOnly
    <2>. QED  BY <1>1, <2>1, <2>2, HeadTypes
  <1>4. CASE RepairVerified
    <2>1. /\ intent' = intent /\ intent.kind = "none" /\ repair.pc = "fixing"
          /\ SameRepair(repair.intent)
      BY <1>4 DEF RepairVerified, RoundsInv, Carried
    <2>2. \/ /\ repair'.pc = "saving" /\ repair'.intent.kind = "repair"
             /\ repair'.intent.new = used + 1 /\ repair'.intent.status = "uncertain"
          \/ repair'.pc = "requeueing" /\ repair'.intent = repair.intent
      <3> DEFINE saved == [kind |-> "repair", head |-> repair.head, new |-> used + 1,
                           status |-> "uncertain"]
      <3>1. saved.kind = "repair" /\ saved.new = used + 1 /\ saved.status = "uncertain"
        OBVIOUS
      <3>2. \/ repair' = [repair EXCEPT !.pc = "saving", !.intent = saved]
            \/ repair' = [repair EXCEPT !.pc = "requeueing"]
        BY <1>4 DEF RepairVerified, RepairTo
      <3> HIDE DEF saved
      <3>. QED  BY <3>1, <3>2, HeadTypes DEF RepairRuns
    <2>3. used + 1 > 1 /\ used + 1 \notin Known
      BY HeadTypes DEF Known, HeadInv, RoundsInv, Saved
    <2>4. Carried'
      BY <1>2, <2>1, <2>2, <2>3 DEF Carried, SameRepair
    <2>. QED  BY <1>1, <1>2, <1>3, <2>1, <2>4 DEF RoundsInv, Saved, CountedOnce
  <1>5. CASE RepairAgentFails \/ RepairProves
    <2>1. /\ intent' = intent /\ repair.pc \notin {"idle", "saving"}
          /\ repair'.intent = repair.intent
          /\ repair'.pc = "failed" \/ (repair'.pc = "confirming" /\ repair.pc = "pushed")
      BY <1>5, HeadTypes DEF RepairAgentFails, RepairProves, RepairTo, RepairRuns
    <2>2. Carried'
      BY <1>1, <2>1 DEF RoundsInv, Carried, SameRepair
    <2>. QED  BY <1>1, <1>2, <1>3, <2>1, <2>2 DEF RoundsInv, Saved, CountedOnce
  <1>6. CASE RepairSaves
    <2>1. /\ intent' = repair.intent /\ repair.pc = "saving" /\ repair'.pc = "pushing"
          /\ repair'.intent = repair.intent
      BY <1>6, HeadTypes DEF RepairSaves, RepairTo, RepairRuns
    <2>2. /\ repair.intent.kind = "repair" /\ repair.intent.status = "uncertain"
          /\ repair.intent.new > 1 /\ repair.intent.new \notin Known
          /\ history.repairs = {} /\ task.cycles = 0
      BY <2>1 DEF RoundsInv, Carried, Saved, CountedOnce
    <2>. QED  BY <1>1, <1>2, <1>3, <2>1, <2>2 DEF RoundsInv, Saved, CountedOnce, Carried, SameRepair
  <1>7. CASE RepairResumes
    <2>1. /\ intent'.kind = intent.kind /\ intent'.new = intent.new /\ intent'.head = intent.head
          /\ intent'.status = "uncertain" /\ repair.pc = "resuming" /\ repair'.pc = "pushing"
          /\ repair'.intent = repair.intent
      BY <1>7, HeadTypes DEF RepairResumes, RepairTo, RepairRuns, Intents
    <2>2. /\ repair.intent.kind = "repair" /\ SameRepair(repair.intent)
          /\ history.repairs = {} /\ intent.status # "confirmed" /\ task.cycles = 0
      BY <2>1 DEF RoundsInv, Carried, CountedOnce
    <2>. QED  BY <1>1, <1>2, <1>3, <2>1, <2>2 DEF RoundsInv, Saved, CountedOnce, Carried, SameRepair
  <1>. QED  BY <1>4, <1>5, <1>6, <1>7

\* A push makes the saved commit a round; it is made above the head it found.
LEMMA RoundsPushes ==
    ASSUME PullInv, HeadInv, RoundsInv, RepairPushes
    PROVE  RoundsInv'
  <1>1. /\ UNCHANGED <<task, intent, review, pass, used>> /\ repair.pc = "pushing"
        /\ repair'.intent = repair.intent /\ repair'.pc \in {"pushed", "failed"}
    BY HeadTypes DEF RepairPushes, RepairTo, RepairRuns, repairOnly
  <1>2. SameRepair(repair.intent) /\ intent.kind = "repair" /\ intent.new <= used
    BY <1>1 DEF RoundsInv, Carried, SameRepair, HeadInv, Aimed
  <1>3. CASE gh' = gh /\ history' = history /\ repair'.pc = "failed"
    <2>1. Carried'
      BY <1>1, <1>2, <1>3 DEF RoundsInv, Carried, SameRepair
    <2>. QED  BY <1>1, <1>3, <2>1 DEF RoundsInv, Saved, CountedOnce, NeverMerging, Known
  <1>4. CASE /\ gh' = IF gh.state = "merged" THEN gh
                      ELSE [gh EXCEPT !.head = repair.intent.new,
                                      !.log = @ \cup {repair.intent.new}]
             /\ history' = [history EXCEPT !.repairs = @ \cup {repair.intent.new}]
    <2>1. /\ gh'.state = gh.state
          /\ gh'.log \subseteq gh.log \cup {intent.new}
          /\ gh'.head = gh.head \/ gh'.head = intent.new
          /\ gh.state # "merged" => gh'.head = intent.new
      BY <1>2, <1>4, HeadTypes DEF Pulls, SameRepair
    <2>2. history'.repairs = {intent.new}
      <3>1. history'.repairs = history.repairs \cup {intent.new}
        BY <1>2, <1>4 DEF SameRepair, PullInv, RestInv, Histories
      <3>. QED  BY <3>1 DEF RoundsInv, Saved
    <2>3. Saved'
      BY <1>1, <1>2, <2>1, <2>2, HeadTypes DEF RoundsInv, Saved
    <2>4. Carried' /\ CountedOnce' /\ NeverMerging'
      BY <1>1, <1>2, <2>2 DEF RoundsInv, Carried, SameRepair, CountedOnce, NeverMerging
    <2>. QED  BY <2>3, <2>4 DEF RoundsInv
  <1>5. \/ gh' = gh /\ history' = history /\ repair'.pc = "failed"
        \/ /\ gh' = IF gh.state = "merged" THEN gh
                    ELSE [gh EXCEPT !.head = repair.intent.new,
                                    !.log = @ \cup {repair.intent.new}]
           /\ history' = [history EXCEPT !.repairs = @ \cup {repair.intent.new}]
    BY HeadTypes DEF RepairPushes, RepairTo, RepairRuns
  <1>. QED  BY <1>3, <1>4, <1>5

LEMMA RoundsRepairEnds ==
    ASSUME PullInv, RoundsInv,
           RepairConfirms \/ RepairSupersedes \/ RepairRequeues \/ RepairBlocks \/ RepairFails
    PROVE  RoundsInv'
  <1>1. /\ UNCHANGED <<gh, review, pass, used>> /\ history'.repairs = history.repairs
        /\ repair.pc # "idle" /\ repair'.pc = "idle"
    BY FailingDoes DEF RepairConfirms, RepairSupersedes, RepairRequeues, RepairBlocks, RepairFails,
       repairOnly, NoRepair
  <1>2. NeverMerging'
    BY <1>1 DEF RoundsInv, NeverMerging
  <1>3. CASE RepairRequeues \/ RepairBlocks \/ RepairFails
           \/ (RepairSupersedes /\ task' = task /\ intent' = intent)
    <2>1. task'.cycles = task.cycles
      <3>1. CASE RepairRequeues
        BY <3>1, HeadTypes, QueuedDoes DEF RepairRequeues, Same
      <3>2. CASE RepairBlocks
        BY <3>2, HeadTypes DEF RepairBlocks, TaskRecords
      <3>3. CASE RepairFails
        BY <3>3, FailingDoes DEF RepairFails, Core, Same
      <3>. QED  BY <1>3, <3>1, <3>2, <3>3
    <2>2. intent' = intent
      BY <1>3 DEF RepairRequeues, RepairBlocks, RepairFails
    <2>. QED  BY <1>1, <1>2, <2>1, <2>2, RoundsFrame
  <1>4. CASE RepairConfirms \/ (RepairSupersedes /\ intent.status \notin {"none", "confirmed"})
    <2>1. repair.pc \in {"confirming", "superseding"}
      BY <1>4 DEF RepairConfirms, RepairSupersedes
    <2>2. intent.kind = "repair" /\ history.repairs # {}
      BY <2>1 DEF RoundsInv, Carried, SameRepair
    <2>3. /\ intent'.kind = intent.kind /\ intent'.new = intent.new /\ intent'.head = intent.head
          /\ intent'.status = "confirmed"
      BY <1>4, HeadTypes DEF RepairConfirms, RepairSupersedes, Intents
    <2>4. task'.cycles = 1
      <3>1. CASE RepairConfirms
        BY <3>1, RepairCounts DEF Counted, RoundsOnce, RoundsInv, CountedOnce
      <3>2. CASE RepairSupersedes /\ intent.status \notin {"none", "confirmed"}
        BY <3>2, RepairCounts DEF Counted, RoundsInv, CountedOnce
      <3>. QED  BY <1>4, <3>1, <3>2
    <2>5. Saved'
      BY <1>1, <2>2, <2>3 DEF RoundsInv, Saved, Known
    <2>6. Carried'
      BY <1>1 DEF Carried
    <2>. QED  BY <1>1, <1>2, <2>2, <2>3, <2>4, <2>5, <2>6 DEF RoundsInv, CountedOnce
  <1>. QED  BY <1>3, <1>4, RepairCounts

LEMMA RoundsPass ==
    ASSUME PullInv, RecordInv, RoundsInv, PassStep
    PROVE  RoundsInv'
  <1>1. NoPass.pull.head = 1 /\ NoReview.pc = "idle"
    BY DEF NoPass, FirstPull, NoReview
  <1>2. CASE PassStarts \/ PassReads
    <2>1. UNCHANGED <<gh, task, intent, repair, used, history>>
      BY <1>2 DEF PassStarts, PassReads, passOnly
    <2>2. pass'.pull = pass.pull \/ pass'.pull.head = 1 \/ pass'.pull = gh
      BY <1>1, <1>2, HeadTypes DEF PassStarts, PassReads, PassEnds, PassRuns, NoPass
    <2>3. review' = review \/ review' = NoReview
      BY <1>2 DEF PassStarts, PassReads, PassEnds
    <2>. QED  BY <1>1, <2>1, <2>2, <2>3, RoundsFrame DEF RoundsInv, NeverMerging
  <1>3. CASE PassRecords
    <2>1. /\ UNCHANGED <<gh, review, repair, used>> /\ pass'.pull = pass.pull
          /\ history'.repairs = history.repairs /\ pass.pc = "observed"
      BY <1>3, HeadTypes DEF PassRecords, passOnly, PassRuns, PullInv, RestInv, Histories
    <2>2. NeverMerging'
      BY <2>1 DEF RoundsInv, NeverMerging
    <2>3. CASE intent' = intent /\ task'.cycles = task.cycles
      BY <2>1, <2>2, <2>3, RoundsFrame
    <2>4. CASE /\ intent' = IF RepairSeen(pass.pull)
                                 \/ (pass.pull.state = "merged" /\ intent.kind = "merge")
                            THEN [intent EXCEPT !.status = "confirmed"] ELSE intent
               /\ Reconciles(pass.pull, task, task')
      <3>1. task.stage = "unknown" => intent.kind = "none" /\ task.cycles = 0
        BY DEF RecordInv, Lawful, Assessing, RoundsInv, Saved, CountedOnce
      <3>2. CASE ~RepairSeen(pass.pull)
        BY <2>3, <2>4, <3>1, <3>2 DEF Reconciles, RoundsInv, Saved
      <3>3. CASE RepairSeen(pass.pull)
        <4>1. /\ intent.kind = "repair" /\ intent.status # "confirmed"
              /\ intent.new \in Known
          BY <3>3 DEF RepairSeen, Known
        <4>2. history.repairs # {} /\ task.cycles = 0 /\ task.stage # "unknown"
          BY <3>1, <4>1 DEF RoundsInv, Saved, CountedOnce
        <4>3. /\ intent'.kind = intent.kind /\ intent'.new = intent.new
              /\ intent'.head = intent.head /\ intent'.status = "confirmed"
          BY <2>4, <3>3, HeadTypes DEF Intents
        <4>4. task'.cycles = 1
          BY <2>4, <3>3, <4>2 DEF Reconciles
        <4>5. Saved' /\ CountedOnce'
          BY <2>1, <4>1, <4>2, <4>3, <4>4 DEF RoundsInv, Saved, CountedOnce, Known
        <4>6. Carried'
          BY <2>1, <4>3 DEF RoundsInv, Carried, SameRepair, UnresolvedRepair, Known
        <4>. QED  BY <2>2, <4>5, <4>6 DEF RoundsInv
      <3>. QED  BY <3>2, <3>3
    <2>5. LeftBranch(task).cycles = task.cycles
      BY HeadTypes, LeftBranchDoes
    <2>. QED  BY <1>3, <2>3, <2>4, <2>5, RecordsDoes
  <1>4. CASE PassClaims \/ PassCloses \/ PassReleases \/ PassFinishesClose
    <2>1. /\ UNCHANGED <<intent, repair, used, history>> /\ task'.cycles = task.cycles
          /\ gh'.head = gh.head /\ gh'.log = gh.log /\ (gh.state = "merged" => gh'.state = "merged")
          /\ pass'.pull = pass.pull \/ pass' = NoPass
          /\ review' = review \/ review' = NoReview
      BY <1>4, ClosesDoes DEF Core, Same
    <2>. QED  BY <1>1, <2>1, RoundsFrame DEF RoundsInv, NeverMerging
  <1>. QED  BY <1>2, <1>3, <1>4 DEF PassStep

LEMMA RoundsNext ==
    ASSUME PullInv, HeadInv, RecordInv, RoundsInv, LeavesMerging, [Next]_vars
    PROVE  RoundsInv'
  <1>1. CASE Still
    BY <1>1 DEF Still, RoundsInv, Saved, CountedOnce, Carried, NeverMerging, SameRepair,
       UnresolvedRepair, Known
  <1>2. CASE ReviewStep
    BY <1>2, RoundsReview
  <1>3. CASE RepairStep
    BY <1>3, RoundsRepairReads, RoundsRepairWorks, RoundsPushes, RoundsRepairEnds DEF RepairStep
  <1>4. CASE PassStep
    BY <1>4, RoundsPass
  <1>. QED  BY <1>1, <1>2, <1>3, <1>4, RoundsPeople, RoundsQuiet, StillSteps DEF Next

-----------------------------------------------------------------------------
\* A record nothing is known of has no head; no step makes a record unknown again.
Fresh == task.stage = "unknown" => task.head = 0

LEMMA FreshNext ==
    ASSUME PullInv, RecordInv, Fresh, [Next]_vars
    PROVE  Fresh'
  <1> SUFFICES task'.stage # "unknown" \/ (task'.stage = task.stage /\ task'.head = task.head)
    BY DEF Fresh
  <1>1. CASE UNCHANGED task
    BY <1>1
  <1>2. CASE Decide \/ Retry \/ AssessCanceled
    BY <1>2, HeadTypes DEF Decide, Retry, AssessCanceled, Moved, Rested, TaskRecords
  <1>3. CASE AssessEnds
    <2>1. task.stage # "unknown"
      BY <1>3 DEF AssessEnds, RecordInv, Assessing
    <2>2. FailAttempt(task).stage # "unknown"
      BY <2>1, HeadTypes, FailAttemptDoes DEF Stands, At, Asked, Closing
    <2>3. task' # FailAttempt(task) /\ InIntake => task'.stage # "unknown"
      BY <1>3, HeadTypes DEF AssessEnds, AskMayor, Moved, Rested, TaskRecords
    <2>. QED  BY <1>3, <2>1, <2>2, <2>3 DEF AssessEnds
  <1>4. CASE ReviewCommits
    BY <1>4, ReviewCommitsDoes DEF Core, Same, Stands, At, Asked, Closing
  <1>5. CASE MergeIsStale \/ MergeBlocks
    BY <1>5, HeadTypes DEF MergeIsStale, MergeBlocks, TaskRecords
  <1>6. CASE RepairStarts
    <2>1. task.stage # "fixes" \/ MarkClosing(task).stage = "closing"
      BY HeadTypes, MarkClosingDoes DEF Closing, At
    <2>. QED  BY <1>1, <1>6, <2>1 DEF RepairStarts
  <1>7. CASE RepairConfirms \/ RepairSupersedes
    BY <1>7, RepairCounts DEF Counted, At
  <1>8. CASE RepairRequeues \/ RepairBlocks
    BY <1>8, HeadTypes, QueuedDoes DEF RepairRequeues, RepairBlocks, TaskRecords, At
  <1>9. CASE RepairFails
    BY <1>9, FailingDoes DEF RepairFails, Core, Same, Stands, At, Asked, Closing
  <1>10. CASE PassRecords
    BY <1>10, RecordsDoes, LeftBranchDoes, HeadTypes DEF Reconciles, Stands, At
  <1>11. CASE PassClaims \/ PassCloses \/ PassReleases \/ PassFinishesClose
    BY <1>11, ClosesDoes DEF Core, Same, Stands, At
  <1>12. CASE RepairRecovers \/ RepairReads \/ RepairVerified \/ RepairAgentFails \/ RepairSaves
             \/ RepairResumes \/ RepairPushes \/ RepairProves
    BY <1>12, <1>1 DEF RepairRecovers, RepairReads, RepairVerified, RepairAgentFails, RepairSaves,
       RepairResumes, RepairPushes, RepairProves
  <1>13. CASE ReviewStep
    BY <1>13, <1>1, <1>4, <1>5 DEF ReviewStep, ReviewStarts, ReviewFails, CertifyStarts, CertifyEnds,
       MergeStarts, MergeGates, MergeRechecks, MergeIntends, MergeCalls, MergeConfirms
  <1>14. CASE RepairStep
    BY <1>12, <1>14, <1>6, <1>7, <1>8, <1>9 DEF RepairStep
  <1>15. CASE PassStep
    BY <1>15, <1>1, <1>10, <1>11 DEF PassStep, PassStarts, PassReads
  <1>16. CASE People \/ OwnershipRecorded \/ Crash \/ AssessStarts \/ Still
    BY <1>16, <1>1 DEF People, townState, OwnershipRecorded, Crash, AssessStarts, Still
  <1>. QED  BY <1>2, <1>3, <1>13, <1>14, <1>15, <1>16, StillSteps DEF Next

\* Only a pass records what it observed.
LEMMA OnlyPassRecords ==
    ASSUME PullInv, [Next]_vars, pass.pc = "observed", pass'.pc = "recorded"
    PROVE  PassRecords
  <1>1. NoPass.pc = "idle"
    BY DEF NoPass
  <1>2. pass' # pass /\ pass' # NoPass
    BY <1>1
  <1>3. CASE ReviewStep
    BY <1>2, <1>3 DEF ReviewStep, ReviewStarts, ReviewFails, CertifyStarts, CertifyEnds, ReviewCommits,
       MergeStarts, MergeGates, MergeIsStale, MergeRechecks, MergeIntends, MergeCalls, MergeConfirms,
       MergeBlocks, reviewOnly
  <1>4. CASE RepairStep
    BY <1>2, <1>4 DEF RepairStep, RepairStarts, RepairRecovers, RepairReads, RepairVerified,
       RepairAgentFails, RepairSaves, RepairResumes, RepairPushes, RepairProves, RepairConfirms,
       RepairSupersedes, RepairRequeues, RepairBlocks, RepairFails, repairOnly
  <1>5. CASE PassStep
    BY <1>2, <1>5 DEF PassStep, PassStarts, PassReads, PassEnds, PassClaims, PassCloses, PassReleases,
       PassFinishesClose
  <1>6. CASE \/ People \/ OwnershipRecorded \/ Decide \/ Retry \/ Crash
             \/ AssessStarts \/ AssessEnds \/ AssessCanceled \/ Still
    BY <1>2, <1>6 DEF People, townState, houses, OwnershipRecorded, Decide, Retry, Crash, LosesRuns,
       AssessStarts, AssessEnds, AssessCanceled, Still
  <1>. QED  BY <1>3, <1>4, <1>5, <1>6, StillSteps DEF Next

RecordsHold == PullInv /\ HeadInv /\ RecordInv /\ Fresh

\* In every behaviour, with any merge policy: the record has the shape the
\* store accepts, no run works on a record the Mayor has to decide, and Town
\* knows no head above GitHub's while the pull request is not merged.
THEOREM RecordInvariant == Spec => []RecordsHold
  <1>1. Init => Fresh
    <2>1. NoTask.head = 0
      BY DEF NoTask
    <2>. QED  BY <2>1 DEF Init, Fresh
  <1>2. Init => RecordsHold
    BY <1>1, InvInit, HeadInit, RecordInit DEF RecordsHold
  <1>3. RecordsHold /\ [Next]_vars => RecordsHold'
    BY InvNext, HeadNext, RecordNext, FreshNext DEF RecordsHold
  <1>. QED  BY <1>2, <1>3, PTL DEF Spec

\* HeadNeverRegresses: an inventory that Town's own push overtook never takes
\* the record back to the head it read.
THEOREM HeadNeverGoesBack == Spec => HeadNeverRegresses
  <1>1. RecordsHold /\ [Next]_vars =>
          [pass.pc = "observed" /\ pass'.pc = "recorded" /\ gh.state # "merged"
             => task'.head >= task.head]_<<task, pass>>
    <2> SUFFICES ASSUME RecordsHold, [Next]_vars, pass.pc = "observed",
                        pass'.pc = "recorded", gh.state # "merged"
                 PROVE  task'.head >= task.head
      OBVIOUS
    <2>1. PullInv /\ HeadInv /\ RecordInv /\ Fresh /\ PassRecords
      BY OnlyPassRecords DEF RecordsHold
    <2>2. pass.observed <= pass.pull.head /\ (task.stage = "unknown" => task.head = 0)
      BY <2>1 DEF HeadInv, Fresh
    <2>3. \/ task'.head = task.head
          \/ /\ task'.head = pass.pull.head
             /\ task.stage = "unknown" \/ task.head = pass.observed
      BY <2>1, RecordsDoes, LeftBranchDoes, HeadTypes DEF Reconciles
    <2>. QED  BY <2>1, <2>2, <2>3, HeadTypes
  <1>. QED  BY <1>1, RecordInvariant, PTL DEF Spec, HeadNeverRegresses

\* CommitsAreValid where no operator stops Simplifier Bot: every commit leaves a
\* record the store accepts.
NoneRefused == ~history.refused
LEMMA CommitsNext ==
    ASSUME PullInv, ~Cancels, NoneRefused, [Next]_vars
    PROVE  NoneRefused'
  <1> USE DEF NoneRefused
  <1>1. CASE ReviewStep
    <2>1. CASE ReviewCommits
      BY <2>1, ReviewCommitsDoes
    <2>2. CASE MergeCalls
      BY <2>2 DEF MergeCalls, PullInv, RestInv, Histories
    <2>. QED  BY <1>1, <2>1, <2>2 DEF ReviewStep, ReviewStarts, ReviewFails, CertifyStarts, CertifyEnds,
                 MergeStarts, MergeGates, MergeIsStale, MergeRechecks, MergeIntends, MergeConfirms,
                 MergeBlocks
  <1>2. CASE RepairStep
    <2>1. CASE RepairFails
      BY <2>1, FailingDoes DEF RepairFails
    <2>2. CASE RepairPushes
      BY <2>2 DEF RepairPushes, PullInv, RestInv, Histories
    <2>. QED  BY <1>2, <2>1, <2>2 DEF RepairStep, RepairStarts, RepairRecovers, RepairReads,
                 RepairVerified, RepairAgentFails, RepairSaves, RepairResumes, RepairProves,
                 RepairConfirms, RepairSupersedes, RepairRequeues, RepairBlocks
  <1>3. CASE PassStep
    <2>1. CASE PassRecords
      BY <2>1 DEF PassRecords, PullInv, RestInv, Histories
    <2>. QED  BY <1>3, <2>1 DEF PassStep, PassStarts, PassReads, PassClaims, PassCloses, PassReleases,
                 PassFinishesClose
  <1>4. CASE \/ People \/ OwnershipRecorded \/ Decide \/ Retry \/ Crash
             \/ AssessStarts \/ AssessEnds \/ AssessCanceled \/ Still
    BY <1>4 DEF People, OwnershipRecorded, Decide, Retry, Crash, AssessStarts, AssessEnds, AssessCanceled,
       Still, PullInv, RestInv, Histories
  <1>. QED  BY <1>1, <1>2, <1>3, <1>4, StillSteps DEF Next

THEOREM CommitsHold ==
    ASSUME ~Cancels
    PROVE  Spec => []CommitsAreValid
  <1>1. Init => NoneRefused
    BY DEF Init, NoneRefused
  <1>2. RecordsHold /\ NoneRefused /\ [Next]_vars => NoneRefused'
    BY CommitsNext DEF RecordsHold
  <1>3. RecordsHold /\ NoneRefused => CommitsAreValid
    BY DEF NoneRefused, RecordsHold, RecordInv, Lawful, CommitsAreValid
  <1>. QED  BY <1>1, <1>2, <1>3, RecordInvariant, PTL DEF Spec

\* RepairsAreCounted where merging is left to people: over lost answers, crashes,
\* retries and inventories, a repair that landed is one fix round, and there is
\* no second.
THEOREM RepairsCount ==
    ASSUME LeavesMerging
    PROVE  Spec => []RepairsAreCounted
  <1>1. Init => RoundsInv
    BY RoundsInit
  <1>2. RecordsHold /\ RoundsInv /\ [Next]_vars => RoundsInv'
    BY RoundsNext DEF RecordsHold
  <1>3. RoundsInv => RepairsAreCounted
    <2> SUFFICES ASSUME RoundsInv PROVE RepairsAreCounted
      OBVIOUS
    <2>1. history.repairs = {} \/ history.repairs = {intent.new}
      BY DEF RoundsInv, Saved
    <2>2. Cardinality({}) = 0 /\ Cardinality({intent.new}) = 1
      BY FS_EmptySet, FS_Singleton
    <2>3. task.cycles = 0 \/ (task.cycles = 1 /\ history.repairs # {})
      BY DEF RoundsInv, CountedOnce
    <2>. QED  BY <2>1, <2>2, <2>3 DEF RepairsAreCounted, RoundsAreLanded, OneFixRound
  <1>. QED  BY <1>1, <1>2, <1>3, RecordInvariant, PTL DEF Spec

-----------------------------------------------------------------------------
(***************************************************************************)
(* Intake: a contributor's pull request that nobody admitted waits with      *)
(* Simplifier Bot or the Mayor, or is over.                                  *)
(***************************************************************************)
Waits(k) ==
    /\ k.house = "hall" => k.stage = "closed" \/ HoldsIntake(k)
    /\ k.house \notin {"hall", "simplifier"} => k.stage = "merged"
    /\ k.offbranch => HoldsIntake(k)
    /\ k.stage = "merged" => k.house = "release"
AdmitInv ==
    owned \/ history.intake \/ (Waits(task) /\ review.pc = "idle" /\ repair.pc = "idle")

Held(k) == k \in TaskRecords /\ Lawful(k) /\ k.external /\ k.stage # "unknown" /\ Waits(k)

\* The steps of a reconciliation before the pull request's own state leave it there.
LEMMA HeldSteps ==
    ASSUME NEW k, Held(k), ~owned, NEW p \in Pulls
    PROVE  LET r == Revision(Ownership(BackOnBranch(DropStaleDecline(k))), p)
           IN  Held(r) /\ ~r.offbranch /\ Stands(k, r)
  <1> DEFINE d == DropStaleDecline(k)
             b == BackOnBranch(d)
             o == Ownership(b)
             r == Revision(o, p)
  <1>1. Held(d) /\ Stands(k, d)
    <2> DEFINE e == [k EXCEPT !.declined = FALSE]
    <2>1. /\ e \in TaskRecords /\ Stands(k, e) /\ e.external = k.external /\ e.offbranch = k.offbranch
          /\ e.declined = FALSE /\ e.audit = k.audit
      BY DEF Held, TaskRecords, Stands, At
    <2>2. d = k \/ d = e
      BY DEF DropStaleDecline
    <2> HIDE DEF d, e
    <2>. QED  BY <2>1, <2>2 DEF Held, Lawful, Waits, HoldsIntake, Stands, At
  <1> HIDE DEF d
  <1>2. Held(b) /\ Stands(d, b) /\ ~b.offbranch
    <2>1. CASE ~d.offbranch
      BY <1>1, <2>1 DEF BackOnBranch, Stands, At
    <2>2. CASE d.offbranch
      <3> DEFINE e == [Rested(d) EXCEPT !.offbranch = FALSE, !.blocked = FALSE, !.audit = NoAudit]
      <3>1. e \in TaskRecords /\ Stands(d, e) /\ e.external = d.external /\ ~e.offbranch
            /\ e.declined = d.declined
        BY <1>1, ConstantTypes DEF Held, Rested, TaskRecords, Stands, At
      <3>2. HoldsIntake(e)
        BY <1>1, <2>2, <3>1 DEF Held, Waits, HoldsIntake, Stands, At
      <3>3. b = e
        BY <2>2, <3>2 DEF BackOnBranch
      <3> HIDE DEF e, b
      <3>4. Lawful(e) /\ Waits(e)
        BY <1>1, <3>1, <3>2, <2>2 DEF Held, Lawful, Waits, HoldsIntake, Stands, At
      <3>. QED  BY <1>1, <3>1, <3>3, <3>4 DEF Held, Stands, At
    <2>. QED  BY <2>1, <2>2, <1>1 DEF Held, TaskRecords
  <1> HIDE DEF b
  <1>3. Held(o) /\ Stands(b, o) /\ ~o.offbranch
    <2>1. o = [b EXCEPT !.external = TRUE]
      BY DEF Ownership
    <2> HIDE DEF o
    <2>2. o \in TaskRecords /\ Stands(b, o) /\ o.external /\ o.offbranch = b.offbranch
          /\ o.declined = b.declined /\ o.audit = b.audit
      BY <1>2, <2>1 DEF Held, TaskRecords, Stands, At
    <2>. QED  BY <1>2, <2>2 DEF Held, Lawful, Waits, HoldsIntake, Stands, At
  <1> HIDE DEF o
  <1>4. Held(r) /\ Stands(o, r) /\ ~r.offbranch
    <2> DEFINE c == IF SameRevision(o, p) THEN o ELSE Revised(o, p)
               e == [Rested(o) EXCEPT !.audit = NoAudit, !.blocked = FALSE]
    <2>1. o.stage \in {"merged", "closed", "closing"} \/ HoldsIntake(o)
      BY <1>3 DEF Held, Lawful, Waits, HoldsIntake, TaskRecords, Stages
    <2>2. c = IF SameRevision(o, p) THEN o ELSE e
      BY <2>1 DEF Revised
    <2>3. r = [c EXCEPT !.head = p.head, !.text = p.text]
      BY DEF Revision
    <2>4. /\ e \in TaskRecords /\ Stands(o, e) /\ e.external = o.external /\ e.offbranch = o.offbranch
          /\ e.declined = o.declined
      BY <1>3, ConstantTypes DEF Held, Rested, TaskRecords, Stands, At
    <2>5. o.stage # "fixes"
      BY <1>3 DEF Held, Lawful
    <2> HIDE DEF c, e, r
    <2>6. /\ c \in TaskRecords /\ Stands(o, c) /\ c.external = o.external /\ c.offbranch = o.offbranch
          /\ c.declined = o.declined
      BY <1>3, <2>2, <2>4 DEF Held, Stands, At
    <2>7. p.head \in Heads \cup {0} /\ p.text \in Texts
      BY DEF Pulls
    <2>8. /\ r \in TaskRecords /\ Stands(c, r) /\ r.external = c.external /\ r.offbranch = c.offbranch
          /\ r.declined = c.declined
      BY <2>3, <2>6, <2>7 DEF TaskRecords, Stands, At
    <2>. QED  BY <1>3, <2>5, <2>6, <2>8 DEF Held, Lawful, Waits, HoldsIntake, Stands, At
  <1>. QED  BY <1>1, <1>2, <1>3, <1>4 DEF Stands, At, d, b, o

\* Nor does that state: only a merge ends intake without a decision.
LEMMA HeldSettled ==
    ASSUME NEW k, Held(k), ~k.offbranch, NEW p \in Pulls,
           k.stage = "merged" => p.state = "merged"
    PROVE  Waits(Settled(k, p))
  <1>1. k \in TaskRecords /\ Lawful(k) /\ k.external /\ Waits(k) /\ k.stage # "unknown"
    BY DEF Held
  <1>2. CASE p.state = "merged"
    <2> DEFINE b == [k EXCEPT !.decision = "", !.blocked = IF intent.kind = "merge" THEN FALSE ELSE @]
    <2>1. Settled(k, p) = Moved(b, "merged", "release")
      BY <1>2 DEF Settled
    <2>2. b.offbranch = FALSE /\ DOMAIN b = DOMAIN k
      BY <1>1 DEF TaskRecords
    <2> HIDE DEF b
    <2>3. /\ Moved(b, "merged", "release").stage = "merged"
          /\ Moved(b, "merged", "release").house = "release"
          /\ Moved(b, "merged", "release").offbranch = FALSE
      BY <1>1, <2>2 DEF Moved, TaskRecords
    <2>. QED  BY <2>1, <2>3 DEF Waits
  <1>3. CASE p.state = "closed" /\ k.stage = "closing"
    BY <1>1, <1>3 DEF Settled
  <1>4. CASE p.state = "closed" /\ k.stage # "closing"
    <2>1. Settled(k, p) = ClosedByPeople(k)
      BY <1>4 DEF Settled
    <2>2. /\ ClosedByPeople(k).stage = "closed" /\ ClosedByPeople(k).house = k.house
          /\ ClosedByPeople(k).offbranch = k.offbranch
      BY <1>1 DEF ClosedByPeople, TaskRecords
    <2>3. k.stage # "merged"
      BY <1>4
    <2>. QED  BY <1>1, <2>1, <2>2, <2>3 DEF Waits
  <1>5. CASE p.state = "open"
    <2> DEFINE o == IF k.stage = "closed" THEN Resume(k) ELSE k
    <2>1. k.stage # "merged"
      BY <1>5
    <2>2. Waits(o) /\ HoldsIntake(o)
      <3>1. CASE k.stage # "closed"
        BY <1>1, <2>1, <3>1 DEF Waits, Lawful, HoldsIntake, TaskRecords, Stages
      <3>2. CASE k.stage = "closed" /\ (k.decision = "declined" \/ (k.house = "hall" /\ k.declined))
        <4>1. Resume(k) = [k EXCEPT !.stage = "declined"]
          BY <1>1, <3>2 DEF Resume
        <4>2. Resume(k).stage = "declined" /\ Resume(k).house = "hall"
          BY <1>1, <3>2, <4>1 DEF TaskRecords, Lawful
        <4>. QED  BY <3>2, <4>2 DEF Waits, HoldsIntake
      <3>3. CASE k.stage = "closed" /\ k.house = "simplifier"
        <4>1. Resume(k) = [k EXCEPT !.stage = "simplifying"]
          BY <1>1, <3>3 DEF Resume, Lawful
        <4>2. Resume(k).stage = "simplifying" /\ Resume(k).house = "simplifier"
          BY <1>1, <3>3, <4>1 DEF TaskRecords
        <4>. QED  BY <3>3, <4>2 DEF Waits, HoldsIntake
      <3>4. CASE k.stage = "closed" /\ k.house = "hall" /\ ~k.declined /\ k.decision # "declined"
        <4>1. Resume(k) = AskMayor(k)
          BY <1>1, <3>4 DEF Resume
        <4>2. Asked(AskMayor(k))
          BY <1>1, AskMayorDoes
        <4>. QED  BY <3>4, <4>1, <4>2 DEF Waits, HoldsIntake, Asked, At
      <3>. QED  BY <1>1, <2>1, <3>1, <3>2, <3>3, <3>4 DEF Waits
    <2>3. Settled(k, p) = o
      BY <1>5, <2>2 DEF Settled
    <2>. QED  BY <2>2, <2>3
  <1>. QED  BY <1>2, <1>3, <1>4, <1>5 DEF Pulls

LEMMA WaitsReconciled ==
    ASSUME PullInv, RecordInv, Waits(task), ~owned,
           pass.pc = "observed", NEW mode \in Modes
    PROVE  \/ Waits(ReconciledTask(pass.pull, pass.observed, mode))
           \/ ReconciledTask(pass.pull, pass.observed, mode) = task
  <1> DEFINE p == pass.pull
             a == IF task.stage = "unknown" THEN Arrived(mode) ELSE task
             r == Revision(Ownership(BackOnBranch(DropStaleDecline(a))), p)
  <1>1. task \in TaskRecords /\ Lawful(task) /\ p \in Pulls /\ task.external
    BY HeadTypes DEF RecordInv, PullInv, TaskInv, Fits, TaskRecords
  <1>2. CASE ~p.here
    <2>1. task.stage \in {"unknown", "merged", "closed"} => LeftBranch(task) = task
      BY DEF LeftBranch
    <2>2. CASE task.stage \notin {"unknown", "merged", "closed"}
      <3>1. HoldsIntake(task)
        BY <1>1, <2>2 DEF Waits, Lawful, HoldsIntake
      <3>2. Stands(task, LeftBranch(task))
        BY <1>1, LeftBranchDoes
      <3>. QED  BY <1>2, <2>2, <3>1, <3>2 DEF Waits, Stands, At, HoldsIntake, ReconciledTask
    <2>. QED  BY <1>2, <2>1, <2>2 DEF ReconciledTask
  <1>3. CASE p.here /\ ObservationStale(pass.observed)
    BY <1>3 DEF ReconciledTask
  <1>4. CASE p.here /\ ~ObservationStale(pass.observed)
    <2>1. ~RepairSeen(p)
      BY <1>1 DEF RepairSeen, RecordInv, Landing, Visible, Unresolved
    <2>2. ReconciledTask(p, pass.observed, mode) = Settled(r, p)
      BY <1>4, <2>1 DEF ReconciledTask
    <2>3. Held(a)
      <3>1. CASE task.stage # "unknown"
        BY <1>1, <3>1 DEF Held
      <3>2. CASE task.stage = "unknown"
        <4> DEFINE m == [NoTask EXCEPT !.stage = "simplifying"]
        <4>1. NoTask \in TaskRecords
          BY ConstantTypes DEF NoTask, TaskRecords, Stages
        <4>2. NoTask.external /\ ~NoTask.offbranch /\ NoTask.house = "simplifier"
              /\ NoTask.decision = "" /\ ~NoTask.declined
          BY DEF NoTask
        <4>3. Core(NoTask, AskMayor(NoTask)) /\ Asked(AskMayor(NoTask))
          BY <4>1, AskMayorDoes
        <4>4. /\ m \in TaskRecords /\ At(m, "simplifying", "simplifier", "")
              /\ m.external /\ ~m.offbranch /\ ~m.declined
          BY <4>1, <4>2 DEF TaskRecords, At, Stages
        <4>5. a = AskMayor(NoTask) \/ a = m
          BY <3>2 DEF Arrived
        <4> HIDE DEF m, a
        <4>. QED  BY <4>2, <4>3, <4>4, <4>5
                 DEF Held, Lawful, Waits, HoldsIntake, Asked, At, Core, Same
      <3>. QED  BY <3>1, <3>2
    <2>4. a.stage = "merged" => p.state = "merged"
      <3>1. Arrived(mode).stage # "merged"
        BY ConstantTypes DEF Arrived, AskMayor, Moved, NoTask
      <3>. QED  BY <3>1 DEF RecordInv, Merging
    <2> HIDE DEF a, r
    <2>5. Held(r) /\ ~r.offbranch /\ Stands(a, r)
      BY <1>1, <2>3, HeldSteps DEF r
    <2>6. Waits(Settled(r, p))
      BY <1>1, <2>4, <2>5, HeldSettled DEF Stands, At
    <2>. QED  BY <2>2, <2>6
  <1>. QED  BY <1>2, <1>3, <1>4

LEMMA AdmitHouses ==
    ASSUME PullInv, RecordInv, AdmitInv, task'.decision # "pending", ~owned', ~history'.intake,
           ReviewStep \/ RepairStep
    PROVE  AdmitInv'
  <1>1. ~history.intake
    <2>1. CASE ReviewStep
      BY <2>1, HeadTypes DEF ReviewStep, ReviewStarts, ReviewFails, CertifyStarts, CertifyEnds,
         ReviewCommits, Failing, MergeStarts, MergeGates, MergeIsStale, MergeRechecks, MergeIntends,
         MergeCalls, MergeConfirms, MergeBlocks, PullInv, RestInv, Histories
    <2>2. CASE RepairStep
      BY <2>2 DEF RepairStep, RepairStarts, RepairRecovers, RepairReads, RepairVerified,
         RepairAgentFails, RepairSaves, RepairResumes, RepairPushes, RepairProves, RepairConfirms,
         RepairSupersedes, RepairRequeues, RepairBlocks, RepairFails, Failing, PullInv, RestInv, Histories
    <2>. QED  BY <2>1, <2>2
  <1>2. ~owned
    BY DEF ReviewStep, ReviewStarts, ReviewFails, CertifyStarts, CertifyEnds, ReviewCommits, MergeStarts,
       MergeGates, MergeIsStale, MergeRechecks, MergeIntends, MergeCalls, MergeConfirms, MergeBlocks,
       RepairStep, RepairStarts, RepairRecovers, RepairReads, RepairVerified, RepairAgentFails,
       RepairSaves, RepairResumes, RepairPushes, RepairProves, RepairConfirms, RepairSupersedes,
       RepairRequeues, RepairBlocks, RepairFails, reviewOnly, repairOnly
  <1>3. Waits(task) /\ review.pc = "idle" /\ repair.pc = "idle"
    BY <1>1, <1>2 DEF AdmitInv
  <1>4. ~ReviewStarts /\ ~MergeStarts /\ ~RepairStarts
    BY <1>3 DEF ReviewStarts, MergeStarts, RepairStarts, Waits, HoldsIntake, RecordInv, Lawful
  <1>5. CASE ReviewStep
    BY <1>3, <1>4, <1>5 DEF ReviewStep, ReviewFails, CertifyStarts, CertifyEnds, ReviewCommits,
       MergeStarts, MergeGates, MergeIsStale, MergeRechecks, MergeIntends, MergeCalls, MergeConfirms,
       MergeBlocks
  <1>6. CASE RepairStep
    BY <1>3, <1>4, <1>6 DEF RepairStep, RepairRecovers, RepairReads, RepairVerified, RepairAgentFails,
       RepairSaves, RepairResumes, RepairPushes, RepairProves, RepairConfirms, RepairSupersedes,
       RepairRequeues, RepairBlocks, RepairFails
  <1>. QED  BY <1>5, <1>6

LEMMA AdmitPass ==
    ASSUME PullInv, RecordInv, AdmitInv, task'.decision # "pending", ~owned', ~history'.intake,
           PassStep
    PROVE  AdmitInv'
  <1>1. owned' = owned /\ repair' = repair /\ (review' = review \/ review' = NoReview)
    <2>1. CASE PassClaims \/ PassCloses \/ PassReleases \/ PassFinishesClose
      BY <2>1, ClosesDoes
    <2>2. CASE PassStarts \/ PassReads \/ PassRecords
      BY <2>2 DEF PassStarts, PassReads, PassRecords, passOnly, PassEnds
    <2>. QED  BY <2>1, <2>2 DEF PassStep
  <1>5. ~owned
    BY <1>1
  <1>2. ~history.intake
    <2>1. CASE PassRecords
      BY <2>1 DEF PassRecords, PullInv, RestInv, Histories
    <2>. QED  BY <2>1 DEF PassStep, PassStarts, PassReads, PassClaims, PassCloses, PassReleases,
                 PassFinishesClose
  <1>3. Waits(task) /\ review'.pc = "idle" /\ repair'.pc = "idle"
    BY <1>1, <1>2, <1>5 DEF AdmitInv, NoReview
  <1>4. Waits(task')
    <2>1. CASE task' = task
      BY <1>3, <2>1
    <2>2. CASE PassRecords
      <3>1. PICK mode \in Modes : task' = ReconciledTask(pass.pull, pass.observed, mode)
        BY <2>2 DEF PassRecords
      <3>. QED  BY <1>5, <1>3, <2>2, <3>1, WaitsReconciled DEF PassRecords
    <2>3. CASE PassClaims \/ PassCloses \/ PassReleases \/ PassFinishesClose
      <3>1. task.external /\ task.stage # "closing"
        BY <1>5 DEF PullInv, TaskInv, Fits, Work, TaskRecords
      <3>2. Same(task, task') /\ Stands(task, task')
        BY <2>3, <3>1, ClosesDoes DEF DeclinedOwn, Core
      <3>. QED  BY <1>3, <3>2 DEF Same, Stands, At, Waits, HoldsIntake
    <2>. QED  BY <2>1, <2>2, <2>3 DEF PassStep, PassStarts, PassReads
  <1>. QED  BY <1>3, <1>4 DEF AdmitInv, Waits, HoldsIntake

LEMMA AdmitRest ==
    ASSUME PullInv, RecordInv, AdmitInv, task'.decision # "pending", ~owned', ~history'.intake,
           \/ People \/ OwnershipRecorded \/ Decide \/ Retry \/ Crash
           \/ AssessStarts \/ AssessEnds \/ AssessCanceled \/ Still
    PROVE  AdmitInv'
  <1>0. NoReview.pc = "idle" /\ NoRepair.pc = "idle"
    BY DEF NoReview, NoRepair
  <1>1. CASE People \/ OwnershipRecorded \/ Crash \/ AssessStarts \/ Still
    BY <1>0, <1>1 DEF People, townState, houses, OwnershipRecorded, Crash, LosesRuns, AssessStarts, Still,
       AdmitInv, Waits, HoldsIntake
  <1>2. CASE Retry
    <2>1. Stands(task, task') /\ task'.offbranch = task.offbranch
      BY <1>2, HeadTypes DEF Retry, Rested, Stands, At, TaskRecords
    <2>. QED  BY <1>2, <2>1 DEF Retry, houses, AdmitInv, Waits, HoldsIntake, Stands, At
  <1>3. CASE Decide
    <2>1. AwaitsMayor /\ task' = [Rested(task) EXCEPT !.decision = "declined", !.stage = "declined"]
      BY <1>3 DEF Decide, PullInv, RestInv, Histories
    <2>2. task'.stage = "declined" /\ task'.house = "hall"
      BY <2>1, HeadTypes DEF AwaitsMayor, Rested, TaskRecords
    <2>3. review.pc = "idle" /\ repair.pc = "idle"
      BY <2>1 DEF AwaitsMayor, RecordInv, Reviewing, Repairing, Reviewable, Undecided
    <2>. QED  BY <1>3, <2>2, <2>3 DEF Decide, houses, AdmitInv, Waits, HoldsIntake
  <1>4. CASE AssessEnds
    <2>1. review'.pc = "idle" /\ repair'.pc = "idle" /\ ~owned
      BY <1>4 DEF AssessEnds, RecordInv, Assessing
    <2>2. task.external
      BY <2>1 DEF PullInv, TaskInv, Fits, TaskRecords
    <2>3. CASE task' = task /\ history' = history
      BY <1>4, <2>1, <2>3 DEF AssessEnds, AdmitInv, Waits, HoldsIntake
    <2>4. CASE task' = FailAttempt(task) /\ history' = history
      <3>1. Same(task, task') /\ Stands(task, task')
        BY <2>2, <2>4, HeadTypes, FailAttemptDoes DEF Core, Asked, At
      <3>. QED  BY <1>4, <2>1, <2>4, <3>1 DEF AssessEnds, AdmitInv, Waits, HoldsIntake, Same, Stands, At
    <2>5. CASE task' = AskMayor([[Rested(task) EXCEPT !.blocked = FALSE] EXCEPT !.declined = FALSE])
      <3>1. task'.decision = "pending"
        BY <2>5, HeadTypes DEF AskMayor, Moved, Rested, TaskRecords
      <3>. QED  BY <3>1
    <2>6. CASE history' = [history EXCEPT !.intake = TRUE]
      BY <2>6 DEF PullInv, RestInv, Histories
    <2>7. CASE task' = Moved([[Rested(task) EXCEPT !.blocked = FALSE] EXCEPT !.decision = "", !.declined = TRUE],
                              "declined", "hall")
      <3>1. task'.stage = "declined" /\ task'.house = "hall"
        BY <2>7, HeadTypes DEF Moved, Rested, TaskRecords
      <3>. QED  BY <2>1, <3>1 DEF AdmitInv, Waits, HoldsIntake
    <2>. QED  BY <1>4, <2>3, <2>4, <2>5, <2>6, <2>7 DEF AssessEnds
  <1>5. CASE AssessCanceled
    <2>1. Stands(task, task') /\ task'.offbranch = task.offbranch
      BY <1>5, HeadTypes DEF AssessCanceled, Stands, At, TaskRecords
    <2>2. /\ review' = review \/ review' = NoReview
          /\ repair' = repair \/ repair' = NoRepair
          /\ history'.intake = history.intake /\ owned' = owned
      BY <1>5 DEF AssessCanceled, LosesRuns, PullInv, RestInv, Histories
    <2>. QED  BY <1>0, <2>1, <2>2 DEF AdmitInv, Waits, HoldsIntake, Stands, At
  <1>. QED  BY <1>1, <1>2, <1>3, <1>4, <1>5

LEMMA AdmitNext ==
    ASSUME PullInv, HeadInv, RecordInv, AdmitInv, [Next]_vars
    PROVE  AdmitInv'
  <1>1. RecordInv'
    BY RecordNext
  \* A record the Mayor has just been asked about waits, and no house works on it.
  <1>2. task'.decision = "pending" => AdmitInv'
    BY <1>1 DEF RecordInv, Lawful, Reviewing, Repairing, Reviewable, Undecided, AdmitInv, Waits, HoldsIntake
  <1> SUFFICES ASSUME task'.decision # "pending", ~owned', ~history'.intake
               PROVE  AdmitInv'
    BY <1>2 DEF AdmitInv
  <1>. QED  BY AdmitHouses, AdmitPass, AdmitRest, StillSteps DEF Next

\* IntakeDecides: whatever a new revision, a draft change, a reopen or a
\* retarget does to the record, a contributor's pull request is reviewed only
\* while intake admits it.
THEOREM IntakeAlwaysDecides == Spec => IntakeDecides
  <1>1. Init => AdmitInv
    <2>1. NoTask.house = "simplifier" /\ ~NoTask.offbranch /\ NoTask.stage = "unknown"
      BY DEF NoTask
    <2>. QED  BY <2>1 DEF Init, AdmitInv, Waits, NoReview, NoRepair
  <1>2. RecordsHold /\ AdmitInv /\ [Next]_vars => AdmitInv'
    BY AdmitNext DEF RecordsHold
  <1>3. RecordsHold /\ AdmitInv /\ [Next]_vars =>
          [review.pc = "idle" /\ review'.pc = "reviewing" => owned \/ history.intake]_vars
    <2> SUFFICES ASSUME RecordsHold, AdmitInv, [Next]_vars, review.pc = "idle",
                        review'.pc = "reviewing", ~owned, ~history.intake
                 PROVE  FALSE
      OBVIOUS
    <2>1. ReviewStarts
      <3>1. review' # review /\ review' # NoReview
        BY DEF NoReview
      <3>2. CASE ReviewStep
        BY <3>1, <3>2 DEF ReviewStep, ReviewFails, CertifyStarts, CertifyEnds, ReviewCommits, MergeStarts,
           MergeGates, MergeIsStale, MergeRechecks, MergeIntends, MergeCalls, MergeConfirms, MergeBlocks,
           NoReview
      <3>3. CASE RepairStep
        BY <3>1, <3>3 DEF RepairStep, RepairStarts, RepairRecovers, RepairReads, RepairVerified,
           RepairAgentFails, RepairSaves, RepairResumes, RepairPushes, RepairProves, RepairConfirms,
           RepairSupersedes, RepairRequeues, RepairBlocks, RepairFails, repairOnly
      <3>4. CASE PassStep
        BY <3>1, <3>4 DEF PassStep, PassStarts, PassReads, PassRecords, PassClaims, PassCloses,
           PassReleases, PassFinishesClose, passOnly, PassEnds
      <3>5. CASE \/ People \/ OwnershipRecorded \/ Decide \/ Retry \/ Crash
                 \/ AssessStarts \/ AssessEnds \/ AssessCanceled \/ Still
        BY <3>1, <3>5 DEF People, townState, houses, OwnershipRecorded, Decide, Retry, Crash, LosesRuns,
           AssessStarts, AssessEnds, AssessCanceled, Still
      <3>. QED  BY <3>2, <3>3, <3>4, <3>5, StillSteps DEF Next
    <2>2. task.stage = "queued" /\ task.house = "review" /\ Waits(task)
      BY <2>1 DEF ReviewStarts, AdmitInv
    <2>. QED  BY <2>2 DEF Waits, HoldsIntake
  <1>. QED  BY <1>1, <1>2, <1>3, RecordInvariant, PTL DEF Spec, IntakeDecides
=============================================================================
