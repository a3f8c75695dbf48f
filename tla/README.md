# Brokk Town in TLA+

Brokk Town is one long-running Go service that manages GitHub repositories
("towns"). For each town it schedules eight bots, follows every issue and pull
request through a workflow, and keeps what it knows in one durable state file.
The bots are programs of their own, each with its own durable jobs. This
directory holds TLA+ models of both, the TLC runs that check them on small
instances, and TLAPS proofs for every value of the constants. Paths below are
relative to the repository, under `src/` here.

- [1. The system](#1-the-system)
- [2. The modules and how they correspond to the code](#2-the-modules-and-how-they-correspond-to-the-code)
- [3. Runs, bounds and what they show](#3-runs-bounds-and-what-they-show)
- [4. Fairness](#4-fairness)
- [5. Proofs](#5-proofs)
- [6. Where the code and its documents disagree](#6-where-the-code-and-its-documents-disagree)
- [7. What is not modelled](#7-what-is-not-modelled)
- [8. Plan](#8-plan)

## 1. The system

### Inventory

| Component | State it keeps | Operations | Talks to | Module |
| --- | --- | --- | --- | --- |
| **Supervisor** (`internal/town/supervisor.go`) | in memory: running, repairing, starting, retrying runs, a reconcile gate per town, a fatal error | `schedule`, `execute`, `reconcile`, `claimRepair`, `mergeReady`, `control`, `Delete`/`Restore`, retry, admit/decline, `SetCapacity`, `Run` and shutdown | the store (every change), the bots, GitHub | `Dispatch` |
| **Store** (`store.go`, `recovery.go`) | `state.json`: towns, workers, tasks, intents, ownership, events, requests | `Open` (recovers open runs into holds), `Update` (clone, change, validate, write, rename, sync), `validateState` | the file system; every other component | `Dispatch`, `StateFile` |
| **Bot workers** (`workers.go`, `callback.go`, `cancellation.go`, `interrupt.go`) | nothing of their own; `Worker.Run` in the store | choose the next task, record the dispatch, call the bot, interpret the answer | the bots over HTTP (`internal/botapi`), the store | `Dispatch`, `BotRun` |
| **Inventory** (`reconcile.go`, `incremental.go`, `github.go`) | tasks, saved intents, the cursor | `Reconcile`: arrivals, revisions, drafts, retargets, merges, closes, reopens, landed repairs; the next inventory's start | Repo Bot (reads GitHub), the store | `PullRequest`, `Issues`, `Inventory` |
| **Certification and fix round** (`session.go`) | audits, the repair intent | `certify`, `repair`, `confirmRepair`, `supersedeRepair`, `requeue` | review and issue bots, git, GitHub | `PullRequest` |
| **Resolution** (`resolution.go`) | attempts, the closing claim | `failPullAttempt`, `retirePull`, `markClosing`, `settleReview`, `claimDeclinedPulls`, `closeRetiredPulls`, starting an issue over | GitHub (closes, deletes branches, comments) | `PullRequest`, `Issues` |
| **Merge** (`mergeReady`, `policy.go`) | the merge intent | gate, recheck, intent, merge call, confirmation by an inventory | GitHub | `PullRequest` |
| **Town Hall** (`hall.go`) | pending decisions | `decideTask`, the Mayor Bot's judgments and retries | Mayor Bot, people | `PullRequest`, `Issues` |
| **Issues** (`requests.go`, `issue_jobs.go`, parts of `reconcile.go`, `supervisor.go`, `resolution.go`) | issue tasks, submissions, ownership | publication, intake, implementation, import of Issue Bot's jobs, declined-issue close, restart after a closed pull request | Issue Bot's receipts, GitHub | `Issues` |
| **Admission** (`quiet.go`, `deferral.go`, `budget.go`) | windows, deferrals, spent budget | may an agent run start now, when next | the supervisor | `Budget`, `QuietHours` |
| **Storage cleanup** (`storage.go`, `storage_records.go`, `botapi/storage.go`) | a reservation per town, receipts | `beginStorage`, listing, selection, removal, report, `endStorage` | bots, the supervisor, the store | `Dispatch`, `Storage` |
| **Outbox** (`attention.go`, `funnels.go`, `funnel_runtime.go`, `github_funnel.go`, `slack_funnel.go`) | notices seen, queued and claimed; funnel cursors, tasks and intents | the attention command; discovery; lifecycle transitions written back once | a local command, GitHub, Slack | `Attention`, `Funnels` |
| **History and outcomes** (`history.go`, `history_read.go`, `outcomes.go`) | an archive beside the state file | archiving old tasks, restoring one that comes back | the store | `StateFile` |
| **Assistant** (`guide.go`, `guide_run.go`) | one conversation per town | questions, cancellation, answers, proposals and their confirmation | a harness, the supervisor's controls | `Guide` |
| **Managed runs** (`managed.go`, `internal/mjolnir`) | a directory per run: record, evidence, bundle | preparing, prompting, reading back and destroying sessions | Mjolnir's daemon, git | `ManagedRun` |
| **Bot protocol** (`internal/botapi`) | live runs by identifier | one streamed run, heartbeats, cancellation, terminal frame, uncertainty | Town, one bot process each | `BotRun` |
| **Issue Bot** (`bots/issue-bot`) | a job per issue: claim, tries, pull request | election by comments, lease, attempt, push, publication, requeue | GitHub, git, an agent | `IssueBot` |
| **Release Bot** (`bots/release-bot`) | one release job, history | watch, prepare, validate, publish, verify, notify | GitHub, registries, agents | `ReleaseBot` |
| **Bug and Feature Bot** (`bots/bug-bot`, `bots/feature-bot`) | a scan and its findings | discover, review against GitHub's issues, file | GitHub, agents | `FinderBot` |
| **Review Bot** (`bots/review-bot`) | a job per revision and mode | review, check, post, find lost posts | GitHub, agents | `ReviewBot` |
| **Repo Bot** (`bots/repo-bot`) | repairs spent on the red head | inventories; branch health and its repair | GitHub, git, an agent | `Inventory`, `BranchHealth` |
| **Simplifier Bot** (`bots/simplifier-bot`) | proposals | scan a branch and file proposals; assess one item | GitHub, agents | `SimplifierBot` |
| **Mayor Bot** (`bots/mayor-bot`) | nothing | judge one arrival | an agent | free choice in `PullRequest`, `Issues` |
| **Settings and placement** (`settings.go`, `execution.go`, parts of `model.go`, `supervisor.go`, `workers.go`) | a town's `Config`: profiles, placements, pinned runtimes; what each house's run captured | `ApplySettings`, `SetExecution`, `DiscoverExecutionRuntime`, `PinExecutionRuntime`, `Prepare`, delete and restore | the store, the catalogue, Mjolnir, every dispatch | `Settings` |
| **Harnesses** (`internal/harness`) | the agent registry's copy, installations and a derived configuration under each bot's root | `Refresh`, `install`, `launch`, Muse's mirror | the registry, the bots' runs | `Harness` |
| **Setup and diagnostics; auth, OS layer; web and CLI** (`internal/auth`, `osrun`, `web`, `cmd/*`) | credentials, sessions | set a machine up, start processes, show the state, send operator commands | the supervisor, agents | not modelled |

### How the parts interact

Everything durable in Town goes through `Store.Update`: a function changes a
clone of the state under one lock, the clone is validated, and only a clone that
reached the disk becomes the state. There are therefore no half commits, but
there is a great deal of *staleness*: a run reads the state, leaves the lock,
works for minutes with agents and GitHub, and commits a result computed from what
it read. Meanwhile the inventory, other houses, the operator and people on GitHub
change the same task. The supervisor's own reservations (running, repairing,
gate, retries, storage) live in memory under `s.mu` and vanish with the process;
the dispatch record `Worker.Run` is what a restart goes by.

A bot is dispatched with one request and answers with a stream of frames. It
keeps its own state file, and everything it writes to GitHub is announced there
first (a claim, a charged attempt, "posting", a plan), because neither it nor
Town can tell from a lost answer whether GitHub did what it was asked. The next
run of the bot looks for what may have landed, by a marker, before it goes on.

### What is hard

1. **Unknown outcomes.** A bot may have written to GitHub before its answer was
   lost, its run canceled or the service killed. Nothing may be repeated
   blindly, nothing forgotten (`LostWorkHeld`, `NoBlindResend` for Town;
   `ClaimsHold`, `ReviewHolds`, `DoneOnce`, `FiledOnce`, `RunHolds`, `ManagedHolds` for the
   bots and their runs; `FunnelsHold`, `AttentionHolds` for what Town tells others).
2. **Two writers of one record.** The repo worker's run record is shared by the
   repo bot's passes and the merge confirmations of the review house
   (`RepoRunHasHolder`); a task is changed by passes, clicks, judgments and
   imports while a decline is carried out (`DecisionsHold`).
3. **Half-way reservations.** A slotless inventory becomes an agent run when it
   claims a branch repair; the limit can be lowered meanwhile; a cleanup must
   find nobody home (`SlotsRespectLimit`, `CleanupAlone`, `OvershootBounded`).
4. **Ends.** Stops, deletes and shutdowns must not hang; records must not stay
   open; statuses must not lie after a restart (`CanceledRunEnds`, `RunSettles`,
   `BusyStatusIsTrue`).
5. **A moving target.** What is merged must be what was certified
   (`MergedHeadCertified`); a fix round must be counted once although three
   runs can see it first (`RepairsAreCounted`); an inventory read before a
   repair must not undo it (`HeadNeverRegresses`); what changes while a list is
   read must be seen later (`UnseenIsAhead`); a branch repair must not take
   people's commits off (`StepsHold`).
6. **Other people's work.** Town never closes a contributor's pull request and
   never works on one the Mayor or Simplifier Bot has not admitted
   (`ClosesOnlyItsOwn`, `IntakeDecides`); a cleanup removes only what the
   operator saw (`CleanupHolds`).
7. **Validity.** A commit the validation refuses ends the service, so no
   sequence of legal steps may produce one (`CommitsAreValid`, `TypeOK` of
   `Issues`).
8. **Boundaries of time and number.** Quiet windows over midnight and clock
   changes (`QuietHolds`), attempts at their limit (`AttemptsAreSpent`).
9. **Shared ground.** Runs of several towns install into one directory and read one
   catalogue while it is refreshed (`HarnessHolds`); settings are edited, deleted and
   restored under the runs that were started with them (`SettingsHold`).
10. **Progress.** Whatever reviews find and whatever fails, a pull request comes
    to an end (`PullSettles`), and a decline is carried out
    (`DeclineIsCarriedOut`).

`PROJECT.json` lists the hazards, each at its line, with the properties that
would catch it going wrong.

## 2. The modules and how they correspond to the code

| Module | Models |
| --- | --- |
| `Dispatch` | the supervisor's dispatch of bot runs on the durable store, the reconcile gate, operator controls, storage cleanup's reservation, crash, shutdown and restart |
| `Attempts` | the abstract contract of dispatch: one bot's attempts at work that may write |
| `PullRequest` | one pull request from its first inventory to its merge or close |
| `Issues` | the life of an issue on Town's side, submissions included |
| `IssueBot` | one issue and the instances of Issue Bot that may implement it |
| `Attention`, `QuietHours`, `Budget`, `Storage`, `Inventory`, `Harness` | parts of Town's service and its bots with a state of their own |
| `Settings`, `Funnels`, `StateFile` | the parts of `state.json` and the archive that have rules of their own |
| `ReleaseBot`, `FinderBot`, `ReviewBot`, `BranchHealth`, `SimplifierBot` | the bots' durable jobs |
| `BotRun`, `ManagedRun`, `Guide` | a run over the network; a run placed on Mjolnir; Town's assistant |
| `MCDispatch`, `MCPullRequest`, `MCIssues`, `MCIssueBot`, `MCTown`, `MCRecords`, `MCBots` | the modules the configurations instantiate for TLC |
| `DispatchProofs`, `PullProofs`, `IssuesProofs`, `IssueBotProofs` | theorems of the modules of that name |
| `TownProofs`, `RecordProofs` | theorems of the parts of Town's service; of the whole of `Town` |
| `BotProofs`, `JobProofs` | theorems of the bots and their runs; of the whole of `Bots` |

In every module a step ends where the code commits, writes to the outside, or
reads again what somebody else may have changed; what a goroutine read earlier is
in a variable of its own. Variables marked "read by no action" or "history" only
serve the properties. Definitions that no action uses, marked "A bug:", are mutants:
those of `PROJECT.json`, and others that break a part of the same property.

### `Dispatch`

A bot is a pair of a town and a role. Its *durable* variables are fields of
`state.json` (`enabled`, `status`, `run`, `recovery`, each task's `house`, the
worker limit, a town's `deleted`); its *volatile* ones are what dies with the
process (`running`, `canceled`, `repairing`, `gate`, `storageBusy`, `retrying`,
and each run's program counter `pc`, request `mode` and `outcome`). A run is
cut exactly where the code lets go of `s.mu` or the store lock:

| Place (`pc`) | Code | Next actions |
| --- | --- | --- |
| `reserved` | `schedule` put the bot in `s.running` | `StartCanceled`, `StartHeld`, `StartCommit` |
| `started` | `execute` committed the status; Run is in the handler | `RecordRun` (agents), `EnterGate` (repo), `EndBeforeSending`, `ConfirmMerge` |
| `gate` | waiting for the town's reconcile gate | `ClaimRepair`, `LeaveGateQueue` |
| `picked` | has the gate, has chosen inventory or repair | `RecordRun`, `PassFails` |
| `recorded` | the dispatch record is durable | `Send`, `CancelBeforeSend` |
| `sent` | the bot is working | `Answer`, `LoseAnswer` |
| `observed` | a pass has its answer and still holds the gate | `CommitObservation`, `ObservationUnsaved` |
| `applying` | the observation is being applied | `ApplyInventory`, `ImportIssueEvidence`, `EndPass` |
| `finished` | the final commit of `execute` | `FinalCommit`, `FinalUnsaved` |
| `leaving` | `releaseWorker` | `Leave` |

Beside these, `RunPanics` is the `recover` of `execute`: the run of any role may panic at
any place in the constant `Panics`, and goes to `finished` as a failure, with the gate
released and its open record as it was.

`lost` is a history variable: the bots whose last work that may write ended
with an unknown outcome and has not been authorized since. No guard reads it.
`NoBlindResend` is refinement: `Attempt` maps each bot to `none`, `open`,
`unknown` or `resent`, and the module `Attempts` allows no step into `resent`.

### `PullRequest`

`gh` is GitHub's pull request, which people change behind Town's back. `task`
and `intent` are Town's durable record of it; `review`, `repair`, `pass` and
`simplifier` are the runs of the four houses, each a record of how far it is
and of *the copies it works from*.

| Part | Actions | Code |
| --- | --- | --- |
| people, GitHub | `People`, `ConditionsChange`, `OwnershipRecorded` | GitHub; `MergeGate.Allows`; `SyncIssues` |
| intake | `AssessStarts`, `AssessEnds`, `AssessCanceled`, `Decide` | `applySimplification`, `decideTask` |
| operator, process | `Retry`, `Crash` | `resetTaskForRetry`, `Open` |
| review | `ReviewStarts` ... `ReviewCommits` | `certify`, `execute`'s final commit, `settleReview`, `failPullAttempt` |
| merge | `MergeStarts` ... `MergeBlocks` | `mergeReady` |
| fix round | `RepairStarts` ... `RepairFails` | `repair`, `confirmPush`, `confirmRepair`, `supersedeRepair`, `requeue` |
| inventory | `PassStarts` ... `PassFinishesClose` | `Reconcile`, `claimDeclinedPulls`, `closeRetiredPulls`, `finalizeClosedPull` |

`ReconciledTask` is `Reconcile` for one pull request, composed of one operator
per branch of the code, in the code's order: the pull request left the branch,
the observation is stale, it arrived, a stale decline is dropped, it came back
to the branch, ownership, a new revision, a landed repair, and last what GitHub
says of it (merged, closed, reopened, drafted). Ownership may be recorded late or
never, so a run with `FromTown = TRUE` contains a contributor's pull request.

`clear` stands for what the gate asks of GitHub besides the head, an open pull request and
Town's branch (`github.go:139-144`: mergeable, a clean merge state, checks, the review
decision, squashing, no merge queue, no lock, the base of the certified revision). It may
fail from the start, fail later and hold again at any moment (`ConditionsChange`); while it
fails the gate refuses, which leaves the pull request `ready` as long as it lasts.

Abstractions: an edit of the text stands for every change that costs a review, the base
commit included, and a draft for a locked conversation, which the inventory records alike;
retry delays, snoozes, poll intervals and the instant of a merge wait are left out, so what
may run later may run at once, which for safety is more than the code does and for
`PullSettles` is part of the fairness (section 4); findings are minor or blocking against the town's close
severity; GitHub shows a push at once; the Mayor's judgment and a person's
decision are one action; the settings Simplifier reads may change at any moment
(`Modes`), others are constants of a run. The legacy `Retired` flag is left out;
the archive is `StateFile`.

### `Issues` and `IssueBot`

`Issues` has the durable `task`, `req` (submissions) and `owned` (pull requests
and what they implement), GitHub's `gh` and `pulls`, and one variable per actor
between its read and its write: `pub` (`PublishRequest`, `CreateIssue`,
`FindRequest`, `ConfirmRequest`: `requests.go`), `pass` (`Reconcile`, then
`closeDeclinedProposals` with its claim, close and finalization, then
`requeueAfterClose`, the fresh start after a closed pull request), `sync` (`SyncIssues` and the
import after a run), `sim`, `jud` and `run` (the runs of Simplifier, Mayor and
Issue Bot). `Acceptable` is the part of `validate()` a task can violate; an
`Update` it refuses sets `refused`, which `TypeOK` forbids.

`IssueBot` has the other side, for several instances that share only GitHub:
the claim election (`claim.go`: read the comments, post, read again, yield to a
lower live one), the lease, the job on disk and the copy the run works on, the
charged attempt, push, recheck and creation (`run.go`, `git.go`, `linked.go`),
`Requeue` and the recovery at `scan`. The two modules meet at the job's status and
pull request, which `Issues` lets Issue Bot's runs choose among those that
`IssueBot` reaches.

### The parts of Town's service (`MCTown`, `MCRecords`)

| Module | State | Actions and their code |
| --- | --- | --- |
| `Funnels` | `src` (GitHub and Slack), the tasks, cursors and intents in `state.json`, the calls in progress | a discovery pass funnel by funnel (`reconcileFunnels`, `ReconcileFunnelPage`); `ApplySourceLifecycle` and `ReconcileLifecycle` from snapshot over intent and write to the saved result |
| `Attention` | the notices of each saved state, the watcher's place, what a power loss may bring back | `queueAttention` inside every commit, `watchAttention`'s claim, command and end |
| `StateFile` | memory, archive index, and for each file the contents a power loss may leave | write, rename, sync; `PrepareHistory`, `ArchiveCompleted` (objects, index, removal), `Open` and `loadHistory` |
| `QuietHours` | schedule, zone, instant | `quietSpans`, `covered`, `quietStateIn` and `wallClockAfter`, as operators; the clock is the only action |
| `Budget` | ledger, phases of the runs | `dispatchEligibility`, `claimRepair`, `releaseRepair`, `chargeBudget`, `SetCapacity` |
| `Storage` | artifacts, a worktree's files and private branch, receipts, the operator's view, a cleanup, requests a bot has not got to | `StorageInventory`, `beginStorage`, `CleanupStorage` and its report, `botapi/storage.go`'s removal, Town's own removals as separate steps: check, `os.Remove` or `git worktree remove`, `git update-ref -d` |
| `Inventory` | GitHub's items by last update, the bot's clock and GitHub's, the scan, the cursor | `snapshotSince` page by page, `inventoryCursor`, the commit of an inventory |
| `Harness` | the catalogue in memory and on disk, each version's lock and installation, a launch of each run, Muse's derived directory | `Refresh`, `install` (lock, check, download, unpack, marker, rename), `launch`, `museMirror`, a bot that dies in between |
| `Settings` | catalogue, the town's `Config`, what each house captured, runs, a runtime that was discovered | `ApplySettings` (town and bot), `SetExecution`, discovery and pinning, `Delete`, `add`, `executionHold`, `execute`'s capture, `botAgent`, `beginManaged`, a restart with or without a config file |

### The bots and their runs (`MCBots`)

| Module | State | Actions and their code |
| --- | --- | --- |
| `ReleaseBot` | `state.json`'s job (target, tries, phase, plan), the process's working copy, tags and their publications | `Open`, watch, `resume`, attempt, prepare, validate, publish, verify, notify; every save may fail and every step may be canceled |
| `FinderBot` | scan and findings on disk and in memory, filed issues, requests GitHub has not shown yet | Bug and Feature Bot's `reconcile`, `step`, batches of reviews, `create`, publication of a dry run's finding; `kind` chooses between the two programs |
| `ReviewBot` | a job per revision and mode, posts in flight | `reconcile`, `list`, `existing`, review, check, post, stale revisions, retries, a lost state file |
| `BranchHealth` | branch, checks, attempts spent on the head that is remembered; per revision, for the properties, the agents it started and was granted | `health.go`'s reads, the attempt that is saved before the agent starts, commit, push and what Town records |
| `SimplifierBot` | proposals on disk and in memory | scan, posting, creation, reconciling what was posting |
| `BotRun` | the call, the frames on their way, the bot's run and its writer | `Client.Run`, `cancelRun`, the watchdog, `serveRun`, `frameWriter`, shutdown, a gateway |
| `ManagedRun` | each run's record and evidence on disk, the dispatch, Mjolnir's sessions | `beginManaged`, `Prepare`, `Prompt`, `Collect`, export, `ImportRepair`, `managedDispatch.finish`, `Destroy` |
| `Guide` | turns, the answer in progress, confirmations, the bot as others steer it | `AskGuide`, `CancelGuide`, `ConfirmGuide`, `runGuide`, `answerGuide`, `Open` |

A commit is a number in these modules, a digest the content it stands for, a
finding or proposal its request identifier; agents do anything they can do to the
state that is modelled; timers may fire whenever they are set. What each module
leaves out is in its header.

## 3. Runs, bounds and what they show

Each run's properties, expectation and one-sentence result are in
`PROJECT.json`. Every property of a passing run has a mutant there: a plausible
bug in a mapped definition under which TLC finds that property violated.

| Run | Instance | Why it is enough to be interesting |
| --- | --- | --- |
| `DispatchRecovery` | 1 town, Issue Bot and repo bot, limit 1 or 2, any two of 1 crash and 2 operator commands, at the start perhaps an arrival in the Town Hall | an agent and a branch repair compete for the last slot while the limit is lowered under them; a cleanup overlaps a start or the durable issue retry; with two commands a hold can be cleared and made again, with one the crash falls between any two steps. Two constraints keep it small: the Mayor's own house rests (`HallRests`), and an arrival is decided before any other command (`Within`) |
| `DispatchLives` | Review Bot or Issue Bot and the repo bot, failing final commits and commits under the gate, passes that panic before their record or after it is settled, and one of a crash, a shutdown, a stop, the town's deletion and an operator's retry of an issue, fair | every way a run can end badly, while a merge confirmation and the repo bot's pass contend for the gate and for one run record; a stop's second step and the cancellations of a deletion and a retry come at any step of a run. Two constraints keep it small: one agent is enabled (`OneAgent`); with Issue Bot the one upset is the retry, and a save that fails, with the shutdown and the restart it forces, comes before the upset (`OneUpset`) |
| `PullMerge` | both Simplifier modes, policy `all`, quiet hours, cancellations, GitHub's conditions of a merge coming and going without bound, 2 revisions, 1 event, 1 lost or refused call | one event is enough to make any copy a house holds stale, once between any two reads; while ownership is not recorded the pull request is a contributor's to Town |
| `PullRepair` | policy `manual`, 3 revisions, 1 event, 1 crash, 1 retry | three revisions are the original, the repair and a contributor's push; crash and retry fall anywhere |
| `PullSettles` | policy `all`, both modes, GitHub's conditions of a merge coming and going without bound, 2 revisions, 1 fault, 1 crash, fair | every verdict at every review, with one call and one process failing, and a gate that refuses for ever, for a while or again and again |
| `Issues` | 2 numbers: a submission of an operator and an issue of Simplifier Bot, 1 pull request, 2 events, 1 fault, fair | the inventory can meet the submission's issue first; two events close and reopen, or lock and unlock; the fault is a crash, a lost answer or a failed run at any step |
| `IssueClaims` | 2 instances, 1 attempt each, 1 fault, 1 event | the election of two, with the one fault or the expiry of a lease at any of its steps; the attempt limit is reached at once |
| `Town` | six parts: attention, quiet hours, budget, storage, inventory, harnesses | below |
| `Records` | three parts: settings, funnels, archive | below |
| `Bots` | eight parts | below |
| `PullRetired`, `IssuesAppeal` | the smallest instance that shows the counterexample | section 6 |

In `Town`, `Records` and `Bots` a behaviour belongs to one part; the others rest. They share
one run because nothing of one is read by another, and so each part's state space
is explored in full.

| Part | Bounds | Why they are enough |
| --- | --- | --- |
| attention | 2 notices, 3 needs, 3 lost commits, failed syncs or restarts | a need ends and comes back while its claim is in doubt, beside another notice; three losses are the claim, the end and a restart |
| budget | 2 houses and the repo bot, budget 1, limit 2, 2 periods, 6 runs | all workers are admitted under an unspent budget and charged in the next period |
| quiet hours | days of 3 minutes, weeks of 2 days, two windows of any shape, offsets and shifts to both sides, the change at any minute | every window wraps, touches, overlaps and contains another; the looked-at instants are a whole week on each side of the change |
| funnels | one item per provider, 2 callers, 2 calls, 1 edit, 1 fault | two callers of one intent, or one caller and the edit that gives the next revision |
| archive | an issue, its pull request and merge commit; 2 retention periods, 2 events, 1 fault | a task is archived, comes back and is archived again, with the power lost at any step |
| storage | a bot's transcript and a worktree, or one transcript of Town's own (`OwnAlone`), content 2, 2 cleanups, 2 faults | a file is rewritten after it was selected; the request of the first cleanup is carried out during the second; people commit or leave files before, between and after the check and the two commands that remove a worktree |
| inventory | an issue and a pull request, pages of one, clocks apart by 1 both ways, 3 changes, 1 failure | items change places between two pages and between the lists; a failure leaves the cursor behind |
| harnesses | 2 runs, 2 refreshers, 2 publications of which the second lacks its command, 3 launches, 1 fault | two runs want one version, or one each; an unusable archive fails one while the other waits for the lock; a run dies with it |
| settings | 2 houses, one of a duty that Mjolnir supports, 2 harnesses of which one leaves the registry, 1 profile, 2 runtimes, 2 edits, 2 runs, 1 restart | an edit before and one after a dispatch, a deletion and a restoration around a run, a profile that can no longer be prepared beside one that can |
| release | 2 attempts, 3 commits, 4 tags, 4 runs, 2 upsets | two publications of one job, and a run for each of the two attempts, the receipt and the next release |
| finder | 2 findings, 2 attempts, 2 reviews of a finding, 2 commits, 1 foreign issue, 2 faults, 2 polls, both programs | the second finding is reviewed while the first one's issue is not shown yet; two faults lose an answer and the save after it |
| review | 2 revisions, 2 tries, 2 moves, 1 comment, 2 faults, 3 polls | away and back to a revision; a poll posts, one loses it, one must find it |
| run | 3 events or heartbeats, 2 network faults | frames of every kind out of order; a lost connection and a shutdown in one run |
| health | 2 repairs, 3 commits, 2 reports of checks, 2 moves of people or faults or one of each, 3 observations, 6 with two moves (`FewUpsets`) | both attempts of a red revision, away to another red one that is repaired, back to the first, its new budget spent and a further attempt refused |
| simplifier | 3 proposals, 3 commits, 5 scans, 3 faults | a proposal left posting, one pending and one filed in the same state |
| managed | 3 sessions, 2 per dispatch, 1 commit of work, 1 outsider, 2 faults | a dispatch of two sessions and the one that must not start after it |
| guide | 2 questions, 2 people, a conversation of 1 turn, 3 changes of the bot, 1 restart | a turn leaves the conversation while its request is repeated; two people confirm one proposal |

All bounds are constants, named in the modules and given values in the
configurations. Towns interact only
through the worker limit, so one town is enough for everything but the limit, and
there two bots of one town compete as those of two towns would; the proofs cover
any number. Deadlock is not checked: when a bound is used up, or a pull request
has come to its end, the instance really may stop.

Two pairs of questions are kept apart on purpose. `RepairsAreCounted` is checked
and proved under the merge policy `manual`: with automatic merges a merge's intent may
take the place of a repair's that landed, and the round is lost (section 6). And
`CommitsAreValid` is checked without cancellations, which violate it (section 6).

## 4. Fairness

`Dispatch!FairSpec`: each run's goroutine keeps stepping (weak fairness of
`RunStep`), because a bot call ends at its deadline at the latest and every wait
inside a run selects on its context (a step counts as progress when the run gets to
another place: importing Issue Bot's records, which may be repeated, does not); a stop's
second step is in the same function; after a fatal error `Run` returns, the process exits and is started
again by its supervisor (systemd, Kubernetes or a person). Nothing is assumed of
the scheduler, the operator or the clock: a bot need never be dispatched, and a
repair may wait for ever.

`PullRequest!FairSpec`: each house keeps working (`ReviewStep`, `RepairStep`,
`PassStep`), intake is assessed, and Issue Bot's receipt reaches Town. This is
the scheduler's polling: each house is dispatched again within its poll
interval. Agents may fail every time; faults and crashes are bounded, since
without a bound on GitHub's refusals nothing could be promised. People, the
Mayor and the operator owe nothing. Nor does GitHub owe that its conditions of a merge
ever hold: `PullSettles` says that a pull request comes to rest or stays `ready`, and
promises rest only if the conditions hold from some moment on.

`Issues!FairSpec`: the repository pass keeps stepping and comes to the declines
again and again (strong fairness of `PassStep` and `StartClosing`, because a
crash or the other actors disable each step time and again while a later pass
reaches it), and an import of Issue Bot's jobs that has begun ends (weak fairness
of `SyncIssues`). `DeclineIsCarriedOut` is then that a decline nobody contests
reaches GitHub.

The other modules are checked for safety only.

## 5. Proofs

| Theorem | States |
| --- | --- |
| `DispatchProofs!TypeCorrect` | `Spec => []TypeOK` |
| `DispatchProofs!LostWorkIsHeld` | `Spec => []LostWorkHeld`, if the commit under the gate does not fail and no run panics while its record is open |
| `DispatchProofs!RepoRunIsOwned` | `Spec => []RepoRunHasHolder`, whichever commits fail, if no run panics while its record is open |
| `DispatchProofs!DispatchImplementsAttempts` | `Spec => NoBlindResend`: every step of `Dispatch` is a step of `Attempts` or none, under the hypotheses of `LostWorkIsHeld` |
| `DispatchProofs!SlotsStayWithinLimit` | `Spec => SlotsRespectLimit`, if no run panics |
| `DispatchProofs!BusyStatusIsReal` | `Spec => []BusyStatusIsTrue` |
| `DispatchProofs!CleanupHasTheTown` | `Spec => []CleanupAlone` |
| `DispatchProofs!RecordsFollowRuns` | `Spec => []DispatchInv`, under the hypotheses of `LostWorkIsHeld` |
| `PullProofs!TypeCorrect` | `Spec => []TypeOK` |
| `PullProofs!ClosesOwn` | `Spec => []ClosesOnlyItsOwn` |
| `PullProofs!MergesCertified` | `Spec => []MergedHeadCertified` |
| `PullProofs!RecordInvariant` | `Spec => []RecordsHold`, the inductive invariant of the record |
| `PullProofs!HeadNeverGoesBack` | `Spec => HeadNeverRegresses` |
| `PullProofs!CommitsHold` | `Spec => []CommitsAreValid`, if `~Cancels` |
| `PullProofs!RepairsCount` | `Spec => []RepairsAreCounted`, if `MergePolicy = "manual"` and `MaxCycles > 1` |
| `PullProofs!IntakeAlwaysDecides` | `Spec => IntakeDecides` |
| `IssuesProofs!IssuesInvariant` | `Spec => []IssuesInv` |
| `IssuesProofs!IssuesTyped`, `IssueWorkIsBacked` | `Spec => []TypeOK`, `Spec => []WorkIsBacked` |
| `IssuesProofs!IssueDecisionsHold` | `Spec => DecisionsHold` |
| `IssueBotProofs!IssueBotInvariant` | `Spec => []BotInv` |
| `IssueBotProofs!IssueBotTyped`, `IssueBotClaimsHold` | `Spec => []TypeOK`, `Spec => []ClaimsHold` |
| `IssueBotProofs!IssueBotRecordsAreTrue` | `Spec => []RecordsAreTrue` |
| `TownProofs!BudgetIsTyped` | `BudgetSpec => []BudgetTypeOK` |
| `TownProofs!OvershootIsBounded` | `BudgetSpec => []OvershootBounded` |
| `TownProofs!AttentionIsKept` | `AttentionSpec => []AttentionHolds` |
| `TownProofs!NoChangeIsLost` | `InvSpec => []UnseenIsAhead` |
| `TownProofs!InventoryNeverOlder` | `InvSpec => NeverOlder`, a part of `StepsHold` |
| `TownProofs!CleanupIsReported` | `StorageSpec => []CleanupHolds`, if no gateway stands before a bot |
| `TownProofs!RemovalsAsSelected`, `CleanupsOnlyFinished` | `StorageSpec => []RemovedAsSelected`, `StorageSpec => FinishedOnly` (a part of `StepsHold`), gateways included |
| `TownProofs!QuietIsShown` | `QuietSpec => []QuietHolds` |
| `TownProofs!HarnessesInstallWhole` | `HarnessSpec => []HarnessHolds` |
| `TownProofs!TownStepsHold` | `TownSpec => StepsHold`: the composed specification of `MCTown` |
| `RecordProofs!NothingIsForgotten` | `StateSpec => []NothingForgotten` |
| `RecordProofs!FunnelsAreHeld` | `FunnelSpec => []FunnelsHold` |
| `RecordProofs!SettingsAreKept` | `SettingsSpec => []SettingsHold` |
| `BotProofs!RepairsStayInBudget`, `HealthIsTyped` | `HealthSpec => []AttemptsAreSpent`, `HealthSpec => []HealthTypeOK` |
| `BotProofs!RepairsKeepCommits` | `HealthSpec => NothingOverwritten`, a part of `StepsHold` |
| `BotProofs!ProposalsAreFiledOnce`, `ScansAreTyped` | `SimplifierSpec => []FiledOnce`, `SimplifierSpec => []SimplifierTypeOK` |
| `BotProofs!RunsAnswerTruly` | `RunSpec => []RunHolds` |
| `BotProofs!SessionsAreEvidenced` | `ManagedSpec => []ManagedHolds` |
| `BotProofs!ReviewIsSentOnce` | `ReviewSpec => []ReviewHolds` |
| `BotProofs!QuestionsAreAnsweredOnce`, `AnswersAreFinal` | `GuideSpec => []GuideHolds`, `GuideSpec => [][AnswersStay]_guide` |
| `JobProofs!ReleasesAreMadeOnce`, `RecordedReleasesAreReal` | `ReleaseSpec => []ReleaseHolds`, `ReleaseSpec => [][RecordsReal]_releasebot` |
| `JobProofs!FindingsAreFiledOnce`, `DecisionsAreKept` | `FinderSpec => []FinderHolds`, `FinderSpec => [][KeepsDecisions]_finderbot` |
| `JobProofs!BotsAreDoneOnce`, `BotStepsHold` | `BotsSpec => []DoneOnce`, `BotsSpec => StepsHold`: the composed specification of `MCBots` |

The constants are arbitrary: any finite set of towns and agent roles, any tasks,
limits and bounds, with the assumptions the modules name (`ConstantsAssumption`,
`PullConstants`, `IssuesAssumption`, `IssueConstants`, `BudgetConstants`, `HealthConstants`,
`SimplifierConstants`, `InventoryConstants`, `FunnelConstants`, `HarnessConstants`,
`SettingsConstants`, `RunConstants`, `ManagedConstants`, `QuietConstants`, `ReviewConstants`,
`GuideConstants`, `ReleaseConstants`, `FinderConstants`): types, that special
values are none of the ordinary ones, and that clocks are apart by less than the
overlap two inventories have (`incremental.go` says why it is that long). `Attention`,
`Storage` and `StateFile` need none. The finite bounds of the checked instances do not appear
in the proofs. An inductive invariant was checked by TLC, where its conjuncts are
finite, before it was proved.

### Dispatch

`LostWorkHeld` is not inductive: that a failed or canceled run leaves its record
behind depends on where the run was. `DispatchInv` adds what the place of a run
says about the record:

- `RunningPlaces`: a goroutine exists exactly for the bots in `s.running`;
- `ModePlaces`: which requests a run may carry at each place;
- `GateHolder`: the gate's holder is the one pass between picking and applying;
- `AgentRecord`: before an agent's dispatch is recorded nothing is open for that
  bot, and from then until the final commit the record names exactly its task
  and no hold stands beside it;
- `PassRecord`: the same for the repo worker's record, which belongs to
  whichever pass holds the gate;
- `DownIsQuiet`: nothing runs and no gate is held while the process is down.

The step proof has one lemma per conjunct and, in it, one step per action that
can disturb it. Frame lemmas (`RunStepLocal` and its neighbours) state once that
a run touches only itself, its town's repo worker and the gate.

`RepoRunIsOwned` needs less, and no assumption on commits: one under the gate that fails ends
the service, and while it has not failed (`HolderInv`: `fatal`, or a repo record has the
holder of the gate or the pass that wrote it behind it) no run takes the record from
another. No assumption can be dropped (section 6 has the counterexamples): `"gate" \notin Faults` for
`LostWorkIsHeld`; for it, the refinement and `RepoRunIsOwned` that `Panics` has none of the
places at which a record is open (`PanicsUnrecorded`); and `Panics = {}` for the slots. Types,
statuses and cleanups are proved for panics anywhere. The refinement uses the same invariant; the slots
need only types, `RunningPlaces` and that a town marked as repairing has its repo bot
running.

`BusyStatusIsReal` and `CleanupHasTheTown` trust no commit. `BusyStatusIsTrue` becomes inductive as
`BusyPlaces`: while no save has failed, a status is busy only between the start
commit and the final one, so the goroutine that leaves, or one just reserved, never
shows as working. `CleanupAlone` is inductive beside `RunningPlaces`: a run changes
the records of its own town only, a running bot keeps its town from being reserved,
and every command that could wake a bot of a reserved town is refused by the store.

### Pull requests

The two safety properties of `PullRequest` are statements about the moment of
one call, so `PullInv` follows what they need through every copy:

- `TaskInv`: a clean audit on the record names a certified head; `external` is
  false only for a pull request Town owns, and only those are ever in `closing`
  or `fixes` (`Fits`);
- `ReviewInv`: the audit a gate works with, and from the gate to the call the
  head it allowed, are certified, because both come from that record;
- `PassInv`: between the decision to close and the call the pull request is
  Town's;
- `IntentInv`, `RepairInv`: a repair intent names a commit, in the record and in
  the run that pushes it;
- `GitHubInv`: a merge by Town left a certified head, which nothing moves any
  more.

The record is changed in many places but always through the same operators, so
the proof has one lemma per operator: it `Keeps` the record, that is, it invents
neither a clean audit nor, on a contributor's pull request, work of Town's own.
Only `Ownership` changes `external`, and only `SettleReview` certifies; they have
lemmas of their own. The lemmas compose along `ReconciledTask`, and the step
proof has one case per action.

The other properties need to know what the record may look like, whatever the
policy. `RecordInv` has

- `Lawful`: which stages, houses and decisions go together, the shape `validate()`
  accepts;
- `Assessing`, `Merging`, `Reviewing`, `Repairing`: what stays true of the record
  while a house works on it, although inventories change it underneath;
- `Landing`: while the push of a saved repair may be on GitHub, nothing puts the
  pull request before the Mayor. An inventory that was read before the push is the
  one exception (`Racing`), and the invariant says how it ends.

`HeadInv` orders the revisions: every push goes above the head it was made for, and
Town never knows a head above GitHub's unless the pull request merged, which is why
`HeadNeverRegresses` makes that exception. `CommitsAreValid` follows from both, without
cancellations (section 6).

`RoundsInv` follows one repair from its intent to its round: the intent is saved
before the push, the push is the only one until it is resolved, and the round is
counted where the intent becomes `confirmed`, by the answer, by a resumed push or by
the inventory, whichever comes first. It holds because nothing else is saved in the
intent's place, which automatic merging violates, and because `MaxCycles > 1` stops
the second round (section 6 has a counterexample to each).

`IntakeDecides` needs `AdmitInv`: without ownership or an admission the record `Waits`
in intake, before the Mayor or merged, and off the branch only in intake, because that is
all the operators of `ReconciledTask` leave where it is.

### Issues and Issue Bot

`IssuesInv` ties a task to everything that stands behind it. `TasksFit` and
`WorkIsHoused` are the shape of the record (what Issue Bot was given stays its own);
`RequestsFit`, `PullsFit` and `ClaimFits` say which submission, pull request or claim
it stands on; `PassFits`, `ClosesFit` and `SeenFits` what the inventory under way has
read and may still decide by, because Town closes an issue several steps after it read
it; `Requeues`, `ClosedRestarts`, `ImplementedHasPull`, `SettledFits` and `IntakeFits`
what a close, a restart or a settled decision leaves. `WorkIsBacked` and
`DecisionsHold` are then read off. Two properties were strengthened on the way, so
that they say of the task what the invariant says of the copies.

`BotInv` has per instance `JobFits` (the run's copy has the saved claim and tries at
least as often as is saved), `Leads` (the comment of the claim it works under stands)
and `EndTold` (the end of a claim is told or owed). Its core is `Turns`. Leases may
overlap, because an older claim that is taken up again is lower than a later one
already confirmed. But before an instance pushes and before it creates it reads the
claims again and yields to a lower one, so of two instances whose agents are done the
one on its way to publish has the lower claim. With `Sole`, an instance that creates
knows every earlier pull request as superseded, this gives one pull request per issue
for any number of instances.

### Budget, attention, and the watched branch

`BudgetInv` counts what is not charged yet: the agents of a period are at most the
charged attempts and the runs of that period still to be charged, a branch repair
that gave its slot back included; an agent starts only below the ceiling and in a free
slot, which gives the bound.

For the branch, the property counts for every revision apart: the agents it started since its
checks were last seen not to fail, and `MaxRepairs` for each time the branch came to it.
Repo Bot remembers one revision only, so more cannot be promised (section 6). `AttemptsSaved`
says that a run at work holds the count the file has. `GrantsHold` relates the file to the
two counts: of the remembered revision at least one grant is left, less what the file says was spent,
and a revision the branch or a run is at but the file does not remember (`Unspent`) has a whole
grant left, because it was forgotten only after the branch left it or after it was seen not to
fail. `ClosedPast` says that what a
commit is made of is made of its commits too, so that a push which fast-forwards keeps
every commit of the branch.

`ScanInv` says that a request GitHub has shown or accepted is known to the file and to the
memory (`Honest`), and that a creation is about to be sent only for a proposal GitHub has
no request of, after the file came to say `posting` (`SentAreKnown`).

`AttentionInv` holds of every file a power loss may bring back, not only of the
state in memory: what is remembered as seen is queued in that file or was claimed
by it, and the commands run, with what that file still has queued and the command
about to run, are no more than the times the need arose. The same argument needs
the claims to be part of the saved state (`taken`): two files a power loss chooses
from may disagree about who claimed what.

### Quiet hours

`QuietIsShown` is about arithmetic, since only the clock moves: for a day and a week of any
length, any schedule and any zone, at any minute. `WindowCovers` and `CoveredByDay` say that
a minute of the week is in a span exactly when a window is quiet at that reading, wrapped
spans included: at most the window of this day and the one of the day before reach it,
which is what the products and remainders of the first lemmas are for. `ReachIs` is about
the walk from span to span, which is defined by recursion on itself. No theorem of the
library can be used to show that such a function exists, because those take an operator as a
parameter; both its existence and what it returns are proved from the least
counterexample instead (`SmallestOf`, from `WFMin`), as each step of the walk goes forward by
at least a minute and stays within two weeks. `EndIsExact` and `NextIsExact` carry the result
from the week to the clock when the zone does not change, and `ShownAhead` goes through the
change of a zone: the reading that is skipped, the one that comes twice and the others.

### Inventory, storage, state file, funnels

While lists are read, a change may be older than what the next inventory will reach
back to (`OldNews`). `ScanHolds` says that this scan has then read it, reads it in
detail, or has it on a page it has still to come to (`ToCome`): the lists are ordered by
the last change, so an item that changes only moves to where the scan has not been. A
failed inventory leaves the cursor where it was, and with that `UnseenIsAhead` is
inductive.

For a cleanup, `ReportHolds` follows the one request whose answer may be lost. Requests
of earlier cleanups may still be with the bot, and remove what they name, but a report
of "retained" is written only when nothing of this cleanup's own request was removed or
will be (`NothingAsked`), and every removal compares the content that was selected.
`ReservationHolds` keeps runs out of the town. `OwnHolds` is about Town's own removals, one
artifact at a time: what is left to do is not removed yet, a transcript that was checked stays
as it is because nobody writes it without a run, and the branch step is only reached for a
worktree that is gone; what people commit between the check and the removal then stays on the
branch, since `update-ref` is given the commit that was checked. A gateway that answers for the bot breaks
the first, so `CleanupIsReported` assumes there is none (section 6 has the
counterexample); `RemovedAsSelected` does not need that.

The state file's proof is about every pair of contents a power loss may leave. `Sound` is
that a state together with any such index accounts for everything that was acknowledged
and counts what the index has for it; each of the pass's places has its own clause of
`PassHolds` (the objects are there before the index names them, the index before a task
is removed). A write adds a content, a sync removes all others, and `Sound` is kept by
both.

A lifecycle intent is written at most once because of those with one intent at most one
call is `Writing`, and only while the intent was saved and never sent (`IntentsHold`).
The reply is guarded by something else, the reaction: who added it `Replying`, and a
reaction is never taken away. `RevsBounded` is only there for the types: a call that has
not written yet is counted as the revision it may still make.

### Harnesses and settings

What is installed is whole because of one rename. `Locking` gives each version's lock to
the one run that installs it, `Staged` says that nothing is installed while it does and
that what it renames is the archive with its marker, so no launch ever sees a part.
`Counted` keeps account of downloads: each was wasted, is installed, or is being unpacked
by the holder of the lock, which bounds them. `Current` orders memory, file and registry,
with at most one refresh under way.

For settings, `SettingsInv` is the conjunction that is checked, with what a run, a house and
a discovery may be, and one count: a town comes back only by a command or a restart. The
work is in lemmas about `Prepared` and `TownPrepared`: without a request a preparation
changes at most a version that was missing (`PinnedOnly`), and never a placement or a
pinned runtime (`TownPreparedIs`), so what `executionHold` saw is what the dispatch
captures.

### Runs over the network and on Mjolnir

`RunInv` follows the stream from both ends. `FramesHold` numbers the frames on their way
between what the client expects next and what the bot has written, with no gap while the
connection is up, and lets a terminal frame be only the last. `RunPlaces` and `RunCauses`
say how far each end can be, given the other, and which cause may have cut the handler
short. What was relayed is then what was read (`Relayed`), and what an answer says of the
bot (`Answered`) is that its frame was there. `Undisturbed` adds that without a fault or a
cancel the stream stands until that frame is read, so no such run is left to be reconciled.

`ManagedInv` has two halves. `Dispatches` counts: a dispatch has the number of the records
there were before it, only sessions of the last dispatch are alive, and what opens the next
one is that every record came to an end, which `FreshRuns` says is a session that is gone. The
other half is about one run: `AtWork` and `Gathered` say what each step finds on disk and
in the session after what was read before it. The diff is read again after the transcript
and the transcript after the diff, so between the last two readings nothing moved, unless
somebody else moved it later (`late`), and then the session is not what was kept. `Proven` is
`EvidenceIsTheWork` of a run whose turn is over; `CheckoutIsEvidenced` follows where the
import reads the bundle that is recorded with its evidence.

### The bots' durable jobs

`ReviewIsSentOnce` rests on what a step of Review Bot knows. `OnItsWay` says that a review
GitHub has but does not show was the last one written, is the only one in that state,
is the first of its revision, and is a post the file and the memory both know of: so
nothing else is posted until it shows, because a post of unknown outcome blocks the pull
request (`ListPulls`). `ReviewWorks` says what a run knows from its look at the reviews to
its post: nothing is on its way and the revision has no review. A crash or a failed save
may come anywhere. So may the loss of the state file, what it knew being found on GitHub
by `existing`; except, and this the model assumes, while a review is on its way that GitHub
does not show yet, of which then nobody would know.

Release Bot's invariant is about one file and its copy. `Fits` says what a state file may
claim of the branch, the runs, the announcements, the attempts that were spent and the
plans that may have been published; it is stated once, of a file, because a failed
save leaves the old file, the new one or what the failure made of it, and each has to fit.
`ReleaserHolds` says that the copy is the file (before the first save, what `Bootstrapped`
made), and how far the job is at each place: from `attempt` on, nothing complete
was there to be found when this run looked, unless its verification was wrong.
That no agent runs over a complete publication is then `may \subseteq {candidate, plan}`:
whatever may have been published is among the two plans `resume` verifies.

For the finders, `FinderInv` says the same of the file and the copy, `StateHolds`, and
that the file is never ahead of the copy in what it decided (`Behind`). `FiledHolds`
keeps what was filed and what is still in flight together: a request has one issue, and
what is in flight has none, is the only one of its job, and was compared with every
issue of that job. `BotHolds` carries what a run has read to the post: from the
reviews on nothing of the scan is left posting, and at the post the file says
`posting`, GitHub has nothing of this request, and the read has every issue there is.
The two programs share the invariant; publication, which only Feature Bot has, is the
other value of `job`.

`GuideInv` counts a question by the place it was asked at: it was composed for a turn number and
is taken only while that number is the next (`AsksHold`), so a repeated request is either found among
the turns or comes too late. `ActsHold` says that a proposal which was carried out says
so for as long as its turn is kept. `Becomes` is what any commit may make of a turn, and
gives `AnswersStay`.

### The composed runs

In `TownSpec` and `BotsSpec` a behaviour belongs to one part and the others stay where they
are, so a step of the whole is a step of one part's specification or leaves it as it is
(`TownIsTheirs`, `BotsAreTheirs`), whichever initial states the resting parts
have. `DoneOnce` and both `StepsHold`, which collect what several parts promise, follow from
the theorems of the parts.

### Only model-checked

Every invariant and every action property of a passing run is the subject of a theorem, some of
them under a hypothesis the table names (a commit under the gate, panics, a cancellation, a
gateway) or for the merge policy the run has.
What is left to TLC is liveness under fairness, which is beyond the prover: `RunSettles` and
`CanceledRunEnds` of a run, `PullSettles` of a pull request and `DeclineIsCarriedOut` of a
declined issue, each on the instance of section 3. The recorded violations (section 6) are runs of TLC, too.

## 6. Where the code and its documents disagree

`PROJECT.json` lists these as findings, with the text they contradict; two have a
run that shows the violation, the others name the formula and the constants that
reproduce it. The formulas that no run checks are kept in the modules for that.

- `PullRetired`: a failure of a run on the old revision is charged to the new
  one, whose first own failure then retires it.
- `IssuesAppeal` (`ReopenIsAppeal`): an issue that was locked while Town closed it
  on a decline, and that people unlock and reopen, is closed a second time.
- `RetryResolvesHold` (`DispatchRecovery` with `Agents = {review, hall}`):
  `retry --task` leaves a hold in place when it belongs to another worker than that
  of the house the task is in now, and nothing else clears it.
- `LostWorkHeld` (`DispatchRecovery` with `Agents = {review}` and
  `Faults = {"gate"}`): if the commit that settles a repair's dispatch fails, a
  waiting merge confirmation may overwrite the open record before the service
  stops; the restart then forgets the repair.
- A panic while a run's record is open, between its save and the commit that settles it, is
  recovered as an ordinary failure (`supervisor.go:379-403`). An agent's record is then cleared
  without a hold: `LostWorkHeld` and `NoBlindResend` fail in `DispatchRecovery` with
  `Panics = {"sent"}`. A repo pass leaves its record set with the gate free and the service
  running, so that a merge confirmation may record over it and nothing else settles it until
  a restart: `RepoRunHasHolder` and `RunSettles` fail in `DispatchLives` with `"recorded"` in
  `Panics`.
- `CommitsAreValid` (`PullRepair` with `Cancels = TRUE`): canceling Simplifier Bot
  on a pull request without failed attempts leaves -1 attempts; validation refuses
  the commit and the service ends.
- `IntakeFirst` (`Issues`): a submission that people closed before it was confirmed is
  recorded in Issue Bot's house, so a reopen queues it without intake.
- `RefusalEndsRepairs` (`BranchHealth`): a refused push does not end the repairs of
  that revision. Nor does `MovedIsLeftAlone` hold: a branch that people rolled back to
  an ancestor while the agent worked still takes the push, where `git.go:120` says "a
  branch that moved while the agent worked is left alone". No commit is lost by it.
- `BudgetPerRevision` (`BranchHealth`, constants of `Bots`): the attempts of one revision only
  are remembered, so a red revision that people leave for another one that is repaired, or seen
  pending, and come back to starts with a new budget, where the bot's README
  (`bots/repo-bot/README.md:67`) has a budget "per failing revision".
- `IgnoredAreKept` (`Storage`, constants of `Town`): the check of a worktree asks for ignored
  files, `git worktree remove` refuses only changed and untracked ones, and the two are
  separate commands; ignored files that appear in between are removed. A commit that appears
  in between is not lost: its worktree goes and the report says "partial", but it stays on the
  private branch.
- `ReportIsTrue` (`Storage` with `Gateways = TRUE`): a gateway's 502 or 504 is taken
  for a bot that never got the request.
- `NamesItsCommit` (`SimplifierBot`): a proposal of an earlier scan is filed with a
  later scan's commit.
- Mjolnir: an interrupted run keeps the state it was saved with, and nothing in
  production reconciles it; it blocks its role's managed dispatches.

- `MuseStaysShared` (`Harness`, constants of `Town`): every launch of Muse rebuilds the one
  derived directory, without a lock, under the children of other launches.
- `VersionIsKept` (`Settings`, constants of `Records`): a profile may stay without a
  definition, and each of its runs then takes the version of the day.
- `ModelOfItsHarness` (`Settings`, constants of `Records`): a placement changes the harness
  and keeps the model, effort and mode of the former one.

Observed while modelling, and reproducible with the formula and constants named or
by reading the lines named:

Supervisor and pull requests

- A panic in a repairing pass keeps the town in `s.repairing`
  (`supervisor.go:394`, `releaseRepair` is not deferred), so later inventories
  count as agent runs; `SlotsRespectLimit` fails with `Panics = {"picked"}`,
  `Faults = {"gate"}`, Issue Bot, `MaxLimit = 2`, 3 commands.
- A merge that the inventory recorded can be undone by a house that finishes
  later (`mergeReady`'s stale audit, `requeue`, `confirmRepair`,
  `failPullAttempt` on a contributor's pull request), and is then delivered
  twice: `[][task.stage = "merged" => task'.stage = "merged"]_task` fails with
  policy `all`, 1 revision, 1 event.
- `confirmRepair` (`session.go:725-742`) marks the stored intent confirmed without
  comparing its kind or head with the repair's.
- With automatic merges a landed repair may not count: its push lands, the answer is
  lost, somebody edits the description, the inventory requeues the old head, a review
  certifies it, and `mergeReady` (`supervisor.go:1573`) saves a merge in the slot of
  the unresolved repair (`session.go:535`). A second round follows: `OneFixRound` fails
  with policy `all` and 1 fault.
- A lost answer to a push or a merge blocks the pull request until an operator
  retries it, where `resolution.go:12-13` says nothing waits on a person:
  `<>[]Resting` fails under `FairSpec` with 1 fault. `PullSettles` therefore
  accepts an operator's hold as an end (`AtRest`). A pull request GitHub refuses for good
  (a conflict, a failing check, a rule) waits in `ready` without end or a word to the operator
  but the recorded wait: `<>[]AtRest` fails with `Conditions = TRUE` and no fault.
- Town's own pull request retired after two failed Simplifier runs, then closed
  and reopened, is reviewed without intake (`reconcile.go:461` takes the default
  branch): 1 revision, 1 event, policy `manual`.
- With `max_cycles` 1 an operator's retry between the confirmed round and the
  next review grants a second fix round: `OneFixRound` fails with
  `MaxCycles = 1`, 3 revisions, 1 retry, policy `manual`.

Issues and Issue Bot

- An issue that people close when Town closes its pull request, and reopen later,
  stays `implemented` without a pull request. A submission the inventory meets first
  is `External`, so a Mayor's decline never closes it.
- A crash between the save of a submitted job and the end of its claim leaves the claim
  working, and `Requeue` is refused from then on; a renewal is not saved locally; an
  expired claim's comment that is edited counts again; a skipped job is never worked
  on again; after a requeue, somebody else's pull request is found and left again
  for ever.

Funnels

- A funnel on the town's own repository: `ReconcileFunnelPage` overwrites the stage
  of an issue the inventory also follows; one with a pending or declined decision is
  then refused by validation and every pass fails (`supervisor.go:929`).
- A pending intent cannot be reconciled; a Slack error joined over two lines keeps the
  intent pending; `ListIssues` says complete after one page; cursors are reset or never
  read; selected issues resume in the middle and are then called complete; one failing
  funnel ends the pass; labels are overwritten from an older read; two callers of
  `ReconcileLifecycle` overwrite each other; `human` and `complete` are advertised and
  refused. `ApplySourceLifecycle` and `ReconcileLifecycle` have no production caller.

Admission, attention, storage, inventory

- A quiet window's shown end is not always the first instant that is not quiet when an
  hour is repeated or the end falls into a skipped hour; the next window shown may be one
  the clock skips; east of Greenwich `time.Date` takes the second of two occurrences.
- An attempt a crash interrupts is never charged; a repair gives its slot back before
  it is charged; a claim of the attention hook whose commit is in force but was reported
  failed is never delivered.
- After a receipt that could not be saved the removal loop ends and the other artifacts
  a bot removed have no result; a cleanup that was given up may be carried out after its
  task was reopened.
- A full inventory may omit an item that was there when items change places between two
  pages: `Inventory!FullIsWhole` fails with `MaxTime = 3`. A failing branch health check
  makes Town discard the inventory reported with it (`bots/repo-bot/run.go:62-63`).

Bots, runs, assistant

- Release Bot forgets a publication it gave up that completes later. A Feature Bot scan
  does not look at a publication of unknown outcome, and a crash between the save of
  `posting` and the request leaves a finding blocked. Review Bot keeps `posting` in
  memory after a failed save, and a later save records it although nothing was sent.
- A branch whose repairs never help gets a fresh budget with every repair commit, and an
  observation that is not red resets it for whatever revision is remembered. A creation GitHub refuses for good blocks
  Simplifier Bot; proposals left pending by a crash wait until the branch moves.
- Town takes a gateway's 502 or 504 for an uncertain run and every other status for the bot's
  own refusal (`client.go:283`), a gateway's 500 or 503 included; `BotRun` has gateways that
  answer with one of the two.
- A hello of the wrong version is reported both as unavailable and as uncertain.
- What somebody else does in a Mjolnir session after Town's last read is lost when it is
  destroyed: `Destroy` compares the worker, not the head.

## 7. What is not modelled

- Time as such: instants, delays and deadlines are choices, except in `QuietHours`.
- Releases as tasks of Town, follow-up issues and outcome records: data without
  control of its own.
- Setup and diagnostics: they read, or run before there is a town. Policies, budgets and
  quiet hours are constants of the modules they matter to; `Settings` models the edits of
  profiles and placements. Which duties Mjolnir supports depends in the code on Issue Bot's
  fix tasks as well; in `Settings` it is a set of houses.
- Mayor Bot and Simplifier Bot's assessment of one item: one agent session that writes
  nothing, a free choice in `PullRequest` and `Issues`.
- Credentials, processes and paths; web interface and CLI; packaging:
  I/O around the state machines, or the presentation of their state.
- git: a command is atomic and ends before Town does; a child that outlives Town, a worktree
  half removed, and a person who takes a worktree off its private branch are left out.
- Pull requests are modelled one at a time: they interact only through the slots and the
  gate, which `Dispatch` models. The parts in `Town`, `Records` and `Bots` are checked one at a time,
  too; what one takes from another is in each module's header.

`PROJECT.json` gives the reason for each component.

## 8. Plan

Done: the modules of section 2, the runs of section 3, the theorems of section 5.

Next, in the order of what matters most:

1. An abstract outbox (durable intent, external call, receipt, retry) that `Funnels`,
   `FinderBot`, `ReviewBot` and `SimplifierBot` implement, instead of one property each.
2. A composition of `Issues` with `PullRequest`, in which ownership and closed pull
   requests are no longer free choices of either.
