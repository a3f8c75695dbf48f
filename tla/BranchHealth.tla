---------------------------- MODULE BranchHealth ----------------------------
(***************************************************************************)
(* Repo Bot's watch over its branch (bots/repo-bot/health.go, git.go,      *)
(* state.go): read the checks of the branch's head and, when they fail,    *)
(* spend one of the attempts that revision has on an agent, commit what it *)
(* made on top of that revision, and push it.                              *)
(*                                                                         *)
(* GitHub takes a push only when it fast-forwards the branch; its checks   *)
(* come from two places that are read one after the other; people commit,  *)
(* roll the branch back and run checks again meanwhile.  A commit is a     *)
(* number, past[c] the commits it is made of, itself the last.  Left out:  *)
(* the dry run and the commits of an agent that makes its own (both fail   *)
(* the attempt), the prompt, the standalone history and release ancestry.  *)
(***************************************************************************)
EXTENDS Integers, Sequences, SequencesExt

CONSTANTS
    MaxRepairs,     \* max_repairs: attempts of a failing revision
    MaxCommits,     \* bound: commits made, by anybody
    MaxBranchMoves, \* bound: moves of the branch by people
    MaxCheckReports, \* bound: reports of checks
    MaxReads,       \* bound: observations
    MaxHealthFaults \* bound: failed calls and saves, lost answers, crashes

ASSUME HealthConstants ==
    /\ {MaxRepairs, MaxBranchMoves, MaxCheckReports, MaxReads, MaxHealthFaults} \subseteq Nat
    /\ MaxCommits \in Nat \ {0}

VARIABLES
    tip, past,      \* GitHub: the branch's head, the commits made
    checks,         \* GitHub: what check runs and statuses say of a commit
    protected,      \* GitHub: the branch's rules refuse any push
    repairs,        \* repo-bot.json: Head and Attempts
    watch,          \* the run in progress
    health,         \* Town's record: State and Head
    outcomes,       \* Town's record: repairs it counts as published
    events, reads, healthfaults,
    \* What the properties speak of, and no action reads: the agents a revision
    \* started since its checks were last seen not red, and what it was granted
    \* each time the branch came to it; the bot's commits on the branch, the
    \* revisions refused.
    starts, granted, landed, refused

branchhealth == <<tip, past, checks, protected, repairs, watch, health, outcomes, events,
                  reads, healthfaults, starts, granted, landed, refused>>

Commits == DOMAIN past
Reports == {"none", "pending", "failed", "passed"}
Quiet == [pc |-> "idle", head |-> 0, runs |-> "none", attempts |-> 0, made |-> 0]
Forgotten == [head |-> 0, attempts |-> 0]
Unsaid == [runs |-> "none", statuses |-> "none"]

HealthInit ==
    /\ tip = 1 /\ past = <<<<1>>>> /\ checks = <<Unsaid>> /\ protected \in BOOLEAN
    /\ repairs = Forgotten /\ watch = Quiet
    /\ health = [state |-> "none", head |-> 0] /\ outcomes = {}
    /\ events = [moves |-> 0, reports |-> 0] /\ reads = 0 /\ healthfaults = 0
    /\ starts = [c \in 1..MaxCommits |-> 0]
    /\ granted = [c \in 1..MaxCommits |-> IF c = tip THEN MaxRepairs ELSE 0]
    /\ landed = {} /\ refused = {}

HealthFault == healthfaults < MaxHealthFaults /\ healthfaults' = healthfaults + 1
Branch == UNCHANGED <<tip, past, checks, protected, events>>
Town == UNCHANGED <<health, outcomes>>
History == UNCHANGED <<starts, granted, landed, refused>>

\* The branch comes to c.
Comes(c) == tip' = c /\ granted' = [granted EXCEPT ![c] = @ + MaxRepairs]

Made(base) ==
    /\ Len(past) < MaxCommits
    /\ past' = Append(past, Append(past[base], Len(past) + 1))
    /\ checks' = Append(checks, Unsaid)

----------------------------------------------------------------------------
\* GitHub.

\* People push a commit, or force the branch to where they want it.
PeopleMove ==
    /\ events.moves < MaxBranchMoves /\ events' = [events EXCEPT !.moves = @ + 1]
    /\ \E base \in ToSet(past[tip]) :
          \/ Made(base) /\ Comes(Len(past'))
          \/ base # tip /\ Comes(base) /\ UNCHANGED <<past, checks>>
    /\ UNCHANGED <<protected, repairs, watch, reads, healthfaults, starts, landed, refused>>
    /\ Town

\* Checks start, end, or are run again.
CheckReports ==
    /\ events.reports < MaxCheckReports /\ events' = [events EXCEPT !.reports = @ + 1]
    /\ \E c \in Commits, r \in Reports \ {"none"} :
          \/ checks' = [checks EXCEPT ![c] = [@ EXCEPT !.runs = r]]
          \/ checks' = [checks EXCEPT ![c] = [@ EXCEPT !.statuses = r]]
    /\ UNCHANGED <<tip, past, protected, repairs, watch, reads, healthfaults>>
    /\ Town /\ History

\* checks: one failure makes the verdict.
Verdict(runs, statuses) ==
    LET said == {runs, statuses} IN
    IF "failed" \in said THEN "red"
    ELSE IF "pending" \in said THEN "pending"
    ELSE IF said = {"none"} THEN "unreported" ELSE "green"

----------------------------------------------------------------------------
\* assess: what to do about the verdict.

ReadHead ==
    /\ watch.pc = "idle" /\ reads < MaxReads /\ reads' = reads + 1
    /\ watch' = [Quiet EXCEPT !.pc = "runs", !.head = tip]
    /\ UNCHANGED <<repairs, healthfaults>> /\ Branch /\ Town /\ History

ReadRuns ==
    /\ watch.pc = "runs"
    /\ watch' = [watch EXCEPT !.pc = "statuses", !.runs = checks[watch.head].runs]
    /\ UNCHANGED <<repairs, reads, healthfaults>> /\ Branch /\ Town /\ History

\* The report Town gets, and applyBranchHealth.
Reported(state, made) ==
    /\ health' = [state |-> state, head |-> watch.head]
    /\ outcomes' = IF made # 0 THEN outcomes \cup {made} ELSE outcomes
    /\ watch' = Quiet

\* A save that fails ends the run with its error, and Town hears of no health.
Aborted == HealthFault /\ watch' = Quiet /\ Town

Starts == starts' = [starts EXCEPT ![watch.head] = @ + 1] /\ UNCHANGED granted
Spent(head) == IF repairs.head = head THEN repairs.attempts ELSE 0
Now == Verdict(watch.runs, checks[watch.head].statuses)

\* The branch is not failing: what was spent on any revision is forgotten.
Healthy ==
    /\ watch.pc = "statuses" /\ Now # "red"
    /\ \/ /\ repairs' = Forgotten /\ Reported(Now, 0) /\ UNCHANGED healthfaults
          /\ starts' = [starts EXCEPT ![watch.head] = 0]
          /\ granted' = [granted EXCEPT ![watch.head] = MaxRepairs]
       \/ repairs.head # 0 /\ Aborted /\ UNCHANGED <<repairs, starts, granted>>
    /\ UNCHANGED <<reads, landed, refused>> /\ Branch

Unrepairable ==
    /\ watch.pc = "statuses" /\ Now = "red" /\ Spent(watch.head) >= MaxRepairs
    /\ Reported("unrepairable", 0)
    /\ UNCHANGED <<repairs, reads, healthfaults>> /\ Branch /\ History

\* A bug: the attempt is recorded once it has ended.
SpendLater ==
    /\ watch.pc = "statuses" /\ Now = "red" /\ Spent(watch.head) < MaxRepairs
    /\ watch' = [watch EXCEPT !.pc = "agent", !.attempts = Spent(watch.head) + 1]
    /\ Starts
    /\ UNCHANGED <<repairs, reads, healthfaults, landed, refused>> /\ Branch /\ Town

\* The attempt is saved, and the agent starts.
Spend ==
    /\ watch.pc = "statuses" /\ Now = "red" /\ Spent(watch.head) < MaxRepairs
    /\ LET n == Spent(watch.head) + 1 IN
       \/ /\ repairs' = [head |-> watch.head, attempts |-> n]
          /\ watch' = [watch EXCEPT !.pc = "agent", !.attempts = n]
          /\ Starts
          /\ Town /\ UNCHANGED healthfaults
       \/ Aborted /\ UNCHANGED <<repairs, starts, granted>>
    /\ UNCHANGED <<reads, landed, refused>> /\ Branch

----------------------------------------------------------------------------
\* repair.

\* The end of an attempt: it is saved again with what came of it, and reported.
Ended(state, made) ==
    /\ \/ /\ repairs' = [head |-> watch.head, attempts |-> watch.attempts]
          /\ Reported(state, made) /\ UNCHANGED healthfaults
       \/ Aborted /\ UNCHANGED repairs
    /\ UNCHANGED reads

\* The agent fails or runs out of time, its repair is not verified, or it
\* changes nothing.
NoRepair ==
    /\ watch.pc = "agent" /\ Ended("red", 0) /\ Branch /\ History

\* commit: on top of the failing revision, in the private worktree.
CommitRepair ==
    /\ watch.pc = "agent" /\ Made(watch.head)
    /\ watch' = [watch EXCEPT !.pc = "push", !.made = Len(past')]
    /\ UNCHANGED <<tip, protected, repairs, events, reads, healthfaults>> /\ Town /\ History

FastForwards == tip \in ToSet(past[watch.made])

\* A bug: the push is forced.
PublishForced ==
    /\ watch.pc = "push" /\ ~protected
    /\ Comes(watch.made) /\ landed' = landed \cup {watch.made}
    /\ Ended("repaired", watch.made)
    /\ UNCHANGED <<past, checks, protected, events, starts, refused>>

Publish ==
    /\ watch.pc = "push" /\ ~protected /\ FastForwards
    /\ Comes(watch.made) /\ landed' = landed \cup {watch.made}
    /\ Ended("repaired", watch.made)
    /\ UNCHANGED <<past, checks, protected, events, starts, refused>>

\* The branch takes the push and the answer is lost: a failed attempt.
PublishUnheard ==
    /\ watch.pc = "push" /\ ~protected /\ FastForwards /\ HealthFault
    /\ Comes(watch.made) /\ landed' = landed \cup {watch.made}
    /\ repairs' = [head |-> watch.head, attempts |-> watch.attempts] /\ Reported("red", 0)
    /\ UNCHANGED <<past, checks, protected, events, reads, starts, refused>>

\* rejectedByProtection, or a branch that moved.
PublishRefused ==
    /\ watch.pc = "push" /\ (protected \/ ~FastForwards)
    /\ refused' = IF protected THEN refused \cup {watch.head} ELSE refused
    /\ Ended(IF protected THEN "unrepairable" ELSE "red", 0)
    /\ UNCHANGED <<starts, granted, landed>> /\ Branch

\* A read fails, the run is canceled, or the process dies.
WatchDies ==
    /\ watch.pc # "idle" /\ Aborted
    /\ UNCHANGED <<repairs, reads>> /\ Branch /\ History

HealthNext ==
    \/ PeopleMove \/ CheckReports
    \/ ReadHead \/ ReadRuns \/ Healthy \/ Unrepairable \/ Spend
    \/ NoRepair \/ CommitRepair \/ Publish \/ PublishUnheard \/ PublishRefused \/ WatchDies

HealthSpec == HealthInit /\ [][HealthNext]_branchhealth

----------------------------------------------------------------------------
\* Properties.

HealthTypeOK ==
    /\ tip \in Commits /\ Len(past) <= MaxCommits /\ DOMAIN checks = Commits
    /\ \A c \in Commits : checks[c].runs \in Reports /\ checks[c].statuses \in Reports
    /\ repairs.head \in 0..MaxCommits /\ repairs.attempts \in 0..MaxRepairs
    /\ watch.pc \in {"idle", "runs", "statuses", "agent", "push"}
    /\ health.head \in 0..MaxCommits /\ outcomes \subseteq Commits
    /\ events \in [moves: 0..MaxBranchMoves, reports: 0..MaxCheckReports]
    /\ reads \in 0..MaxReads
    /\ healthfaults \in 0..MaxHealthFaults

(* Each time the branch comes to a revision it may start max_repairs agents  *)
(* there, and no more until its checks are seen not to fail, whichever       *)
(* attempts crash, whatever is not saved and wherever the branch goes.       *)
AttemptsAreSpent == \A c \in Commits : starts[c] <= granted[c]

(* README.md:67: max_repairs are the "Agent attempts allowed per failing     *)
(* revision".  No run checks this: only one revision is remembered, so that  *)
(* a revision the branch comes back to starts with a new budget.             *)
BudgetPerRevision == \A c \in Commits : starts[c] <= MaxRepairs

(* A repair Town counts as published is on top of the revision it repairs    *)
(* and was put on the branch; nobody's commit was taken off for it.          *)
RepairsAreReal == outcomes \subseteq landed
KeepsCommits == landed' # landed => ToSet(past[tip]) \subseteq ToSet(past'[tip'])
NothingOverwritten == [][KeepsCommits]_branchhealth

(* README.md:40: "A push the repository's protection rules refuse ends the   *)
(* repair immediately, because no further attempt could land it."            *)
RefusalEndsRepairs == watch.pc = "agent" => watch.head \notin refused

(* git.go: "a branch that moved while the agent worked is left alone".       *)
MovedIsLeftAlone == [][landed' # landed => tip = watch.head]_branchhealth
=============================================================================
