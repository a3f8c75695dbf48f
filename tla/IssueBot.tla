------------------------------ MODULE IssueBot ------------------------------
(***************************************************************************)
(* One issue and the issue-bot instances that may implement it              *)
(* (bots/issue-bot: claim.go, run.go, state.go, git.go, linked.go,          *)
(* worker.go). Each instance keeps a durable job and works on a copy of it; *)
(* instances see each other only through GitHub: the claim comments on the  *)
(* issue, the branch, whose name they share, and the pull requests.         *)
(*                                                                          *)
(* A step ends where the code saves its job, writes to GitHub or hands over *)
(* to the agent; reads that follow each other at once are one step, which   *)
(* loses nothing that passes: what they look for (pull requests, lower      *)
(* claims) only accumulates.                                                *)
(*                                                                          *)
(* Abstractions:                                                            *)
(*  - time: a claim's expiry is an event. The lease is renewed every third  *)
(*    of its life and a failed renewal ends the attempt, so the claim of a  *)
(*    running attempt does not expire under it; a paused machine and clock  *)
(*    skew are left out. Retry delays are left out: a job may run at once;  *)
(*  - a claim's token is the instance and a number not used on GitHub yet;  *)
(*  - a commit is the number of the push that published it, and a local     *)
(*    branch is known by the last published commit it contains;             *)
(*  - labels and locks are one flag: the issue is eligible or not.          *)
(***************************************************************************)
EXTENDS Integers, FiniteSets, Sequences

CONSTANTS
    Bots,          \* instances, each with its own state directory and checkout
    Attempts,      \* agent runs one job may spend (Config.Attempts)
    None,          \* no instance: the author of a pull request opened by people
    MaxFaults,     \* bound: calls and saves that fail or lose their answer, crashes
    MaxEvents      \* bound: what people and Town do to the issue and its pulls

ASSUME IssueConstants ==
    /\ IsFiniteSet(Bots) /\ None \notin Bots
    /\ Attempts \in Nat \ {0}
    /\ MaxFaults \in Nat /\ MaxEvents \in Nat

VARIABLES
    eligible,      \* GitHub: the issue is open, unlocked and labelled for the bot
    comments,      \* GitHub: the claim comments in the order of their ids
    branch,        \* GitHub: the head of the issue branch, 0 when there is none
    pulls,         \* GitHub: pull requests that concern the issue
    pushes,        \* commits published so far
    disk,          \* each instance's saved job
    local,         \* each instance's worktree and local branch
    pc, mem,       \* each instance's run: how far it is, and its copy of the job
    requeue,       \* the closed pull request Town asks each instance to replace
    faults, events,
    agentRuns      \* read by no action: agent runs since the budget was reset

github == <<eligible, comments, branch, pulls, pushes>>
spent  == <<faults, events>>
vars   == <<github, disk, local, pc, mem, requeue, spent, agentRuns>>

\* Places of an attempt that hold the lease.
Leased == {"open", "charge", "agent", "verify", "push", "recheck", "create"}
Places == {"idle", "sync", "scan", "elect", "post", "confirm", "yield", "final",
           "deliver"} \cup Leased

Claims == [n : Nat, status : {"none", "working", "done", "released"}]
Jobs   == [status : {"pending", "submitted", "blocked", "has_pr", "skipped"},
           tries : 0..Attempts, failure : {"none", "lookup", "attempt", "closed"},
           claim : Claims, owed : BOOLEAN,  \* ClaimPending
           url : Nat, superseded : SUBSET Nat]
Comments == [bot : Bots, n : Nat, status : {"working", "done", "released"}, live : BOOLEAN]
Pulls    == [kind : {"bot", "foreign", "elsewhere"}, state : {"open", "closed", "merged"},
             head : Nat, by : Bots \cup {None}]
Worktrees == [has : BOOLEAN, seen : Nat]

NoClaim == [n |-> 0, status |-> "none"]
NewJob  == [status |-> "pending", tries |-> 0, failure |-> "none", claim |-> NoClaim,
            owed |-> FALSE, url |-> 0, superseded |-> {}]
NoTree  == [has |-> FALSE, seen |-> 0]

TypeOK ==
    /\ eligible \in BOOLEAN /\ comments \in Seq(Comments) /\ pulls \in Seq(Pulls)
    /\ pushes \in Nat /\ branch \in 0..pushes
    /\ disk \in [Bots -> Jobs] /\ mem \in [Bots -> Jobs]
    /\ local \in [Bots -> Worktrees] /\ pc \in [Bots -> Places]
    /\ requeue \in [Bots -> Nat] /\ agentRuns \in [Bots -> Nat]
    /\ faults \in 0..MaxFaults /\ events \in 0..MaxEvents

Init ==
    /\ eligible = TRUE /\ comments = <<>> /\ branch = 0 /\ pulls = <<>> /\ pushes = 0
    /\ disk = [b \in Bots |-> NewJob] /\ mem = disk
    /\ local = [b \in Bots |-> NoTree] /\ pc = [b \in Bots |-> "idle"]
    /\ requeue = [b \in Bots |-> 0] /\ agentRuns = [b \in Bots |-> 0]
    /\ faults = 0 /\ events = 0

----------------------------------------------------------------------------
(* What an instance reads on GitHub. *)

Working == {i \in DOMAIN comments : comments[i].status = "working" /\ comments[i].live}

\* The lowest comment that is working and not expired holds the issue; 0: none.
ClaimWinner == IF Working = {} THEN 0 ELSE CHOOSE i \in Working : \A k \in Working : i =< k

\* The comment of instance b's claim n, 0 when GitHub has none.
CommentOf(b, n) ==
    LET mine == {i \in DOMAIN comments : comments[i].bot = b /\ comments[i].n = n}
    IN IF mine = {} THEN 0 ELSE CHOOSE i \in mine : TRUE

Holds(b) == ClaimWinner # 0 /\ ClaimWinner = CommentOf(b, mem[b].claim.n)

\* Pull requests of the issue branch, and those that reference the issue,
\* without the ones Town closed and asked the job to replace.
BranchPulls(j) == {p \in DOMAIN pulls : pulls[p].kind # "elsewhere" /\ p \notin j.superseded}
Linked(j)      == {p \in DOMAIN pulls : pulls[p].kind # "foreign" /\ p \notin j.superseded}

\* githubClient.pull: none, the one pull request this bot could have opened,
\* or a mismatch (several, or one without the bot's marker).
Lookup(j) ==
    IF BranchPulls(j) = {} THEN "none"
    ELSE IF \E p \in BranchPulls(j) : BranchPulls(j) = {p} /\ pulls[p].kind = "bot" THEN "ours"
    ELSE "mismatch"
Ours(j) == CHOOSE p \in BranchPulls(j) : TRUE

----------------------------------------------------------------------------
(* Saving, failing, ending. *)

Goto(b, place) == pc' = [pc EXCEPT ![b] = place]
Fault == faults < MaxFaults /\ faults' = faults + 1

\* The job is on disk before the run goes on.
Save(b, j, place) ==
    /\ mem' = [mem EXCEPT ![b] = j] /\ disk' = [disk EXCEPT ![b] = j]
    /\ Goto(b, place) /\ UNCHANGED faults

\* A run that ends forgets its copy.
Ends(b) == Goto(b, "idle") /\ mem' = [mem EXCEPT ![b] = disk[b]] /\ UNCHANGED disk

\* Outside an attempt a save that fails ends the run; inside one the attempt
\* ends, and claimedAttempt saves the changed copy again.
SaveOrEnd(b, j, place) == Save(b, j, place) \/ (Fault /\ Ends(b))
SaveOrQuit(b, j, place) ==
    \/ Save(b, j, place)
    \/ Fault /\ mem' = [mem EXCEPT ![b] = j] /\ Goto(b, "final") /\ UNCHANGED disk

\* engine.failed: the failure is saved and the attempt ends.
Failed(b) == SaveOrQuit(b, [mem[b] EXCEPT !.failure = "attempt"], "final")

\* recordPull: what the job says once its pull request is known.
RecordPull(j, p) ==
    IF pulls[p].state = "closed"
    THEN [j EXCEPT !.url = p, !.status = "blocked", !.failure = "closed"]
    ELSE [j EXCEPT !.url = p, !.status = "submitted", !.failure = "none"]

OwesNothing(j, status) == [j EXCEPT !.claim = [@ EXCEPT !.status = status]]

\* A claim released or completed on the job; the comment is still to be told.
Owes(j, status) ==
    [j EXCEPT !.claim = [@ EXCEPT !.status = status], !.owed = TRUE]
Released(j) == IF j.claim = NoClaim THEN j ELSE Owes(j, "released")

NextClaim(b) ==
    [n |-> 1 + Cardinality({i \in DOMAIN comments : comments[i].bot = b}), status |-> "working"]

----------------------------------------------------------------------------
(* A dispatch: Town's requeue, the comment updates that are owed, the scan. *)

Start(b, j) ==
    /\ mem' = [mem EXCEPT ![b] = j]
    /\ Goto(b, IF j.owed /\ j.claim.status # "working" THEN "sync" ELSE "scan")

Dispatch(b) ==
    /\ pc[b] = "idle" /\ requeue[b] = 0
    /\ Start(b, disk[b])
    /\ UNCHANGED <<github, disk, local, requeue, spent, agentRuns>>

RestartedSubmitted(j, p) ==
    LET fresh == [j EXCEPT !.tries = 0, !.failure = "none", !.url = 0, !.superseded = @ \cup {p}]
    IN IF j.claim.status \in {"none", "released"} THEN fresh ELSE Owes(fresh, "released")

\* What Requeue makes of a job: a clean budget, and the claim given back.
Restarted(j, p) ==
    LET fresh == [j EXCEPT !.status = "pending", !.tries = 0, !.failure = "none",
                           !.url = 0, !.superseded = @ \cup {p}]
    IN IF j.claim.status \in {"none", "released"} THEN fresh ELSE Owes(fresh, "released")

\* Refused while the claim on disk is working. Town asks again while the job
\* names somebody else's pull request, and otherwise only when it has not read
\* the job since (a fault).
Requeue(b) ==
    LET p == requeue[b]
        j == Restarted(disk[b], p)
    IN  /\ pc[b] = "idle" /\ p # 0
        /\ disk[b].claim.status # "working"
        /\ local' = [local EXCEPT ![b] = NoTree]
        /\ IF p \in disk[b].superseded /\ disk[b].status # "has_pr"
           THEN Fault ELSE UNCHANGED faults
        /\ disk' = [disk EXCEPT ![b] = j]
        /\ Start(b, j)
        /\ agentRuns' = [agentRuns EXCEPT ![b] = 0]
        /\ UNCHANGED <<github, requeue, events>>

\* The superseded worktree and branch are gone, the job is not saved.
RequeueUnsaved(b) ==
    /\ pc[b] = "idle" /\ requeue[b] # 0 /\ disk[b].claim.status # "working"
    /\ local' = [local EXCEPT ![b] = NoTree] /\ Fault
    /\ UNCHANGED <<github, disk, pc, mem, requeue, events, agentRuns>>

\* claimManager.sync: the claim's comment says what the job says. It is found
\* by token; without one only a completion is posted.
Told(b, j) ==
    LET i == CommentOf(b, j.claim.n)
    IN  IF i # 0 THEN [comments EXCEPT ![i] = [@ EXCEPT !.status = j.claim.status, !.live = FALSE]]
        ELSE IF j.claim.status = "done"
        THEN Append(comments, [bot |-> b, n |-> j.claim.n, status |-> "done", live |-> FALSE])
        ELSE comments

\* The step's first work: completion and release updates still owed. A failure
\* is logged and the update stays owed.
Sync(b) ==
    /\ pc[b] = "sync"
    /\ \/ comments' = Told(b, mem[b]) /\ Save(b, [mem[b] EXCEPT !.owed = FALSE], "scan")
       \/ /\ comments' \in {comments, Told(b, mem[b])}
          /\ Fault /\ Goto(b, "scan") /\ UNCHANGED <<mem, disk>>
    /\ UNCHANGED <<eligible, branch, pulls, pushes, local, requeue, events, agentRuns>>

\* The run's last work, syncClaim after a save.
Deliver(b) ==
    /\ pc[b] = "deliver"
    /\ \/ ~mem[b].owed /\ Ends(b) /\ UNCHANGED <<comments, faults>>
       \/ /\ mem[b].owed /\ comments' = Told(b, mem[b])
          /\ Save(b, [mem[b] EXCEPT !.owed = FALSE], "idle")
       \/ /\ mem[b].owed /\ comments' \in {comments, Told(b, mem[b])}
          /\ Fault /\ Ends(b)
    /\ UNCHANGED <<eligible, branch, pulls, pushes, local, requeue, events, agentRuns>>

\* engine.step for the issue. A job with tries behind it is reconciled with
\* GitHub even when the issue is no longer eligible.
MayStart(j) == eligible /\ ~j.owed
Looks(b)    == mem[b].status = "pending" /\ (mem[b].tries > 0 \/ MayStart(mem[b]))
Cleared(j)  == IF j.failure = "lookup" THEN [j EXCEPT !.failure = "none"] ELSE j

ScanIdle(b) == ~Looks(b) /\ Ends(b) /\ UNCHANGED faults

ScanMismatch(b) ==
    /\ Looks(b) /\ Lookup(mem[b]) = "mismatch"
    /\ SaveOrEnd(b, [mem[b] EXCEPT !.failure = "lookup"], "deliver")

\* engine.complete: the pull request exists; finish without an agent.
ScanFound(b) ==
    /\ Looks(b) /\ Lookup(mem[b]) = "ours"
    /\ LET j == RecordPull(mem[b], Ours(mem[b]))
       IN  SaveOrEnd(b, Owes([j EXCEPT !.claim = IF @ = NoClaim THEN NextClaim(b) ELSE @],
                             "done"), "deliver")

ScanIneligible(b) ==
    /\ Looks(b) /\ Lookup(mem[b]) = "none" /\ ~MayStart(mem[b])
    /\ SaveOrEnd(b, Cleared(mem[b]), "idle")

ScanLinked(b) ==
    /\ Looks(b) /\ Lookup(mem[b]) = "none" /\ MayStart(mem[b]) /\ Linked(mem[b]) # {}
    /\ \E p \in Linked(mem[b]) :
          SaveOrEnd(b, [Cleared(mem[b]) EXCEPT !.status = "has_pr", !.url = p], "idle")

Unpublished(b) ==
    /\ Looks(b) /\ Lookup(mem[b]) = "none" /\ MayStart(mem[b]) /\ Linked(mem[b]) = {}

InBudget(j) == j.tries < Attempts

ScanExhausted(b) ==
    /\ Unpublished(b) /\ ~InBudget(mem[b])
    /\ SaveOrEnd(b, Released([Cleared(mem[b]) EXCEPT !.status = "blocked"]), "deliver")

\* claimedAttempt: a claim that is still working is taken up again unless it
\* has expired here; the local expiry is not later than the one on GitHub,
\* which the lease renews without saving.
ScanClaims(b) ==
    LET i == CommentOf(b, mem[b].claim.n)
        working == mem[b].claim.status = "working"
        unexpired == i # 0 => comments[i].live
    IN  /\ Unpublished(b) /\ InBudget(mem[b])
        /\ \/ working /\ unexpired /\ SaveOrEnd(b, Cleared(mem[b]), "elect")
           \/ SaveOrEnd(b, [Cleared(mem[b]) EXCEPT !.claim = NextClaim(b)], "elect")

Scan(b) ==
    /\ pc[b] = "scan"
    /\ \/ ScanIdle(b)   \/ ScanMismatch(b)  \/ ScanFound(b) \/ ScanIneligible(b)
       \/ ScanLinked(b) \/ ScanExhausted(b) \/ ScanClaims(b)
    /\ UNCHANGED <<github, local, requeue, events, agentRuns>>

----------------------------------------------------------------------------
(* The election: read, post or edit, wait, read. *)

Elect(b) ==
    /\ pc[b] = "elect"
    /\ Goto(b, IF ClaimWinner # 0 /\ ~Holds(b) THEN "yield" ELSE "post")
    /\ UNCHANGED <<github, disk, local, mem, requeue, spent, agentRuns>>

PostedBlind(b) ==
    Append(comments, [bot |-> b, n |-> mem[b].claim.n, status |-> "working", live |-> TRUE])

\* A comment of this token, also one whose POST lost its answer, is edited.
Posted(b) ==
    LET i == CommentOf(b, mem[b].claim.n)
        c == [bot |-> b, n |-> mem[b].claim.n, status |-> "working", live |-> TRUE]
    IN  IF i = 0 THEN Append(comments, c) ELSE [comments EXCEPT ![i] = c]

Post(b) ==
    /\ pc[b] = "post" /\ comments' = Posted(b)
    /\ \/ Goto(b, "confirm") /\ UNCHANGED <<mem, disk, faults>>
       \/ Fault /\ Ends(b)
    /\ UNCHANGED <<eligible, branch, pulls, pushes, local, requeue, events, agentRuns>>

Confirm(b) ==
    /\ pc[b] = "confirm"
    /\ Goto(b, IF Holds(b) THEN "open" ELSE "yield")
    /\ UNCHANGED <<github, disk, local, mem, requeue, spent, agentRuns>>

\* A GitHub read or a save fails, or Town cancels, before the lease is held.
ElectionFails(b) ==
    /\ pc[b] \in {"elect", "post", "confirm"}
    /\ Fault /\ Ends(b)
    /\ UNCHANGED <<github, local, requeue, events, agentRuns>>

Yield(b) ==
    /\ pc[b] = "yield"
    /\ SaveOrEnd(b, Owes(mem[b], "released"), "deliver")
    /\ UNCHANGED <<github, local, requeue, events, agentRuns>>

----------------------------------------------------------------------------
(* The attempt under the lease. *)

\* checkout.prepare: an existing worktree is kept; a requeued issue starts from
\* the base branch, any other from the pushed branch when there is one.
Open(b) ==
    LET over == mem[b].superseded # {} /\ mem[b].tries = 0
        tree == [has |-> TRUE, seen |-> IF over THEN 0 ELSE branch]
    IN  /\ pc[b] = "open"
        /\ local' = [local EXCEPT ![b] = IF @.has THEN @ ELSE tree]
        /\ Goto(b, "charge")
        /\ UNCHANGED <<github, disk, mem, requeue, spent, agentRuns>>

\* git or GitHub fails before the attempt is charged.
OpenFails(b) ==
    /\ pc[b] \in {"open", "charge"}
    /\ Fault /\ Goto(b, "final")
    /\ UNCHANGED <<github, disk, local, mem, requeue, events, agentRuns>>

\* The charge is left to the save that follows the agent.
ChargeLate(b) ==
    /\ pc[b] = "charge" /\ Goto(b, "agent")
    /\ mem' = [mem EXCEPT ![b] = [@ EXCEPT !.tries = @ + 1]]
    /\ agentRuns' = [agentRuns EXCEPT ![b] = @ + 1]
    /\ UNCHANGED <<github, disk, local, requeue, spent>>

\* The attempt is on disk before the agent starts.
Charge(b) ==
    /\ pc[b] = "charge"
    /\ SaveOrQuit(b, [mem[b] EXCEPT !.tries = @ + 1], "agent")
    /\ agentRuns' = [agentRuns EXCEPT ![b] = IF pc'[b] = "agent" THEN @ + 1 ELSE @]
    /\ UNCHANGED <<github, local, requeue, events>>

\* A single call, to GitHub or git, ends within another instance's agent run.
InFlight == {"post", "push", "create"}

\* The agent finishes its work, gives up, fails, or is ended by its deadline, a
\* lost lease or Town.
Agent(b) ==
    /\ pc[b] = "agent"
    /\ \/ /\ \A c \in Bots \ {b} : pc[c] \notin InFlight
          /\ SaveOrQuit(b, mem[b], "verify")
       \/ SaveOrQuit(b, [mem[b] EXCEPT !.status = "blocked", !.failure = "attempt"], "final")
       \/ Failed(b)
    /\ UNCHANGED <<github, local, requeue, events, agentRuns>>

\* The agent could not be set up: the attempt is given back.
AgentSetup(b) ==
    LET j == [mem[b] EXCEPT !.tries = @ - 1, !.failure = "attempt"]
    IN
    /\ pc[b] = "agent" /\ Fault
    /\ mem' = [mem EXCEPT ![b] = j] /\ disk' = [disk EXCEPT ![b] = j] /\ Goto(b, "final")
    /\ agentRuns' = [agentRuns EXCEPT ![b] = @ - 1]
    /\ UNCHANGED <<github, local, requeue, events>>

\* The claim is not looked at again before publishing.
ReadyUnclaimed(b, place) ==
    \/ /\ Linked(mem[b]) # {}
       /\ \E p \in Linked(mem[b]) :
             SaveOrQuit(b, [mem[b] EXCEPT !.status = "has_pr", !.url = p], "final")
    \/ Linked(mem[b]) = {} /\ Goto(b, place) /\ UNCHANGED <<mem, disk, faults>>

\* readyToPublish: the lease is still held and nothing references the issue.
Ready(b, place) ==
    \/ ~Holds(b) /\ Failed(b)
    \/ /\ Holds(b) /\ Linked(mem[b]) # {}
       /\ \E p \in Linked(mem[b]) :
             SaveOrQuit(b, [mem[b] EXCEPT !.status = "has_pr", !.url = p], "final")
    \/ Holds(b) /\ Linked(mem[b]) = {} /\ Goto(b, place) /\ UNCHANGED <<mem, disk, faults>>

Verify(b) ==
    /\ pc[b] = "verify"
    /\ \/ Failed(b)
       \/ ~eligible /\ SaveOrQuit(b, [mem[b] EXCEPT !.status = "skipped",
                                                    !.failure = "attempt"], "final")
       \/ eligible /\ Ready(b, "push")
    /\ UNCHANGED <<github, local, requeue, events, agentRuns>>

\* A call GitHub carried out and did not answer: the attempt fails.
Unanswered(b) ==
    LET j == [mem[b] EXCEPT !.failure = "attempt"]
    IN  /\ Fault /\ Goto(b, "final")
        /\ mem' = [mem EXCEPT ![b] = j] /\ disk' = [disk EXCEPT ![b] = j]

\* git push without force.
FastForward(b) == branch = 0 \/ local[b].seen = branch
Push(b) ==
    LET new == pushes + 1
    IN  /\ pc[b] = "push" /\ FastForward(b)
        /\ pushes' = new /\ branch' = new
        /\ local' = [local EXCEPT ![b] = [@ EXCEPT !.seen = new]]
        /\ pulls' = [p \in DOMAIN pulls |->
                        IF pulls[p].state = "open" /\ pulls[p].kind # "elsewhere"
                        THEN [pulls[p] EXCEPT !.head = new] ELSE pulls[p]]
        /\ \/ Goto(b, "recheck") /\ UNCHANGED <<mem, disk, faults>>
           \/ Unanswered(b)
        /\ UNCHANGED <<eligible, comments, requeue, events, agentRuns>>

PushFails(b) ==
    /\ pc[b] = "push" /\ Failed(b)
    /\ UNCHANGED <<github, local, requeue, events, agentRuns>>

\* The pull request an earlier, unanswered creation left is taken over if its
\* head is the verified commit.
Recheck(b) ==
    /\ pc[b] = "recheck"
    /\ \/ Lookup(mem[b]) = "none" /\ Ready(b, "create")
       \/ /\ Lookup(mem[b]) = "ours" /\ pulls[Ours(mem[b])].head = local[b].seen
          /\ SaveOrQuit(b, RecordPull(mem[b], Ours(mem[b])), "final")
       \/ Failed(b)
    /\ UNCHANGED <<github, local, requeue, events, agentRuns>>

\* GitHub opens one pull request at a time for a branch.
Creatable == branch # 0 /\ \A p \in DOMAIN pulls :
                 pulls[p].state = "open" => pulls[p].kind = "elsewhere"
Create(b) ==
    LET p == Len(pulls) + 1
        j == [mem[b] EXCEPT !.url = p, !.status = "submitted", !.failure = "none"]
    IN  /\ pc[b] = "create" /\ Creatable
        /\ pulls' = Append(pulls, [kind |-> "bot", state |-> "open", head |-> branch, by |-> b])
        /\ \/ branch = local[b].seen /\ SaveOrQuit(b, j, "final")
           \/ branch # local[b].seen /\ Failed(b)
           \/ Unanswered(b)
        /\ UNCHANGED <<eligible, comments, branch, pushes, local, requeue, events,
                       agentRuns>>

CreateFails(b) ==
    /\ pc[b] = "create" /\ Failed(b)
    /\ UNCHANGED <<github, local, requeue, events, agentRuns>>

\* The lease is closed; what the attempt came to is saved with the claim.
Final(b) ==
    /\ pc[b] = "final"
    /\ SaveOrEnd(b, Owes(mem[b], IF mem[b].status = "submitted" THEN "done" ELSE "released"),
                 "deliver")
    /\ UNCHANGED <<github, local, requeue, events, agentRuns>>

----------------------------------------------------------------------------
(* Crashes, time, people and Town. *)

Crash(b) ==
    /\ pc[b] # "idle" /\ Fault /\ Ends(b)
    /\ UNCHANGED <<github, local, requeue, events, agentRuns>>

\* A running attempt keeps its claim renewed.
Expire ==
    /\ \E i \in Working :
          /\ \A b \in Bots : pc[b] \in Leased \cup {"confirm"} => CommentOf(b, mem[b].claim.n) # i
          /\ comments' = [comments EXCEPT ![i] = [@ EXCEPT !.live = FALSE]]
    /\ UNCHANGED <<eligible, branch, pulls, pushes, disk, local, pc, mem, requeue, spent,
                   agentRuns>>

Event == events < MaxEvents /\ events' = events + 1

\* People close or reopen the issue, close or merge a pull request, or open one.
People ==
    /\ Event
    /\ \/ eligible' = ~eligible /\ UNCHANGED pulls
       \/ /\ UNCHANGED eligible
          /\ \E p \in DOMAIN pulls, s \in {"closed", "merged"} :
                pulls[p].state = "open" /\ pulls' = [pulls EXCEPT ![p] = [@ EXCEPT !.state = s]]
       \/ /\ UNCHANGED eligible
          /\ \E k \in {"foreign", "elsewhere"} :
                /\ k = "foreign" => Creatable
                /\ pulls' = Append(pulls, [kind |-> k, state |-> "open", head |-> branch,
                                           by |-> None])
    /\ UNCHANGED <<comments, branch, pushes, disk, local, pc, mem, requeue, faults,
                   agentRuns>>

\* Town retires the instance's pull request: it closes it, deletes the branch
\* and asks for a fresh attempt (closeRetiredPulls, requeueAfterClose).
TownCloses(b) ==
    LET p == disk[b].url
    IN  /\ Event /\ disk[b].status = "submitted" /\ requeue[b] = 0
        /\ pulls[p].kind = "bot" /\ pulls[p].state = "open"
        /\ pulls' = [pulls EXCEPT ![p] = [@ EXCEPT !.state = "closed"]]
        /\ branch' = 0 /\ requeue' = [requeue EXCEPT ![b] = p]
        /\ UNCHANGED <<eligible, comments, pushes, disk, local, pc, mem, faults,
                       agentRuns>>

\* SyncIssues: the job no longer names the closed pull request.
TownSynced(b) ==
    /\ requeue[b] # 0 /\ disk[b].url # requeue[b] /\ disk[b].status # "has_pr"
    /\ requeue' = [requeue EXCEPT ![b] = 0]
    /\ UNCHANGED <<github, disk, local, pc, mem, spent, agentRuns>>

\* Retry: the operator grants a pending or blocked job a new budget.
Retry(b) ==
    /\ Event /\ pc[b] = "idle" /\ disk[b].status \in {"pending", "blocked"} /\ disk[b] # NewJob
    /\ disk' = [disk EXCEPT ![b] = [@ EXCEPT !.tries = 0, !.status = "pending"]]
    /\ mem' = [mem EXCEPT ![b] = disk'[b]]
    /\ agentRuns' = [agentRuns EXCEPT ![b] = 0]
    /\ UNCHANGED <<github, local, pc, requeue, faults>>

RunStep(b) ==
    \/ Sync(b) \/ Scan(b) \/ Elect(b) \/ Post(b) \/ Confirm(b) \/ ElectionFails(b) \/ Yield(b)
    \/ Open(b) \/ OpenFails(b) \/ Charge(b) \/ Agent(b) \/ AgentSetup(b) \/ Verify(b)
    \/ Push(b) \/ PushFails(b) \/ Recheck(b) \/ Create(b) \/ CreateFails(b) \/ Final(b)
    \/ Deliver(b)

Next ==
    \/ \E b \in Bots :
          \/ Dispatch(b) \/ Requeue(b) \/ RequeueUnsaved(b) \/ RunStep(b) \/ Crash(b)
          \/ TownCloses(b) \/ TownSynced(b) \/ Retry(b)
    \/ Expire \/ People

Spec == Init /\ [][Next]_vars

----------------------------------------------------------------------------
(* Properties *)

\* An agent works on the issue at most Attempts times between two resets of the
\* budget, however often an instance crashes: the attempt is saved before the
\* agent starts (attempt).
BudgetHolds == \A b \in Bots : agentRuns[b] =< Attempts

\* Two pull requests for the issue exist only if the second replaces one Town
\* closed: a creation without an answer, a crash and a second instance never
\* lead to a duplicate (lookup, readyToPublish).
OnePullPerIssue ==
    \A p, q \in {r \in DOMAIN pulls : pulls[r].kind = "bot"} :
        p < q => p \in mem[pulls[q].by].superseded

\* A job that says submitted names a pull request a bot opened for this issue,
\* never one that Town asked to replace (recordPull, Requeue).
SubmittedIsPublished ==
    \A b \in Bots : disk[b].status = "submitted" =>
        /\ disk[b].url \in DOMAIN pulls /\ pulls[disk[b].url].kind = "bot"
        /\ disk[b].url \notin disk[b].superseded

\* An ambiguous POST is recovered by its token: no claim has two comments.
ClaimsAreUnique ==
    \A i, k \in DOMAIN comments :
        i # k => <<comments[i].bot, comments[i].n>> # <<comments[k].bot, comments[k].n>>

\* What a saved job says of its claim stands on GitHub, or the job still owes
\* the update: no crash, lost answer or closed issue leaves a finished claim
\* looking like work (syncClaim).
EndsAreTold ==
    \A b \in Bots :
        LET i == CommentOf(b, disk[b].claim.n)
        IN  i # 0 /\ disk[b].claim.status # "working" =>
                disk[b].owed \/ comments[i].status = disk[b].claim.status

\* GitHub shows one of each: one pull request for the issue and one comment for
\* a claim, whichever answers are lost and whichever instances crash; and the
\* attempts of a job stay within its budget (TypeOK).
ClaimsHold == TypeOK /\ OnePullPerIssue /\ ClaimsAreUnique

\* What a job's saved record says is so: its pull request exists and may stand,
\* its claim's end is told or owed, and the attempts it counts were all there
\* were.
RecordsAreTrue == SubmittedIsPublished /\ EndsAreTold /\ BudgetHolds
=============================================================================
