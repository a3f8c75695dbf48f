----------------------------- MODULE FinderBot -----------------------------
(***************************************************************************)
(* Bug Bot and Feature Bot (bots/bug-bot, bots/feature-bot): a scan of one *)
(* commit discovers findings, reviews each against every issue GitHub      *)
(* shows and files it as a new issue.  The two programs share their shape; *)
(* `kind' says which of them runs, and the definitions that differ name    *)
(* it.  Feature Bot can also publish a finding an earlier dry run saved.   *)
(*                                                                         *)
(* A finding is its request id, which its issue carries in a hidden        *)
(* marker.  Left out: what an agent reads and writes, the worktrees, the   *)
(* wait between polls and after a failure (a poll comes at any time), the  *)
(* choice of review model, and the removal of old worktrees.               *)
(***************************************************************************)
EXTENDS Naturals, Sequences, FiniteSets

CONSTANTS
    Programs,        \* the programs considered: "bug", "feature" or both
    MaxRequests,     \* findings made in a behaviour
    Attempts,        \* config: attempts per scan
    Refreshes,       \* times one finding is reviewed again before giving up
    FinderVerdicts,  \* what a review that does not say "new" may say
    MaxMoves,        \* commits pushed to the branch
    MaxEdits,        \* issues other people write, or edit
    MaxFaults,       \* crashes, failed saves, lost answers and agent failures
    MaxRuns          \* polls and commands

ASSUME FinderConstants ==
    /\ Programs \subseteq {"bug", "feature"}
    /\ FinderVerdicts \subseteq {"duplicate", "uncertain", "invalid"}
    /\ {MaxRequests, Attempts, Refreshes, MaxEdits, MaxFaults, MaxRuns} \subseteq Nat
    /\ MaxMoves \in Nat \ {0}

VARIABLES
    kind,      \* which program runs
    head,      \* the branch's newest commit
    edits,     \* versions the other people's issue has had
    filed,     \* issues that carry a marker, oldest first
    inflight,  \* requests GitHub has received no trace of yet
    saved,     \* state.json
    mem,       \* the process's copy
    bot,       \* the process
    faults, runs

finderbot == <<kind, head, edits, filed, inflight, saved, mem, bot, faults, runs>>

Requests == 1..MaxRequests
NoScan == [on |-> FALSE, commit |-> 0, tries |-> 0, discovered |-> FALSE]
Scans == [on: BOOLEAN, commit: 0..MaxMoves, tries: 0..Attempts,
          discovered: BOOLEAN]

\* A review attests versions of issues; <<0, 0>> stands for the finding itself.
Source == <<0, 0>>
Versions == {Source} \cup ({0} \X (1..MaxEdits)) \cup (Requests \X (1..2))

FindingStatuses == {"pending", "posting", "submitted", "duplicate", "uncertain",
             "invalid", "dry_run", "stale"}
NoFinding == [place |-> "none", status |-> "pending", commit |-> 0,
              checked |-> {}]
Candidates == [place: {"none", "scan", "completed"}, status: FindingStatuses,
               commit: 0..MaxMoves, checked: SUBSET Versions]

NotYet == [commit |-> 0, dry |-> FALSE]
States == [scan: Scans, cands: [Requests -> Candidates],
           last: [commit: 0..MaxMoves, dry: BOOLEAN],
           publication: 0..MaxRequests]
NoState == [scan |-> NoScan, cands |-> [r \in Requests |-> NoFinding],
            last |-> NotYet, publication |-> 0]

Off == [pc |-> "off", job |-> "scan", cand |-> 0, read |-> {}, checked |-> {},
        left |-> 0, dry |-> FALSE, fetched |-> 0, prior |-> "pending"]
Places == {"off", "wait", "step", "fetch", "begin", "attempt", "next",
           "review", "batch", "verify", "post", "published", "failing"}

FinderInit ==
    /\ kind \in Programs
    /\ head = 1 /\ edits = 0 /\ filed = <<>> /\ inflight = {}
    /\ saved = NoState /\ mem = NoState
    /\ bot = Off /\ faults = 0 /\ runs = 0

----------------------------------------------------------------------------
\* GitHub, the branch and the state file.

Carries(r) == \E i \in DOMAIN filed : filed[i].request = r
Copies(r) == Cardinality({i \in DOMAIN filed : filed[i].request = r})

\* Every issue as one listing shows it, open or closed, with its comments.
Listing ==
    (IF edits > 0 THEN {<<0, edits>>} ELSE {})
        \cup {<<r, Copies(r)>> : r \in {q \in Requests : Carries(q)}}

\* What a new issue of ours had been compared with.
Landed(r, read, by) ==
    Append(filed, [request |-> r, by |-> by,
                   seen |-> {v[1] : v \in read \ {Source}}])

FinderFault == faults < MaxFaults /\ faults' = faults + 1
Goto(pc) == bot' = [bot EXCEPT !.pc = pc]

\* writeState: a failed one may have replaced the file all the same.
Saves(m, pc) ==
    /\ mem' = m /\ saved' = m /\ Goto(pc) /\ UNCHANGED faults
SaveFails(m, pc) ==
    /\ FinderFault
    /\ mem' = m /\ saved' \in {saved, m} /\ Goto(pc)
SaveAndGo(m, pc, onError) == Saves(m, pc) \/ SaveFails(m, onError)

\* The process goes on without a save, or stops for an error of its tools.
Goes(pc) == Goto(pc) /\ UNCHANGED <<mem, saved, faults>>
Breaks(pc) == FinderFault /\ Goto(pc) /\ UNCHANGED <<mem, saved>>

OthersRest == UNCHANGED <<kind, head, edits, filed, inflight, runs>>

----------------------------------------------------------------------------
\* The saved state's operations.

WithStatus(m, r, status) == [m EXCEPT !.cands[r].status = status]
InScan(m) == {r \in Requests : m.cands[r].place = "scan"}
OfStatus(m, status) == {r \in InScan(m) : m.cands[r].status = status}
First(S) == CHOOSE r \in S : \A q \in S : r <= q

\* checkout.head after a move: what was not reviewed in time is stale.
Staled(m) ==
    [m EXCEPT !.cands = [r \in Requests |->
        IF r \in OfStatus(m, "pending")
        THEN [m.cands[r] EXCEPT !.status = "stale"] ELSE m.cands[r]]]

\* finish: a scan with nothing stale is complete, and its findings are kept.
Complete(m) == m.scan.discovered /\ OfStatus(m, "stale") = {}
Retired(m) ==
    [m EXCEPT !.scan = NoScan,
              !.cands = [r \in Requests |->
                  IF r \in InScan(m)
                  THEN [m.cands[r] EXCEPT !.place = "completed"] ELSE m.cands[r]]]

\* Bug Bot remembers the revision; one published only in dry runs stays open.
LastOf(m, dry) ==
    IF kind = "bug" /\ Complete(m)
    THEN [commit |-> m.scan.commit,
          dry |-> dry \/ OfStatus(m, "dry_run") # {}]
    ELSE m.last
Finished(m, dry) == [Retired(m) EXCEPT !.last = LastOf(m, dry)]

----------------------------------------------------------------------------
\* One poll: engine.step up to the attempt.

AtStep(pc) == bot.pc = pc /\ OthersRest

\* Run: takes the locks and reads the state; the daemon polls again later.
Start ==
    /\ bot.pc \in {"off", "wait"} /\ runs < MaxRuns
    /\ runs' = runs + 1
    /\ IF bot.pc = "wait"
       THEN bot' = [bot EXCEPT !.pc = "step"] /\ UNCHANGED mem
       ELSE /\ \E dry \in BOOLEAN : bot' = [Off EXCEPT !.pc = "step", !.dry = dry]
            /\ mem' = saved
    /\ UNCHANGED <<kind, head, edits, filed, inflight, saved, faults>>

\* A bug: what is not found goes back to be reviewed.
ReconcileReopens ==
    /\ AtStep("step") /\ mem.scan.on /\ OfStatus(mem, "posting") # {}
    /\ LET r == First(OfStatus(mem, "posting")) IN
       SaveAndGo(WithStatus(mem, r, IF Carries(r) THEN "submitted" ELSE "pending"),
                 "step", "wait")

\* A finding whose outcome is unknown is looked for by its marker, never
\* posted again; while one is not found the scan does not go on.
Reconcile ==
    /\ AtStep("step") /\ mem.scan.on /\ OfStatus(mem, "posting") # {}
    /\ LET r == First(OfStatus(mem, "posting")) IN
       IF Carries(r)
       THEN SaveAndGo(WithStatus(mem, r, "submitted"), "step", "wait")
       ELSE Goes("wait")

AllDecided(m) == m.scan.discovered /\ OfStatus(m, "pending") = {}

FinishDecided ==
    /\ AtStep("step") /\ mem.scan.on
    /\ OfStatus(mem, "posting") = {} /\ AllDecided(mem)
    /\ SaveAndGo(Finished(mem, bot.dry), "wait", "wait")

Exhausted == mem.scan.on /\ mem.scan.tries >= Attempts

\* Feature Bot refuses an exhausted scan before it looks at the branch.
Look ==
    /\ AtStep("step")
    /\ mem.scan.on => OfStatus(mem, "posting") = {} /\ ~AllDecided(mem)
    /\ Goes(IF kind = "feature" /\ Exhausted THEN "wait" ELSE "fetch")

\* The branch has moved: the scan ends here, and this poll starts another.
Fetch ==
    /\ bot.pc = "fetch" /\ OthersRest
    /\ \/ /\ mem.scan.on /\ mem.scan.commit # head
          /\ LET m == Finished(Staled(mem), bot.dry) IN
             \/ /\ mem' = m /\ saved' = m /\ UNCHANGED faults
                /\ bot' = [bot EXCEPT !.pc = "begin", !.fetched = head]
             \/ SaveFails(m, "wait")
       \/ /\ mem.scan.on => mem.scan.commit = head
          /\ bot' = [bot EXCEPT !.pc = "begin", !.fetched = head]
          /\ UNCHANGED <<mem, saved, faults>>
       \/ Breaks("wait")

\* Bug Bot's budget belongs to the revision, so it is checked after the fetch.
\* A daemon that scans only on change skips the revision it completed.
BugRests ==
    /\ AtStep("begin") /\ kind = "bug"
    /\ \/ Exhausted
       \/ /\ ~mem.scan.on
          /\ mem.last = [commit |-> bot.fetched, dry |-> bot.dry]
    /\ Goes("wait")

NewScan ==
    /\ AtStep("begin") /\ ~mem.scan.on
    /\ LET m == [mem EXCEPT !.scan =
                    [NoScan EXCEPT !.on = TRUE, !.commit = bot.fetched]] IN
       SaveAndGo(m, "begin", "wait")

\* The attempt is counted before any agent runs.
Count ==
    /\ AtStep("begin") /\ mem.scan.on /\ ~Exhausted
    /\ LET m == [mem EXCEPT !.scan.tries = @ + 1] IN
       SaveAndGo(m, "attempt", "wait")

----------------------------------------------------------------------------
\* attempt: discovery, then each finding in turn.

Fresh == {r \in Requests : mem.cands[r].place = "none"}

Discovered(n) ==
    [mem EXCEPT !.scan.discovered = TRUE,
                !.cands = [r \in Requests |->
                    IF r \in Fresh /\ r < First(Fresh) + n
                    THEN [NoFinding EXCEPT !.place = "scan",
                                           !.commit = mem.scan.commit]
                    ELSE mem.cands[r]]]

Discover ==
    /\ AtStep("attempt")
    /\ IF mem.scan.discovered
       THEN Goes("next")
       ELSE \E n \in 0..Cardinality(Fresh) :
                SaveAndGo(Discovered(n), "next", "failing")

\* An agent that never started gives the attempt back.
Refund(m) == [m EXCEPT !.scan.tries = @ - 1]
AgentBreaks ==
    /\ bot.pc \in {"attempt", "batch"} /\ OthersRest
    /\ FinderFault /\ UNCHANGED saved
    /\ \/ UNCHANGED mem
       \/ bot.job = "scan" /\ mem' = Refund(mem)
    /\ Goto("failing")

NextFinding ==
    /\ AtStep("next")
    /\ LET todo == OfStatus(mem, "pending") IN
       IF todo # {}
       THEN /\ bot' = [bot EXCEPT !.pc = "review", !.cand = First(todo),
                                  !.checked = {}, !.left = Refreshes,
                                  !.prior = "pending"]
            /\ UNCHANGED <<mem, saved, faults>>
       ELSE SaveAndGo(Finished(mem, bot.dry), "wait", "wait")

\* The error of an attempt is saved with the scan, or with the publication.
Fail ==
    /\ AtStep("failing")
    /\ LET pc == IF bot.job = "scan" THEN "wait" ELSE "off" IN
       SaveAndGo(mem, pc, pc)

----------------------------------------------------------------------------
\* reviewAndPublish.

\* Bug Bot keeps what it has checked for this call; Feature Bot saves it.
Checked == IF kind = "bug" THEN bot.checked ELSE mem.cands[bot.cand].checked
Returns == IF bot.job = "scan" THEN "next" ELSE "published"

\* One refresh: everything listed that no review has seen must be reviewed.
ReadIssues ==
    /\ bot.pc = "review" /\ OthersRest
    /\ IF bot.left = 0
       THEN Goes("failing")
       ELSE /\ bot' = [bot EXCEPT !.left = @ - 1, !.read = Listing,
                           !.pc = IF (Listing \cup {Source}) \subseteq Checked
                                  THEN "verify" ELSE "batch"]
            /\ UNCHANGED <<mem, saved, faults>>

Unread == (bot.read \cup {Source}) \ Checked

\* Bug Bot: all batches of a refresh, remembered when the last one is done.
BugBatches ==
    /\ bot.pc = "batch" /\ OthersRest /\ kind = "bug"
    /\ bot' = [bot EXCEPT !.pc = "review", !.checked = @ \cup Unread]
    /\ UNCHANGED <<mem, saved, faults>>

\* Feature Bot: one batch at a time, saved; the first one also validates.
FeatureBatch ==
    /\ AtStep("batch") /\ kind = "feature"
    /\ \E v \in Unread :
        LET m == [mem EXCEPT !.cands[bot.cand].checked = @ \cup {v, Source}]
        IN  SaveAndGo(m, IF Unread \ {v, Source} = {} THEN "review" ELSE "batch",
                      "failing")

\* Any verdict but "new" ends the finding.
Declined ==
    /\ AtStep("batch")
    /\ \E verdict \in FinderVerdicts :
        SaveAndGo(WithStatus(mem, bot.cand, verdict), Returns, "failing")

\* The last look before a post: Feature Bot wants the branch where it was, and
\* both want the listing to be the one that was reviewed.
Advanced == kind = "feature" /\ head # mem.cands[bot.cand].commit

Verify ==
    /\ AtStep("verify")
    /\ LET r == bot.cand IN
       \/ Advanced /\ Goes("failing")
       \/ /\ ~Advanced /\ ~(Listing \subseteq bot.read)
          /\ Goes("review")
       \/ /\ ~Advanced /\ Listing \subseteq bot.read
          /\ \/ /\ kind = "feature" /\ Carries(r)
                /\ SaveAndGo(WithStatus(mem, r, "duplicate"), Returns, "failing")
             \/ /\ ~(kind = "feature" /\ Carries(r)) /\ bot.dry
                /\ SaveAndGo(WithStatus(mem, r, "dry_run"), Returns, "failing")
             \/ /\ ~(kind = "feature" /\ Carries(r)) /\ ~bot.dry
                /\ \/ Saves(WithStatus(mem, r, "posting"), "post")
                   \/ /\ FinderFault /\ Goto("failing") /\ UNCHANGED mem
                      /\ saved' \in {saved, WithStatus(mem, r, "posting")}

\* create: answered, rejected for certain, or not known to have arrived.
Create ==
    /\ bot.pc = "post"
    /\ LET r == bot.cand IN
       \/ /\ filed' = Landed(r, bot.read, bot.job)
          /\ SaveAndGo(WithStatus(mem, r, "submitted"), Returns, "failing")
          /\ UNCHANGED <<kind, head, edits, inflight, runs>>
       \/ /\ FinderFault
          /\ \/ /\ mem' = WithStatus(mem, r, bot.prior)
                /\ UNCHANGED <<filed, inflight>>
             \/ /\ filed' = Landed(r, bot.read, bot.job)
                /\ UNCHANGED <<mem, inflight>>
             \/ /\ inflight' = inflight \cup {[request |-> r, read |-> bot.read, by |-> bot.job]}
                /\ UNCHANGED <<mem, filed>>
          /\ Goto("failing")
          /\ UNCHANGED <<saved, kind, head, edits, runs>>

----------------------------------------------------------------------------
\* Feature Bot's publication of one saved dry-run finding, and the commands.

Command ==
    /\ bot.pc = "off" /\ runs < MaxRuns /\ runs' = runs + 1
    /\ UNCHANGED <<kind, head, edits, filed, inflight>>

Closed(m, r) == IF m.publication = r THEN [m EXCEPT !.publication = 0] ELSE m

\* completePublication, for a selection whose outcome is known.
Completes(m) == SaveAndGo(m, "off", "off")

\* reconcilePublication
PublishReconciles(r) ==
    /\ Command /\ kind = "feature"
    /\ mem.cands[r].place = "completed" /\ mem.cands[r].status = "posting"
    /\ Carries(r)
    /\ Completes(Closed(WithStatus(mem, r, "submitted"), r))

\* The outcome was saved, and the selection was not retired.
PublishResumed(r) ==
    /\ Command /\ kind = "feature"
    /\ ~mem.scan.on /\ mem.publication = r
    /\ mem.cands[r].status \notin {"posting", "dry_run"}
    /\ Completes(Closed(mem, r))

UnresolvedChoice(m) ==
    m.publication # 0 /\ m.cands[m.publication].status = "posting"

\* A selection without a create can be replaced; a fresh one starts its review
\* over, and the branch must be where the finding was made.
PublishFinding(r) ==
    /\ Command /\ kind = "feature"
    /\ ~mem.scan.on /\ ~UnresolvedChoice(mem)
    /\ mem.cands[r].place = "completed" /\ mem.cands[r].status = "dry_run"
    /\ head = mem.cands[r].commit
    /\ LET m == IF mem.publication = r THEN mem
                ELSE [mem EXCEPT !.publication = r, !.cands[r].checked = {}]
           b == [Off EXCEPT !.pc = "review", !.job = "publish", !.cand = r,
                            !.left = Refreshes, !.prior = "dry_run"]
       IN  \/ /\ mem' = m /\ saved' = m /\ bot' = b /\ UNCHANGED faults
           \/ /\ FinderFault /\ saved' \in {saved, m} /\ mem' = saved'
              /\ UNCHANGED bot

Published ==
    /\ AtStep("published")
    /\ Completes(Closed(mem, bot.cand))

\* Retry gives an exhausted scan its attempts back, unless a post is unknown.
Retry ==
    /\ Command
    /\ mem.scan.on /\ OfStatus(mem, "posting") = {}
    /\ LET m == [mem EXCEPT !.scan.tries = 0] IN
       SaveAndGo(m, "off", "off")

----------------------------------------------------------------------------
\* The process ends, and everything that is not the bot.

\* A process that stops leaves the next one what is in the file.
Forget ==
    /\ bot' = Off /\ mem' = saved
    /\ UNCHANGED <<kind, head, edits, filed, inflight, saved, runs>>

Exit == bot.pc = "wait" /\ Forget /\ UNCHANGED faults
Crash == bot.pc \notin {"off", "wait"} /\ FinderFault /\ Forget

\* An "off" reached by a command leaves no copy behind.
Settle ==
    /\ bot.pc = "off" /\ (mem # saved \/ bot # Off)
    /\ Forget /\ UNCHANGED faults

Lands ==
    /\ \E p \in inflight :
        /\ filed' = Landed(p.request, p.read, p.by)
        /\ inflight' = inflight \ {p}
    /\ UNCHANGED <<kind, head, edits, saved, mem, bot, faults, runs>>

Push ==
    /\ head < MaxMoves /\ head' = head + 1
    /\ UNCHANGED <<kind, edits, filed, inflight, saved, mem, bot, faults, runs>>

WriteIssue ==
    /\ edits < MaxEdits /\ edits' = edits + 1
    /\ UNCHANGED <<kind, head, filed, inflight, saved, mem, bot, faults, runs>>

\* A dry run logs the whole body, and a person may file it by hand.
CopyBody(r) ==
    /\ edits < MaxEdits /\ edits' = edits + 1
    /\ saved.cands[r].status = "dry_run" /\ ~Carries(r)
    /\ filed' = Landed(r, {}, "person")
    /\ UNCHANGED <<kind, head, inflight, saved, mem, bot, faults, runs>>

Commands ==
    /\ mem = saved /\ bot = Off
    /\ Retry \/ \E r \in Requests :
                    PublishReconciles(r) \/ PublishResumed(r) \/ PublishFinding(r)

FinderNext ==
    \/ Start \/ Reconcile \/ FinishDecided \/ Look \/ Fetch
    \/ BugRests \/ NewScan \/ Count
    \/ Discover \/ AgentBreaks \/ NextFinding \/ Fail
    \/ ReadIssues \/ BugBatches \/ FeatureBatch \/ Declined \/ Verify \/ Create
    \/ Published \/ Commands
    \/ Exit \/ Crash \/ Settle \/ Lands \/ Push \/ WriteIssue
    \/ \E r \in Requests : CopyBody(r)

FinderSpec == FinderInit /\ [][FinderNext]_finderbot

----------------------------------------------------------------------------
\* Properties.

FinderTypeOK ==
    /\ kind \in Programs /\ head \in 1..MaxMoves /\ edits \in 0..MaxEdits
    /\ \A i \in DOMAIN filed :
        filed[i] \in [request: Requests, by: {"scan", "publish", "person"},
                      seen: SUBSET (0..MaxRequests)]
    /\ saved \in States /\ mem \in States
    /\ bot.pc \in Places /\ bot.cand \in 0..MaxRequests
    /\ bot.read \subseteq Versions /\ bot.left \in 0..Refreshes

Ours(i) == filed[i].by # "person"

(* A finding becomes at most one issue, whatever answers are lost, saves fail *)
(* or processes die between the save before the post and the one after it.    *)
OneIssuePerFinding ==
    \A i, j \in DOMAIN filed :
        Ours(i) /\ Ours(j) /\ filed[i].request = filed[j].request => i = j

(* The state file always knows a request GitHub has, or may still get: it is *)
(* posting or submitted there, so neither a new scan, a retry, a replaced    *)
(* selection nor a restart can send it again or forget to look for it.       *)
SentIsSaved ==
    \A r \in Requests :
        \/ \E i \in DOMAIN filed : Ours(i) /\ filed[i].request = r
        \/ \E p \in inflight : p.request = r
        => saved.cands[r].status \in {"posting", "submitted"}

(* Of two findings that scans filed the later was reviewed against the issue *)
(* of the earlier, however late that issue appeared, and so of two that      *)
(* publications filed.  A scan and a publication whose outcome is unknown    *)
(* may miss each other: step does not look at the publication.               *)
OwnIssuesCompared ==
    \A i, j \in DOMAIN filed :
        i < j /\ Ours(i) /\ filed[i].by = filed[j].by
        => filed[i].request \in filed[j].seen

FinderHolds == FinderTypeOK /\ OneIssuePerFinding /\ SentIsSaved /\ OwnIssuesCompared

(* What was decided of a finding stays decided. *)
Decided == {"submitted", "duplicate", "uncertain", "invalid", "stale"}
KeepsDecisions ==
    \A r \in Requests :
        saved.cands[r].status \in Decided => saved'.cands[r].status = saved.cands[r].status
=============================================================================
