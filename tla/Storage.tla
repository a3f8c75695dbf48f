------------------------------ MODULE Storage ------------------------------
(***************************************************************************)
(* Storage cleanup of one town (storage.go, storage_records.go, the bots'  *)
(* side in botapi/storage.go): an operator looks at an inventory, selects  *)
(* artifacts in it, and Town removes what is finished and unchanged.  A    *)
(* bot removes its own transcripts when Town asks it; Town removes its own *)
(* transcripts and repair worktrees.                                       *)
(*                                                                         *)
(* An artifact's content is a number, the commit of a worktree; a receipt  *)
(* and an artifact's identity name it.  A worktree has files that are not  *)
(* committed, and its removal takes three commands of git, between which   *)
(* people work in it; each command by itself is atomic, and ends before    *)
(* Town does.  Left out: measuring, ages, unsafe paths, kinds that are     *)
(* never eligible, and a person who leaves the private branch.  A run      *)
(* stands for whatever storageHold and the supervisor's reservations wait  *)
(* for.                                                                    *)
(***************************************************************************)
EXTENDS Integers, FiniteSets

CONSTANTS
    BotFiles, OwnFiles, Worktrees,  \* the artifacts, by kind
    Gateways,    \* whether a gateway may fail after it forwarded a request
    MaxContent,  \* bound: how often an artifact is written
    MaxCleanups, \* bound: cleanups asked for
    MaxStoreFaults

Artifacts == BotFiles \cup OwnFiles \cup Worktrees
Transcripts == BotFiles \cup OwnFiles
Never == 0
Gone == -1

VARIABLES
    stored,   \* each artifact's content
    dirt,     \* what git status says of a worktree's files
    branch,   \* the commit that the private branch of a removed worktree holds
    receipt,  \* state.json: Artifacts, and the repair intent of a worktree
    terminal, \* state.json: the tasks that are over, by the artifact of each
    run,      \* a run in progress: what it wrote, or idle
    outsider, \* a bot started outside Town holds the state lock
    view,     \* the inventory the operator selects from
    cleanup,  \* CleanupStorage, and with it the reservation
    wanted,   \* removals a bot has not got to: file, digest and which cleanup
    cleanups, storefaults,
    removed   \* read by no action: what removals found, and what was claimed

storage == <<stored, dirt, branch, receipt, terminal, run, outsider, view, cleanup,
             wanted, cleanups, storefaults, removed>>

NoReceipt == [content |-> Never, complete |-> FALSE]
IdleRun == [active |-> FALSE, had |-> {}]
NoIds == [a \in Artifacts |-> Never]
NoCleanup == [pc |-> "idle", picked |-> {}, left |-> {}, at |-> {}, answer |-> "none",
              ids |-> NoIds]
Answers == {"none", "answered", "uncertain", "retained"}
\* Nothing; ignored files only; changed or untracked files.
Dirts == {"none", "ignored", "changed"}

StorageInit ==
    /\ stored = NoIds /\ dirt = [a \in Artifacts |-> "none"] /\ branch = NoIds
    /\ receipt = [a \in Artifacts |-> NoReceipt]
    /\ terminal = {} /\ run = IdleRun /\ outsider = FALSE
    /\ view = NoIds /\ cleanup = NoCleanup /\ wanted = {}
    /\ cleanups = 0 /\ storefaults = 0
    /\ removed = [now |-> {}, wrong |-> FALSE, lied |-> FALSE]

StoreFault == storefaults < MaxStoreFaults /\ storefaults' = storefaults + 1
Busy == cleanup.pc # "idle"
Present(a) == stored[a] > 0
Counters == <<cleanups, storefaults>>
Trees == <<dirt, branch>>

----------------------------------------------------------------------------
\* Runs, people and bots outside Town.

\* dispatchEligibility and Update keep runs out of a town that is cleaned up.
RunStarts ==
    /\ ~run.active /\ ~Busy /\ ~outsider
    /\ run' = [active |-> TRUE, had |-> {a \in Artifacts : Present(a)}]
    /\ UNCHANGED <<stored, Trees, receipt, terminal, outsider, view, cleanup, wanted,
                   Counters, removed>>

\* A transcript has a name of its own, which no later session takes again.
Written(a) ==
    stored[a] # Gone /\ stored[a] < MaxContent /\ stored' = [stored EXCEPT ![a] = @ + 1]

RunWrites ==
    /\ run.active /\ \E a \in Artifacts : Written(a)
    /\ UNCHANGED <<Trees, receipt, terminal, run, outsider, view, cleanup, wanted,
                   Counters, removed>>

\* recordTranscripts: receipts are for the transcripts the run added.
RunReceipts(complete) ==
    [a \in Artifacts |->
        IF Present(a) /\ (a \in Transcripts => a \notin run.had)
        THEN [content |-> stored[a], complete |-> complete] ELSE receipt[a]]

RunEnds ==
    /\ run.active /\ run' = IdleRun
    /\ \/ receipt' \in {RunReceipts(TRUE), RunReceipts(FALSE)} /\ UNCHANGED storefaults
       \/ StoreFault /\ UNCHANGED receipt
    /\ UNCHANGED <<stored, Trees, terminal, outsider, view, cleanup, wanted, cleanups,
                   removed>>

\* A bot run by hand: it holds the workspace's state lock while it works.
Outsider ==
    /\ ~run.active /\ outsider' = ~outsider
    /\ UNCHANGED <<stored, Trees, receipt, terminal, run, view, cleanup, wanted,
                   Counters, removed>>
OutsiderWrites ==
    /\ outsider /\ \E a \in BotFiles : Written(a)
    /\ UNCHANGED <<Trees, receipt, terminal, run, outsider, view, cleanup, wanted,
                   Counters, removed>>
\* A person works in a repair worktree: leaves files in it, commits, or both.
PersonEdits ==
    /\ \E a \in Worktrees, files \in Dirts :
          /\ Present(a) /\ dirt' = [dirt EXCEPT ![a] = files]
          /\ Written(a) \/ UNCHANGED stored
    /\ UNCHANGED <<branch, receipt, terminal, run, outsider, view, cleanup, wanted,
                   Counters, removed>>

\* Update: a cleanup keeps completed work from being opened again.
TaskMoves ==
    /\ \E a \in Transcripts :
          terminal' = IF a \in terminal THEN terminal \ {a} ELSE terminal \cup {a}
    /\ Busy => terminal \subseteq terminal'
    /\ UNCHANGED <<stored, Trees, receipt, run, outsider, view, cleanup, wanted,
                   Counters, removed>>

----------------------------------------------------------------------------
\* The inventory.

\* retained, the transcript's digest, and repairRetention: the receipt is of a
\* completed run, the task is over, the content is what the receipt says and a
\* worktree has no files of its own, ignored ones included.
Cleanable(a) ==
    /\ Present(a) /\ receipt[a].complete /\ stored[a] = receipt[a].content
    /\ dirt[a] = "none"
    /\ a \in Transcripts => a \in terminal

\* The identities it offers: none while the town is busy, or when a part of the
\* inventory could not be read.
ContentIds == [a \in Artifacts |-> IF Cleanable(a) /\ ~run.active THEN stored[a] ELSE Never]

Look ==
    /\ view' \in {ContentIds, NoIds} /\ view' # view
    /\ UNCHANGED <<stored, Trees, receipt, terminal, run, outsider, cleanup, wanted,
                   Counters, removed>>

----------------------------------------------------------------------------
\* CleanupStorage.

\* beginStorage: nothing runs, and nothing will until the cleanup is over.
BeginCleanup ==
    /\ ~Busy /\ ~run.active
    /\ cleanups < MaxCleanups /\ cleanups' = cleanups + 1
    /\ \E picked \in SUBSET {a \in Artifacts : view[a] # Never} :
          /\ picked # {}
          /\ cleanup' = [NoCleanup EXCEPT !.pc = "scan", !.picked = picked,
                                          !.ids = view]
    /\ removed' = [removed EXCEPT !.now = {}]
    /\ UNCHANGED <<stored, Trees, receipt, terminal, run, outsider, view, wanted,
                   storefaults>>

Untouched == UNCHANGED <<terminal, run, outsider, view, cleanups>>

\* A second inventory, under the reservation: one identity that is not in it
\* any more refuses the selection.
Scan ==
    /\ cleanup.pc = "scan"
    /\ LET picked == cleanup.picked IN
       \/ /\ \A a \in picked : ContentIds[a] = cleanup.ids[a]
          /\ cleanup' = [cleanup EXCEPT !.left = picked,
                !.pc = IF picked \cap BotFiles = {} THEN "remove" ELSE "ask"]
       \/ cleanup' = NoCleanup
    /\ Untouched /\ UNCHANGED <<stored, Trees, receipt, wanted, storefaults, removed>>

\* removeBotTranscripts: the bot is asked for what it keeps, by digest.
CleanupRequest == {<<a, cleanup.ids[a], cleanups>> : a \in cleanup.picked \cap BotFiles}
Ask ==
    /\ cleanup.pc = "ask"
    /\ \/ /\ wanted' = wanted \cup CleanupRequest
          /\ cleanup' = [cleanup EXCEPT !.pc = "wait"]
          /\ UNCHANGED storefaults
       \/ /\ StoreFault /\ UNCHANGED wanted
          /\ cleanup' = [cleanup EXCEPT !.pc = "remove", !.answer = "retained"]
    /\ Untouched /\ UNCHANGED <<stored, Trees, receipt, removed>>

\* Transcript p[1] goes, removed for cleanup p[3] as having content p[2].
Taken(p) ==
    [removed EXCEPT !.now = IF p[3] = cleanups THEN @ \cup {p[1]} ELSE @,
                    !.wrong = @ \/ stored[p[1]] # p[2]]
Vanishes(a) == stored' = [stored EXCEPT ![a] = Gone]
Took(p) == Vanishes(p[1]) /\ removed' = Taken(p)

\* Worker.remove, for one transcript: only under the state lock, which a bot
\* that works holds, and only what still has the digest that was selected.
\* Otherwise, or when its context ended, it keeps it.
BotRemoves ==
    /\ \E p \in wanted :
          /\ wanted' = wanted \ {p}
          /\ IF ~run.active /\ ~outsider /\ stored[p[1]] = p[2]
             THEN Took(p) ELSE UNCHANGED <<stored, removed>>
    /\ Untouched /\ UNCHANGED <<Trees, receipt, cleanup, storefaults>>
BotRefuses ==
    /\ StoreFault /\ \E p \in wanted : wanted' = wanted \ {p}
    /\ Untouched /\ UNCHANGED <<stored, Trees, receipt, cleanup, removed>>

\* Client.Storage: the whole answer; an answer that broke off; or a refusal,
\* which is also what it takes a gateway's failure for.
BotAnswers ==
    /\ cleanup.pc = "wait"
    /\ \/ /\ wanted \cap CleanupRequest = {}
          /\ cleanup' = [cleanup EXCEPT !.pc = "remove", !.answer = "answered"]
          /\ UNCHANGED storefaults
       \/ /\ StoreFault
          /\ \E answer \in {"uncertain"} \cup (IF Gateways THEN {"retained"} ELSE {}) :
                cleanup' = [cleanup EXCEPT !.pc = "remove", !.answer = answer]
    /\ Untouched /\ UNCHANGED <<stored, Trees, receipt, wanted, removed>>

\* What the operator is told of a, after which cleanup's removals are r and the
\* private branch of a holds kept: whether it says more than what is so.
Claim(a, status, r, kept) ==
    \/ status = "removed" /\ (a \notin r.now \/ kept # Never)
    \/ status = "partial" /\ a \notin r.now
    \/ status = "retained" /\ (a \in r.now \/ <<a, cleanup.ids[a], cleanups>> \in wanted)
Told(a, status, r, kept) == [r EXCEPT !.lied = @ \/ Claim(a, status, r, kept)]
BotStatus(a) ==
    IF cleanup.answer # "answered" THEN cleanup.answer
    ELSE IF a \in removed.now THEN "removed" ELSE "retained"

\* On to the next artifact; after the last one the reservation is given up.
Passed(a) ==
    LET after == [cleanup EXCEPT !.pc = "remove", !.left = @ \ {a}, !.at = {}] IN
    IF after.left = {} THEN NoCleanup ELSE after

\* The removal's receipt goes; when that cannot be saved the cleanup ends.
Settled(a, status) ==
    \/ /\ receipt' = IF status = "removed" /\ a \in Transcripts
                     THEN [receipt EXCEPT ![a] = NoReceipt] ELSE receipt
       /\ cleanup' = Passed(a) /\ UNCHANGED storefaults
    \/ /\ status = "removed" /\ StoreFault /\ UNCHANGED receipt
       /\ cleanup' = NoCleanup
\* A command of git or the file system fails, or the context is over.
Failed(a) == StoreFault /\ UNCHANGED receipt /\ cleanup' = Passed(a)

ReportBot ==
    /\ cleanup.pc = "remove"
    /\ \E a \in cleanup.left \cap BotFiles :
          /\ Settled(a, BotStatus(a))
          /\ removed' = Told(a, BotStatus(a), removed, Never)
    /\ Untouched /\ UNCHANGED <<stored, Trees, wanted>>

\* Town's own artifacts are looked at again, a transcript's digest or with
\* repairRetention the head and the files of a worktree; what is not as it was
\* selected stays.
AsSelected(a) == stored[a] = cleanup.ids[a] /\ dirt[a] = "none"
CheckOwn ==
    /\ cleanup.pc = "remove"
    /\ \E a \in cleanup.left \ BotFiles :
          \/ /\ AsSelected(a)
             /\ cleanup' = [cleanup EXCEPT !.pc = "taking", !.at = {a}]
             /\ UNCHANGED <<receipt, storefaults, removed>>
          \/ /\ ~AsSelected(a) /\ Settled(a, "retained")
             /\ removed' = Told(a, "retained", removed, Never)
          \/ Failed(a) /\ removed' = Told(a, "retained", removed, Never)
    /\ Untouched /\ UNCHANGED <<stored, Trees, wanted>>

\* os.Remove. A removal that failed is uncertain, and claims nothing.
TakeTranscript ==
    /\ cleanup.pc = "taking"
    /\ \E a \in cleanup.at \ Worktrees :
          LET taken == Taken(<<a, cleanup.ids[a], cleanups>>) IN
          \/ Vanishes(a) /\ Settled(a, "removed") /\ removed' = Told(a, "removed", taken, Never)
          \/ Failed(a) /\ UNCHANGED <<stored, removed>>
    /\ Untouched /\ UNCHANGED <<Trees, wanted>>

\* git worktree remove, without --force: it does not look at the head, and it
\* refuses changed and untracked files, not ignored ones. The branch stays at
\* the commit the worktree had.
TreeGoes(a) ==
    /\ Vanishes(a) /\ dirt' = [dirt EXCEPT ![a] = "none"]
    /\ branch' = [branch EXCEPT ![a] = stored[a]]
    /\ removed' = [removed EXCEPT !.now = @ \cup {a}, !.wrong = @ \/ dirt[a] = "changed"]
TakeWorktree ==
    /\ cleanup.pc = "taking"
    /\ \E a \in cleanup.at \cap Worktrees :
          \/ /\ dirt[a] # "changed" /\ TreeGoes(a)
             /\ \/ /\ cleanup' = [cleanup EXCEPT !.pc = "branch"]
                   /\ UNCHANGED <<receipt, storefaults>>
                \/ Failed(a)
          \/ /\ UNCHANGED <<stored, Trees, removed>>
             /\ (dirt[a] = "changed" /\ Settled(a, "uncertain")) \/ Failed(a)
    /\ Untouched /\ UNCHANGED wanted

BranchGoes(a) == branch' = [branch EXCEPT ![a] = Never]
Dropped(a) == [removed EXCEPT !.wrong = @ \/ branch[a] # cleanup.ids[a]]

\* A bug: the branch is deleted whatever it holds.
DropBranchBlindly ==
    /\ cleanup.pc = "branch"
    /\ \E a \in cleanup.at :
          /\ BranchGoes(a) /\ Settled(a, "removed")
          /\ removed' = Told(a, "removed", Dropped(a), Never)
    /\ Untouched /\ UNCHANGED <<stored, dirt, wanted>>

\* git update-ref -d refuses a branch that is not at the commit it is given:
\* what was committed meanwhile stays, and the report says "partial".
DropBranch ==
    /\ cleanup.pc = "branch"
    /\ \E a \in cleanup.at :
          \/ /\ branch[a] = cleanup.ids[a] /\ BranchGoes(a)
             /\ \/ /\ Settled(a, "removed")
                   /\ removed' = Told(a, "removed", Dropped(a), Never)
                \/ Failed(a) /\ removed' = Told(a, "partial", Dropped(a), Never)
          \/ /\ (branch[a] # cleanup.ids[a] /\ Settled(a, "partial")) \/ Failed(a)
             /\ removed' = Told(a, "partial", removed, branch[a])
             /\ UNCHANGED branch
    /\ Untouched /\ UNCHANGED <<stored, dirt, wanted>>

\* The reservation is not durable.
Dies ==
    /\ (Busy \/ run.active) /\ StoreFault
    /\ cleanup' = NoCleanup /\ run' = IdleRun
    /\ UNCHANGED <<stored, Trees, receipt, terminal, outsider, view, wanted, cleanups,
                   removed>>

StorageNext ==
    \/ RunStarts \/ RunWrites \/ RunEnds \/ Outsider \/ OutsiderWrites
    \/ PersonEdits \/ TaskMoves \/ Look
    \/ BeginCleanup \/ Scan \/ Ask \/ BotRemoves \/ BotRefuses \/ BotAnswers
    \/ ReportBot \/ CheckOwn \/ TakeTranscript \/ TakeWorktree \/ DropBranch \/ Dies

StorageSpec == StorageInit /\ [][StorageNext]_storage

----------------------------------------------------------------------------
\* Properties.

StorageTypeOK ==
    /\ stored \in [Artifacts -> Gone..MaxContent] /\ dirt \in [Artifacts -> Dirts]
    /\ branch \in [Artifacts -> 0..MaxContent] /\ view \in [Artifacts -> 0..MaxContent]
    /\ receipt \in [Artifacts -> [content: 0..MaxContent, complete: BOOLEAN]]
    /\ terminal \subseteq Artifacts /\ outsider \in BOOLEAN
    /\ run \in [active: BOOLEAN, had: SUBSET Artifacts]
    /\ cleanup \in [pc: {"idle", "scan", "ask", "wait", "remove", "taking", "branch"},
                    picked: SUBSET Artifacts, left: SUBSET Artifacts,
                    at: SUBSET Artifacts, answer: Answers, ids: [Artifacts -> 0..MaxContent]]
    /\ wanted \subseteq BotFiles \X (1..MaxContent) \X (1..MaxCleanups)
    /\ cleanups \in 0..MaxCleanups /\ storefaults \in 0..MaxStoreFaults

(* Nothing is lost that the operator did not see when selecting it, however  *)
(* long a bot takes over the request and whoever writes or commits between   *)
(* the check and the removal: a transcript goes with the content that was    *)
(* selected, a worktree without changed or untracked files, and its private  *)
(* branch only at the commit that was selected.                              *)
RemovedAsSelected == ~removed.wrong

(* The operator is told "removed" only of what is gone, its branch included, *)
(* "partial" only of a worktree that is gone, and "retained" only of what    *)
(* this cleanup did not and will not remove.                                 *)
ReportIsTrue == ~removed.lied
CleanupHolds == RemovedAsSelected /\ ReportIsTrue

(* As long as a cleanup lasts, it removes transcripts of completed runs on   *)
(* tasks that are over, although people reopen tasks whenever they like.     *)
RemovesFinished ==
    \A a \in cleanup.picked \cap Transcripts :
       (stored[a] # Gone /\ stored'[a] = Gone /\ cleanup.pc \in {"wait", "remove", "taking", "branch"})
         => a \in terminal /\ receipt[a].complete
FinishedOnly == [][RemovesFinished]_storage

(* repairRetention's comment: "Check ownership, the exact saved commit and   *)
(* all tracked/untracked/ignored files".  No run checks this: files that git *)
(* ignores and that appear after the check go with the worktree.             *)
KeepsIgnored == \A a \in Worktrees : stored'[a] = Gone => dirt[a] # "ignored"
IgnoredAreKept == [][KeepsIgnored]_storage
=============================================================================
