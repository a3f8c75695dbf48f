------------------------------ MODULE ReleaseBot ----------------------------
(***************************************************************************)
(* Release Bot's durable job (bots/release-bot): watch a branch, prepare a   *)
(* release with one agent session, check the plan, publish it with another   *)
(* session, verify what was published and record it. Town starts one run at  *)
(* a time (Run with once); a run may be canceled or die at any step, and     *)
(* the next one resumes from the saved state.                               *)
(*                                                                          *)
(* Abstractions: the branch is linear and a commit is its number, 0 a commit *)
(* that is not on it; a publication is a tag and "good" once its workflows,  *)
(* assets and destinations are. When a release is due is a free choice as    *)
(* long as there is something to release; cached build checks, triage, the   *)
(* retry delay (which a run that is starting ignores) and reports are left   *)
(* out. Agents do anything but publish without a validated plan.            *)
(***************************************************************************)
EXTENDS Integers, FiniteSets

CONSTANTS
    ReleaseAttempts,  \* attempts a job may use
    MaxTrunk,         \* bound: commits on the branch
    MaxTags,          \* bound: release tags
    MaxReleaseRuns,   \* bound: runs of the bot
    MaxUpsets         \* bound: crashes, cancellations, failed saves, false verdicts

ReleaseTags == 1..MaxTags
Older == 2    \* releases from before the bot: tag 1 at commit 1, tag 2 at commit 2

ASSUME ReleaseConstants ==
    /\ {ReleaseAttempts, MaxTrunk, MaxTags, MaxReleaseRuns, MaxUpsets} \subseteq Nat
    /\ Older <= MaxTrunk /\ Older <= MaxTags

VARIABLES
    trunk,         \* the remote branch's newest commit
    tags,          \* where each remote tag is; 0: there is none
    good,          \* tags whose publication is complete
    worktree,      \* the checkout's HEAD
    releaseFile,   \* state.json
    releaser,      \* the running process: where it is and its working copy
    releaseRuns, upsets,
    told,          \* "verified" notifications sent
    used, owed     \* read by no action: see the properties

releasebot == <<trunk, tags, good, worktree, releaseFile, releaser, releaseRuns,
                upsets, told, used, owed>>

NoPlan    == [commit |-> 0, tag |-> 0]
Plans     == [commit : 0..MaxTrunk, tag : ReleaseTags] \cup {NoPlan}
NoRelease == [target |-> 0]
ReleaseJobs ==
    [target : 1..MaxTrunk, tries : 0..ReleaseAttempts,
     phase : {"new", "preflight", "validating", "publish"}, needs : BOOLEAN,
     plan : Plans, candidate : Plans, failure : {"", "verify", "other"}]
Missing   == [released |-> -1]
ReleaseStates ==
    [released : 0..MaxTrunk, history : 0..MaxReleaseRuns, job : ReleaseJobs \cup {NoRelease}]
Asleep    == [pc |-> "off"]
ReleaseStages ==
    {"open", "watch", "resume", "attempt", "prepare", "validate", "publish", "verify", "notify"}

ReleaseTypeOK ==
    /\ trunk \in Older..MaxTrunk /\ worktree \in 0..trunk
    /\ tags \in [ReleaseTags -> 0..MaxTrunk] /\ good \subseteq {t \in ReleaseTags : tags[t] # 0}
    /\ releaseFile \in ReleaseStates \cup {Missing}
    /\ \/ releaser = Asleep
       \/ releaser.pc \in ReleaseStages /\ releaser.st \in ReleaseStates \cup {Missing}
    /\ releaseRuns \in 0..MaxReleaseRuns /\ upsets \in 0..MaxUpsets
    /\ told \in 0..MaxReleaseRuns /\ owed \subseteq Plans

ReleaseInit ==
    /\ trunk = Older /\ worktree = Older
    /\ tags = [t \in ReleaseTags |-> IF t <= Older THEN t ELSE 0] /\ good = 1..Older
    /\ releaseFile = Missing /\ releaser = Asleep
    /\ releaseRuns = 0 /\ upsets = 0 /\ told = 0 /\ used = 0 /\ owed = {}

Upset  == upsets < MaxUpsets /\ upsets' = upsets + 1
remote == <<trunk, tags, good>>
ghosts == <<told, used, owed>>

-----------------------------------------------------------------------------
(***************************************************************************)
(* Saving. A failed save ends the run; the file may be the new one. During   *)
(* an attempt the failure is saved in turn.                                 *)
(***************************************************************************)

ReleaserAt(pc, st) == releaser' = [releaser EXCEPT !.pc = pc, !.st = st]
Ends == releaser' = Asleep

ReleaseSaves(st) == releaseFile' = st /\ UNCHANGED upsets
WithJob(st, j) == [st EXCEPT !.job = j]
FailedWith(j, reason) == [j EXCEPT !.failure = reason]
AfterFailure(st) ==
    IF releaser.pc \in {"attempt", "prepare", "validate", "publish"}
    THEN {WithJob(st, FailedWith(st.job, "other"))} ELSE {}
EndsUnsaved(files) == Upset /\ releaseFile' \in files /\ Ends
ReleaseSaveFails(st) == EndsUnsaved({releaseFile, st} \cup AfterFailure(st))
SavesAndGoes(pc, st) == (ReleaseSaves(st) /\ ReleaserAt(pc, st)) \/ ReleaseSaveFails(st)
SavesAndEnds(st) == (ReleaseSaves(st) /\ Ends) \/ ReleaseSaveFails(st)

-----------------------------------------------------------------------------
(***************************************************************************)
(* What is published.                                                       *)
(***************************************************************************)

\* verify: the remote tag is at the commit, which has the target and is on the
\* branch, and GitHub and every destination agree.
IsPublished(target, p) ==
    /\ p # NoPlan /\ tags[p.tag] = p.commit
    /\ target <= p.commit /\ p.commit \in 1..trunk
    /\ p.tag \in good

\* A verification may also fail for a reason of its own.
Verified(target, p)   == IsPublished(target, p) /\ UNCHANGED upsets
Unverified(target, p) == ~IsPublished(target, p) /\ UNCHANGED upsets
Misjudged(target, p)  == IsPublished(target, p) /\ Upset

\* Workflows and registries finish on their own time.
PublicationCompletes ==
    /\ \E t \in ReleaseTags : tags[t] # 0 /\ t \notin good /\ good' = good \cup {t}
    /\ UNCHANGED <<trunk, tags, worktree, releaseFile, releaser, releaseRuns, upsets, ghosts>>

PushOutside ==
    /\ trunk < MaxTrunk /\ trunk' = trunk + 1
    /\ UNCHANGED <<tags, good, worktree, releaseFile, releaser, releaseRuns, upsets, ghosts>>

-----------------------------------------------------------------------------
(***************************************************************************)
(* A run: read, watch or resume.                                            *)
(***************************************************************************)

ReleaseBegins ==
    /\ releaser = Asleep /\ releaseRuns < MaxReleaseRuns /\ releaseRuns' = releaseRuns + 1
    /\ releaser' = [pc |-> "open", st |-> releaseFile, found |-> {}, misjudged |-> FALSE]
    /\ UNCHANGED <<remote, worktree, releaseFile, upsets, ghosts>>

\* bootstrap: the newest published release that is on the branch.
Bootstrapped == [released |-> Older, history |-> 0, job |-> NoRelease]
Open ==
    /\ releaser.pc = "open"
    /\ LET st == IF releaser.st = Missing THEN Bootstrapped ELSE releaser.st
       IN  ReleaserAt(IF st.job = NoRelease THEN "watch" ELSE "resume", st)
    /\ UNCHANGED <<remote, worktree, releaseFile, releaseRuns, upsets, ghosts>>

\* releaseHead and changes: commits of the branch and of the checkout count.
Unreleased(st) == trunk > st.released \/ worktree = 0
NewJob == [target |-> trunk, tries |-> 0, phase |-> "new", needs |-> FALSE,
           plan |-> NoPlan, candidate |-> NoPlan, failure |-> ""]

NotDue ==
    /\ releaser.pc = "watch" /\ SavesAndEnds(releaser.st)
    /\ UNCHANGED <<remote, worktree, releaseRuns, ghosts>>

\* The job is saved before its first attempt; a new branch starts at the newest
\* commit, or at local work that was left behind.
StartJob ==
    /\ releaser.pc = "watch" /\ Unreleased(releaser.st)
    /\ worktree' = IF worktree = 0 THEN 0 ELSE trunk
    /\ SavesAndGoes("resume", WithJob(releaser.st, NewJob))
    /\ used' = 0 /\ owed' = {}
    /\ UNCHANGED <<remote, releaseRuns, told>>

-----------------------------------------------------------------------------
(***************************************************************************)
(* Finishing and failing.                                                   *)
(***************************************************************************)

\* recordVerified counts a tag and commit once.
Recorded(st, p) ==
    [released |-> p.commit, job |-> NoRelease,
     history |-> IF p.tag > Older THEN st.history + 1 ELSE st.history]
RecordVerified(st, p) ==
    /\ \/ releaseFile' = Recorded(st, p) /\ ReleaserAt("notify", Recorded(st, p))
       \/ releaseFile' \in {releaseFile, Recorded(st, p)} /\ Ends
    /\ UNCHANGED used

Notify ==
    /\ releaser.pc = "notify" /\ Ends /\ told' = told + 1
    /\ UNCHANGED <<remote, worktree, releaseFile, releaseRuns, upsets, used, owed>>

\* interrupted: a canceled attempt is given back.
Refunded(j)   == [j EXCEPT !.tries = @ - 1]
Canceled(j)   == EndsUnsaved({releaseFile, WithJob(releaser.st, j)})

-----------------------------------------------------------------------------
(***************************************************************************)
(* resume: what an earlier run may have published comes first.              *)
(***************************************************************************)

\* The receipt, and the plan when it is another one: a publication can finish
\* before its receipt arrives, whatever phase a later attempt went back to.
Publications(j) == {j.candidate, j.plan} \ {NoPlan}

Owed(j) == {p \in owed : IsPublished(j.target, p)}

ResumeVerifies ==
    /\ releaser.pc = "resume"
    /\ \E p \in Publications(releaser.st.job) :
          Verified(releaser.st.job.target, p) /\ RecordVerified(releaser.st, p)
    /\ owed' = {} /\ UNCHANGED <<remote, worktree, releaseRuns, told>>

\* A receipt that fails as it failed before needs a repair by preparation.
Disproved(j) ==
    LET failing == [j EXCEPT !.failure = IF j.candidate # NoPlan THEN "verify"
                                         ELSE IF j.plan # NoPlan /\ @ = "" THEN "other" ELSE @]
    IN  {failing} \cup
        IF j.candidate # NoPlan /\ j.candidate = j.plan /\ j.failure = "verify"
        THEN {[failing EXCEPT !.needs = TRUE]} ELSE {}

Misjudges(j) ==
    IF \E p \in Publications(j) : IsPublished(j.target, p) THEN Upset ELSE UNCHANGED upsets

\* The consumed attempt is durable before any agent runs.
Consumed(j) == [j EXCEPT !.tries = @ + 1]
ResumeAttempts ==
    /\ releaser.pc = "resume" /\ Misjudges(releaser.st.job)
    /\ \E j \in Disproved(releaser.st.job) :
          IF j.tries >= ReleaseAttempts
          THEN releaseFile' = WithJob(releaser.st, j) /\ Ends /\ UNCHANGED used
          ELSE /\ releaseFile' = WithJob(releaser.st, Consumed(j)) /\ used' = used + 1
               /\ releaser' = [pc |-> "attempt", st |-> WithJob(releaser.st, Consumed(j)),
                          found |-> Owed(j), misjudged |-> upsets' # upsets]
    /\ UNCHANGED <<remote, worktree, releaseRuns, told, owed>>

ResumeCanceled ==
    /\ releaser.pc = "resume" /\ Canceled(releaser.st.job)
    /\ UNCHANGED <<remote, worktree, releaseRuns, ghosts>>

-----------------------------------------------------------------------------
(***************************************************************************)
(* publishAttempt.                                                          *)
(***************************************************************************)

job == releaser.st.job
Usable(j) ==
    j.phase \in {"validating", "publish"} /\ ~j.needs /\ j.plan # NoPlan /\ worktree = j.plan.commit

Attempt ==
    /\ releaser.pc = "attempt"
    /\ IF Usable(job)
       THEN SavesAndGoes("validate", WithJob(releaser.st, [job EXCEPT !.phase = "validating"]))
       ELSE SavesAndGoes("prepare",
                WithJob(releaser.st, [job EXCEPT !.phase = "preflight", !.needs = TRUE]))
    /\ UNCHANGED <<remote, worktree, releaseRuns, ghosts>>

\* The preparation agent commits, pushes and merges; it may leave a commit that
\* is not on the branch.
AgentPrepares ==
    /\ releaser.pc = "prepare"
    /\ \/ worktree # 0 /\ worktree' = 0 /\ UNCHANGED trunk
       \/ trunk < MaxTrunk /\ trunk' = trunk + 1 /\ worktree' = trunk'
       \/ worktree # trunk /\ worktree' = trunk /\ UNCHANGED trunk
    /\ UNCHANGED <<tags, good, releaseFile, releaser, releaseRuns, upsets, ghosts>>

\* Its plan is saved before the gate looks at it, and before it is published.
PlanReady ==
    /\ releaser.pc = "prepare"
    /\ \E p \in [commit : {worktree, trunk} \cup 1..Older, tag : ReleaseTags] :
          /\ SavesAndGoes("validate",
                WithJob(releaser.st, [job EXCEPT !.plan = p, !.needs = FALSE, !.phase = "validating"]))
          /\ owed' = owed \cap {p, job.candidate}
    /\ UNCHANGED <<remote, worktree, releaseRuns, told, used>>

\* validatePublicationChecks: the commit has the target, is on the branch and
\* is what is checked out. The version check refuses a tag that is elsewhere.
\* A gate that fails sends the job back to preparation, unless time ran out.
GatePasses(j) ==
    /\ j.target <= j.plan.commit /\ j.plan.commit \in 1..trunk /\ worktree = j.plan.commit
    /\ tags[j.plan.tag] \in {0, j.plan.commit}
Gate ==
    /\ releaser.pc = "validate"
    /\ \/ /\ GatePasses(job)
          /\ SavesAndGoes("publish", WithJob(releaser.st, [job EXCEPT !.phase = "publish"]))
       \/ \E needs \in {TRUE, job.needs} :
             SavesAndEnds(WithJob(releaser.st, [FailedWith(job, "other") EXCEPT !.needs = needs]))
    /\ UNCHANGED <<remote, worktree, releaseRuns, ghosts>>

\* The publication agent pushes the tag of the validated plan.
AgentPublishes ==
    /\ releaser.pc = "publish" /\ tags[job.plan.tag] = 0
    /\ tags' = [tags EXCEPT ![job.plan.tag] = job.plan.commit]
    /\ owed' = owed \cup {job.plan}
    /\ UNCHANGED <<trunk, good, worktree, releaseFile, releaser, releaseRuns, upsets, told, used>>

\* Its answer: released, blocked or something else, or none.
PublishReported ==
    /\ releaser.pc = "publish"
    /\ LET st == WithJob(releaser.st, [job EXCEPT !.candidate = job.plan])
       IN  (ReleaseSaves(st) /\ ReleaserAt("verify", st)) \/ EndsUnsaved({releaseFile, st})
    /\ owed' = owed \cap {job.plan}
    /\ UNCHANGED <<remote, worktree, releaseRuns, told, used>>
PublicationRefused ==
    /\ releaser.pc = "publish"
    /\ SavesAndEnds(WithJob(releaser.st, [FailedWith(job, "other") EXCEPT !.needs = TRUE]))
    /\ UNCHANGED <<remote, worktree, releaseRuns, ghosts>>

\* A session that fails without an answer; one that could not even start is
\* no attempt.
AgentFails ==
    /\ releaser.pc \in {"prepare", "publish"}
    /\ \E st \in {WithJob(releaser.st, FailedWith(job, "other")),
                 WithJob(releaser.st, Refunded(job))} :
          /\ (ReleaseSaves(st) /\ Ends) \/ EndsUnsaved({releaseFile, st})
          /\ used' = IF st.job.tries < job.tries THEN used - 1 ELSE used
    /\ UNCHANGED <<remote, worktree, releaseRuns, told, owed>>

VerifyAfterPublish ==
    /\ releaser.pc = "verify"
    /\ \/ /\ Verified(job.target, job.candidate)
          /\ RecordVerified(releaser.st, job.candidate) /\ owed' = {}
       \/ /\ Unverified(job.target, job.candidate) \/ Misjudged(job.target, job.candidate)
          /\ releaseFile' = WithJob(releaser.st, FailedWith(job, "verify")) /\ Ends
          /\ UNCHANGED <<used, owed>>
    /\ UNCHANGED <<remote, worktree, releaseRuns, told>>

AttemptCanceled ==
    /\ releaser.pc \in {"attempt", "prepare", "validate", "publish", "verify"}
    /\ Canceled(Refunded(job)) /\ used' = used - 1
    /\ UNCHANGED <<remote, worktree, releaseRuns, told, owed>>

-----------------------------------------------------------------------------
\* Retry, by an operator between two runs.
ReleaseRetry ==
    /\ releaser = Asleep /\ releaseFile # Missing
    /\ releaseFile.job # NoRelease /\ releaseFile.job.tries > 0
    /\ Upset /\ releaseFile' = [releaseFile EXCEPT !.job = [@ EXCEPT !.tries = 0]] /\ used' = 0
    /\ UNCHANGED <<remote, worktree, releaser, releaseRuns, told, owed>>

ReleaserCrash ==
    /\ releaser # Asleep /\ Upset /\ Ends
    /\ UNCHANGED <<remote, worktree, releaseFile, releaseRuns, ghosts>>

Running(A) == releaser # Asleep /\ A
ReleaseNext ==
    \/ PublicationCompletes \/ PushOutside \/ ReleaseBegins \/ ReleaseRetry \/ ReleaserCrash
    \/ Running(Open) \/ Running(NotDue) \/ Running(StartJob)
    \/ Running(ResumeVerifies) \/ Running(ResumeAttempts) \/ Running(ResumeCanceled)
    \/ Running(Attempt) \/ Running(AgentPrepares) \/ Running(PlanReady) \/ Running(Gate)
    \/ Running(AgentPublishes) \/ Running(PublishReported) \/ Running(PublicationRefused)
    \/ Running(AgentFails) \/ Running(VerifyAfterPublish) \/ Running(AttemptCanceled)
    \/ Running(Notify)

ReleaseSpec == ReleaseInit /\ [][ReleaseNext]_releasebot

-----------------------------------------------------------------------------
(***************************************************************************)
(* Properties.                                                              *)
(***************************************************************************)

\* When a run begins after a publication of its job has completed, and the
\* verification is right about it, no agent is started: what a lost receipt, a
\* crash or a step back into preparation left behind is found, and a second
\* release is never published over it (resume).
ReceiptIsFound ==
    releaser # Asleep /\ releaser.pc \in {"prepare", "publish"} /\ ~releaser.misjudged
    => releaser.found = {}

\* Attempts whose agents may have run, unless given back, stay within the
\* limit through every crash (the saved Tries).
AttemptsHold == used <= ReleaseAttempts

ReleaseHolds == ReleaseTypeOK /\ ReceiptIsFound /\ AttemptsHold

\* The release the bot records is complete, newer than the last one, and
\* announced at most once and only after it was saved.
RecordsReal ==
    releaseFile' # Missing =>
        /\ releaseFile # Missing /\ releaseFile'.released # releaseFile.released =>
            /\ releaseFile'.released > releaseFile.released
            /\ \E t \in good : tags[t] = releaseFile'.released
        /\ told' <= releaseFile'.history

=============================================================================
