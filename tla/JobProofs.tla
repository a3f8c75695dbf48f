------------------------------ MODULE JobProofs -----------------------------
(***************************************************************************)
(* Theorems about the jobs that Release Bot (ReleaseBot) and Bug and       *)
(* Feature Bot (FinderBot) keep through restarts, for any bounds, and about *)
(* all the bots together, as MCBots composes them.                         *)
(***************************************************************************)
EXTENDS MCBots, BotProofs, FiniteSetTheorems, WellFoundedInduction, TLAPS

-----------------------------------------------------------------------------
(***************************************************************************)
(* Release Bot: a release is made once.                                    *)
(***************************************************************************)

ReleaseWorking == {"attempt", "prepare", "validate", "publish", "verify"}
Releasers == [pc : ReleaseStages, st : ReleaseStates \cup {Missing},
              found : SUBSET Plans, misjudged : BOOLEAN]

ReleaseTypes ==
    /\ trunk \in Older..MaxTrunk /\ worktree \in 0..trunk
    /\ tags \in [ReleaseTags -> 0..MaxTrunk]
    /\ good \subseteq {t \in ReleaseTags : tags[t] # 0}
    /\ releaseFile \in ReleaseStates \cup {Missing}
    /\ releaser = Asleep \/ releaser \in Releasers
    /\ releaseRuns \in 0..MaxReleaseRuns /\ upsets \in 0..MaxUpsets
    /\ told \in Nat /\ used \in Int /\ owed \subseteq Plans

\* The releases from before the bot stay where they were, and a checkout that
\* left the branch shows that an agent has worked.
BranchHolds ==
    /\ \A t \in 1..Older : tags[t] = t
    /\ worktree = 0 => trunk > Older

\* What a state file may say, of the branch, the runs, the announcements, the
\* attempts that were spent and the plans that may have been published.
Fits(f, newest, n, said, spent, may) ==
    f # Missing =>
        /\ Older <= f.released /\ f.released <= newest /\ f.history <= n /\ said <= f.history
        /\ f.job # NoRelease =>
               /\ f.job.target > Older /\ f.job.target >= f.released
               /\ f.job.target <= newest /\ spent <= f.job.tries
               /\ may \subseteq {f.job.candidate, f.job.plan}

FileHolds ==
    /\ Fits(releaseFile, trunk, releaseRuns, told, used, owed)
    /\ releaseFile = Missing => told = 0
    /\ used <= ReleaseAttempts

ReleaserHolds ==
    releaser # Asleep =>
        /\ releaseRuns >= 1
        /\ \/ releaser.st = releaseFile
           \/ releaser.pc = "watch" /\ releaseFile = Missing /\ releaser.st = Bootstrapped
        /\ releaser.pc # "open" => releaser.st \in ReleaseStates
        /\ releaser.pc = "watch" => releaser.st.job = NoRelease
        /\ releaser.pc \in ReleaseWorking \cup {"resume"} => releaser.st.job \in ReleaseJobs
        /\ releaser.pc \in ReleaseWorking =>
               releaser.st.job.tries >= 1 /\ (releaser.misjudged \/ releaser.found = {})
        /\ releaser.pc = "publish" => releaser.st.job.plan.tag \in ReleaseTags
        /\ releaser.pc # "notify" /\ releaser.st # Missing => releaser.st.history < releaseRuns
        /\ releaser.pc = "notify" => told < releaser.st.history

ReleaseInv == ReleaseTypes /\ BranchHolds /\ FileHolds /\ ReleaserHolds

-----------------------------------------------------------------------------
\* States, jobs and what replacing a job leaves alone.

LEMMA JobTargets ==
    ASSUME NEW j \in ReleaseJobs PROVE j.target \in 1..MaxTrunk /\ j.target \in Nat \ {0}
<1>1. j.target \in 1..MaxTrunk
  BY DEF ReleaseJobs
<1>2. MaxTrunk \in Nat
  BY ReleaseConstants
<1> QED  BY <1>1, <1>2

LEMMA StatesAreFiles ==
    /\ Missing \notin ReleaseStates /\ NoRelease \notin ReleaseJobs
    /\ Bootstrapped \in [released : {2}, history : {0}, job : {NoRelease}]
<1>1. \A st \in ReleaseStates : st.released \in Nat
  BY ReleaseConstants DEF ReleaseStates
<1>2. Missing.released = -1
  BY DEF Missing
<1>3. \A j \in ReleaseJobs : j.target # 0
  BY JobTargets
<1>4. NoRelease.target = 0
  BY DEF NoRelease
<1> QED  BY <1>1, <1>2, <1>3, <1>4 DEF Bootstrapped, Older

LEMMA WithJobIs ==
    ASSUME NEW st \in ReleaseStates, NEW j \in ReleaseJobs \cup {NoRelease}
    PROVE  /\ WithJob(st, j) \in ReleaseStates /\ WithJob(st, j) # Missing
           /\ WithJob(st, j).job = j /\ WithJob(st, j).released = st.released
           /\ WithJob(st, j).history = st.history
<1>1. WithJob(st, j) \in ReleaseStates
  BY DEF WithJob, ReleaseStates
<1>2. WithJob(st, j).job = j /\ WithJob(st, j).released = st.released
      /\ WithJob(st, j).history = st.history
  BY DEF WithJob, ReleaseStates
<1> QED  BY <1>1, <1>2, StatesAreFiles

LEMMA BootIs == Bootstrapped \in ReleaseStates
BY ReleaseConstants DEF Bootstrapped, ReleaseStates, Older

\* A job that keeps its target keeps its file true when the attempts spent and
\* the plans that may be out are its own.
LEMMA JobFits ==
    ASSUME NEW st \in ReleaseStates, st.job \in ReleaseJobs, NEW j \in ReleaseJobs,
           NEW newest, NEW n, NEW said, NEW spent, NEW may, NEW spent2, NEW may2,
           Fits(st, newest, n, said, spent, may), j.target = st.job.target,
           spent2 <= j.tries, may2 \subseteq {j.candidate, j.plan}
    PROVE  Fits(WithJob(st, j), newest, n, said, spent2, may2)
<1>1. st # Missing /\ st.job # NoRelease
  BY StatesAreFiles
<1>2. /\ Older <= st.released /\ st.released <= newest /\ st.history <= n /\ said <= st.history
      /\ st.job.target > Older /\ st.job.target >= st.released /\ st.job.target <= newest
  BY <1>1 DEF Fits
<1> QED  BY <1>1, <1>2, WithJobIs DEF Fits

\* The run ends with a file that fits.
LEMMA ReleaseRunEnds ==
    ASSUME ReleaseInv, releaser' = Asleep, UNCHANGED <<remote, worktree, releaseRuns, told>>,
           upsets' \in 0..MaxUpsets, used' \in Int, used' <= ReleaseAttempts,
           owed' \subseteq Plans, releaseFile' \in ReleaseStates \cup {Missing},
           Fits(releaseFile', trunk, releaseRuns, told, used', owed'),
           releaseFile' = Missing => releaseFile = Missing
    PROVE  ReleaseInv'
<1>1. ReleaseTypes'
  BY DEF ReleaseInv, ReleaseTypes, remote
<1>2. BranchHolds'
  BY DEF ReleaseInv, BranchHolds, remote
<1>3. FileHolds'
  <2>1. Fits(releaseFile, trunk, releaseRuns, told, used, owed)'
    BY DEF Fits, remote
  <2> QED  BY <2>1 DEF ReleaseInv, FileHolds
<1>4. ReleaserHolds'
  BY DEF ReleaserHolds
<1> QED  BY <1>1, <1>2, <1>3, <1>4 DEF ReleaseInv

\* A running process and its copy, from the moment it has read the file.
LEMMA AwakeIs ==
    ASSUME ReleaseInv, releaser # Asleep, releaser.pc \in ReleaseWorking \cup {"resume"}
    PROVE  /\ releaser \in Releasers /\ releaser.st \in ReleaseStates
           /\ releaser.st = releaseFile /\ releaser.st.job \in ReleaseJobs
           /\ releaser.st # Missing /\ releaser.st.job # NoRelease
           /\ Fits(releaser.st, trunk, releaseRuns, told, used, owed)
           /\ used <= releaser.st.job.tries
           /\ owed \subseteq {releaser.st.job.candidate, releaser.st.job.plan}
           /\ releaser.st.history < releaseRuns
           /\ releaser.st.job.tries \in 0..ReleaseAttempts
           /\ releaser.pc \in ReleaseWorking => releaser.st.job.tries \in 1..ReleaseAttempts
<1>1. releaser \in Releasers
  BY DEF ReleaseInv, ReleaseTypes
<1>2. releaser.pc # "open" /\ releaser.pc # "watch" /\ releaser.pc # "notify"
  BY DEF ReleaseWorking
<1>3. /\ releaser.st = releaseFile /\ releaser.st \in ReleaseStates
      /\ releaser.st.job \in ReleaseJobs
      /\ releaser.st # Missing => releaser.st.history < releaseRuns
      /\ releaser.pc \in ReleaseWorking => releaser.st.job.tries >= 1
  BY <1>2 DEF ReleaseInv, ReleaserHolds
<1>4. releaser.st # Missing /\ releaser.st.job # NoRelease
  BY <1>3, StatesAreFiles
<1>5. Fits(releaser.st, trunk, releaseRuns, told, used, owed)
  BY <1>3 DEF ReleaseInv, FileHolds
<1>6. used <= releaser.st.job.tries
      /\ owed \subseteq {releaser.st.job.candidate, releaser.st.job.plan}
  BY <1>4, <1>5 DEF Fits
<1>7. releaser.st.job.tries \in 0..ReleaseAttempts
  BY <1>3 DEF ReleaseJobs
<1>8. releaser.pc \in ReleaseWorking => releaser.st.job.tries \in 1..ReleaseAttempts
  BY <1>3, <1>7, ReleaseConstants
<1> QED  BY <1>1, <1>3, <1>4, <1>5, <1>6, <1>7, <1>8

\* The job is saved and the process goes on with it.
LEMMA RunGoes ==
    ASSUME ReleaseInv, releaser # Asleep, releaser.pc \in ReleaseWorking,
           NEW pc \in ReleaseWorking, NEW j \in ReleaseJobs,
           j.target = releaser.st.job.target, j.tries = releaser.st.job.tries,
           pc = "publish" => j.plan.tag \in ReleaseTags,
           ReleaserAt(pc, WithJob(releaser.st, j)), releaseFile' = WithJob(releaser.st, j),
           UNCHANGED <<remote, worktree, releaseRuns, told, used, upsets>>,
           owed' \subseteq owed, owed' \subseteq {j.candidate, j.plan}
    PROVE  ReleaseInv'
<1> DEFINE st == WithJob(releaser.st, j)
<1>1. /\ releaser \in Releasers /\ releaser.st \in ReleaseStates /\ releaser.st.job \in ReleaseJobs
      /\ Fits(releaser.st, trunk, releaseRuns, told, used, owed)
      /\ used <= releaser.st.job.tries /\ releaser.st.history < releaseRuns
      /\ releaser.st.job.tries \in 1..ReleaseAttempts
  BY AwakeIs
<1>2. st \in ReleaseStates /\ st # Missing /\ st.job = j /\ st.history = releaser.st.history
  BY <1>1, WithJobIs
<1>3. pc \in ReleaseStages
  BY DEF ReleaseWorking, ReleaseStages
<1>4. /\ releaser' \in Releasers /\ releaser'.pc = pc /\ releaser'.st = st
      /\ releaser'.misjudged = releaser.misjudged /\ releaser'.found = releaser.found
  BY <1>1, <1>2, <1>3 DEF ReleaserAt, Releasers
<1>5. Fits(st, trunk, releaseRuns, told, used, owed')
  BY <1>1, JobFits
<1>6. ReleaseTypes'
  BY <1>2, <1>4 DEF ReleaseInv, ReleaseTypes, remote
<1>7. BranchHolds'
  BY DEF ReleaseInv, BranchHolds, remote
<1>8. FileHolds'
  <2>1. Fits(releaseFile, trunk, releaseRuns, told, used, owed)'
    BY <1>5 DEF Fits, remote
  <2> QED  BY <2>1, <1>2 DEF ReleaseInv, FileHolds
<1>9. ReleaserHolds'
  <2>1. /\ releaser'.pc # "open" /\ releaser'.pc # "watch" /\ releaser'.pc # "notify"
        /\ releaser'.pc \in ReleaseWorking
    BY <1>4 DEF ReleaseWorking
  <2>2. releaser.misjudged \/ releaser.found = {}
    BY DEF ReleaseInv, ReleaserHolds
  <2>3. releaseRuns' >= 1
    BY DEF ReleaseInv, ReleaserHolds
  <2>4. st.job.tries >= 1
    BY <1>1, <1>2
  <2> QED  BY <2>1, <2>2, <2>3, <2>4, <1>1, <1>2, <1>4 DEF ReleaserHolds
<1> QED  BY <1>6, <1>7, <1>8, <1>9 DEF ReleaseInv
\* A save of the job that fails, or the save that ends the run.
LEMMA FileIsOneOf ==
    ASSUME ReleaseInv, releaser # Asleep, releaser.pc \in ReleaseWorking \cup {"resume"},
           NEW files, releaseFile' \in files, Ends,
           \A f \in files : f = releaseFile \/
               \E j \in ReleaseJobs :
                   /\ f = WithJob(releaser.st, j) /\ j.target = releaser.st.job.target
                   /\ used' <= j.tries /\ owed' \subseteq {j.candidate, j.plan},
           used' <= releaser.st.job.tries, used' \in Int,
           owed' \subseteq Plans,
           owed' \subseteq {releaser.st.job.candidate, releaser.st.job.plan},
           upsets' \in 0..MaxUpsets, UNCHANGED <<remote, worktree, releaseRuns, told>>
    PROVE  ReleaseInv'
<1>1. /\ releaser.st \in ReleaseStates /\ releaser.st.job \in ReleaseJobs
      /\ releaser.st = releaseFile /\ releaser.st # Missing
      /\ Fits(releaser.st, trunk, releaseRuns, told, used, owed)
      /\ releaser.st.job.tries \in 0..ReleaseAttempts
  BY AwakeIs
<1>2. used' <= ReleaseAttempts
  BY <1>1, ReleaseConstants
<1>3. /\ releaseFile' \in ReleaseStates /\ releaseFile' # Missing
      /\ Fits(releaseFile', trunk, releaseRuns, told, used', owed')
  <2>1. CASE releaseFile' = releaseFile
    BY <2>1, <1>1 DEF Fits
  <2>2. ASSUME NEW j \in ReleaseJobs, releaseFile' = WithJob(releaser.st, j),
               j.target = releaser.st.job.target, used' <= j.tries,
               owed' \subseteq {j.candidate, j.plan}
        PROVE  /\ releaseFile' \in ReleaseStates /\ releaseFile' # Missing
               /\ Fits(releaseFile', trunk, releaseRuns, told, used', owed')
    BY <2>2, <1>1, JobFits, WithJobIs
  <2> QED  BY <2>1, <2>2
<1>4. releaser' = Asleep
  BY DEF Ends
<1> QED  BY <1>2, <1>3, <1>4, ReleaseRunEnds

LEMMA JobEdits ==
    ASSUME NEW j \in ReleaseJobs
    PROVE  /\ \A reason \in {"verify", "other"} :
                 /\ FailedWith(j, reason) \in ReleaseJobs
                 /\ FailedWith(j, reason).target = j.target
                 /\ FailedWith(j, reason).tries = j.tries
                 /\ FailedWith(j, reason).plan = j.plan
                 /\ FailedWith(j, reason).candidate = j.candidate
           /\ \A needs \in BOOLEAN, reason \in {"verify", "other"} :
                 LET k == [FailedWith(j, reason) EXCEPT !.needs = needs] IN
                 /\ k \in ReleaseJobs /\ k.target = j.target /\ k.tries = j.tries
                 /\ k.plan = j.plan /\ k.candidate = j.candidate
           /\ \A phase \in {"preflight", "validating", "publish"}, needs \in BOOLEAN :
                 LET k == [j EXCEPT !.phase = phase, !.needs = needs] IN
                 /\ k \in ReleaseJobs /\ k.target = j.target /\ k.tries = j.tries
                 /\ k.plan = j.plan /\ k.candidate = j.candidate
           /\ \A phase \in {"validating", "publish"} :
                 LET k == [j EXCEPT !.phase = phase] IN
                 /\ k \in ReleaseJobs /\ k.target = j.target /\ k.tries = j.tries
                 /\ k.plan = j.plan /\ k.candidate = j.candidate
<1>1. j \in [target : 1..MaxTrunk, tries : 0..ReleaseAttempts,
             phase : {"new", "preflight", "validating", "publish"}, needs : BOOLEAN,
             plan : Plans, candidate : Plans, failure : {"", "verify", "other"}]
  BY DEF ReleaseJobs
<1> QED  BY <1>1 DEF FailedWith, ReleaseJobs

LEMMA TriesEdits ==
    ASSUME NEW j \in ReleaseJobs, NEW n \in 0..ReleaseAttempts
    PROVE  LET k == [j EXCEPT !.tries = n] IN
           /\ k \in ReleaseJobs /\ k.target = j.target /\ k.tries = n
           /\ k.plan = j.plan /\ k.candidate = j.candidate
BY DEF ReleaseJobs

\* A save that fails leaves one of the files that fit.
LEMMA SaveFailing ==
    ASSUME ReleaseInv, releaser # Asleep, releaser.pc \in ReleaseWorking,
           NEW j \in ReleaseJobs, j.target = releaser.st.job.target,
           j.tries = releaser.st.job.tries, ReleaseSaveFails(WithJob(releaser.st, j)),
           owed' \subseteq owed, owed' \subseteq {j.candidate, j.plan},
           UNCHANGED <<remote, worktree, releaseRuns, told, used>>
    PROVE  ReleaseInv'
<1> DEFINE st == WithJob(releaser.st, j)
           k  == FailedWith(j, "other")
           files == {releaseFile, st} \cup AfterFailure(st)
<1>1. /\ releaser.st \in ReleaseStates /\ releaser.st.job \in ReleaseJobs
      /\ used <= releaser.st.job.tries
      /\ owed \subseteq {releaser.st.job.candidate, releaser.st.job.plan}
  BY AwakeIs
<1>2. st.job = j
  BY <1>1, WithJobIs
<1>3. /\ k \in ReleaseJobs /\ k.target = j.target /\ k.tries = j.tries /\ k.plan = j.plan
      /\ k.candidate = j.candidate
  BY JobEdits
<1>4. WithJob(st, k) = WithJob(releaser.st, k)
  BY <1>1 DEF WithJob, ReleaseStates
<1>5. ASSUME NEW f \in files
      PROVE  f = releaseFile \/ f = WithJob(releaser.st, j) \/ f = WithJob(releaser.st, k)
  BY <1>2, <1>4 DEF AfterFailure
<1>6. used' \in Int /\ used' = used /\ owed' \subseteq Plans /\ upsets' \in 0..MaxUpsets
  BY ReleaseConstants DEF ReleaseInv, ReleaseTypes, ReleaseSaveFails, EndsUnsaved, Upset
<1>7. releaseFile' \in files /\ Ends
  BY DEF ReleaseSaveFails, EndsUnsaved
<1>8. \A f \in files : f = releaseFile \/
         \E i \in ReleaseJobs :
             /\ f = WithJob(releaser.st, i) /\ i.target = releaser.st.job.target
             /\ used' <= i.tries /\ owed' \subseteq {i.candidate, i.plan}
  BY <1>1, <1>3, <1>5, <1>6
<1>9. releaser.pc \in ReleaseWorking \cup {"resume"}
  OBVIOUS
<1> HIDE DEF files
<1> QED  BY <1>1, <1>6, <1>7, <1>8, <1>9, FileIsOneOf

LEMMA SavingOn ==
    ASSUME ReleaseInv, releaser # Asleep, releaser.pc \in ReleaseWorking,
           NEW pc \in ReleaseWorking, NEW j \in ReleaseJobs,
           j.target = releaser.st.job.target, j.tries = releaser.st.job.tries,
           pc = "publish" => j.plan.tag \in ReleaseTags,
           SavesAndGoes(pc, WithJob(releaser.st, j)),
           owed' \subseteq owed, owed' \subseteq {j.candidate, j.plan},
           UNCHANGED <<remote, worktree, releaseRuns, told, used>>
    PROVE  ReleaseInv'
<1>1. CASE ReleaseSaveFails(WithJob(releaser.st, j))
  BY <1>1, SaveFailing
<1>2. CASE ReleaseSaves(WithJob(releaser.st, j)) /\ ReleaserAt(pc, WithJob(releaser.st, j))
  <2>1. releaseFile' = WithJob(releaser.st, j) /\ UNCHANGED upsets
    BY <1>2 DEF ReleaseSaves
  <2> QED  BY <1>2, <2>1, RunGoes
<1> QED  BY <1>1, <1>2 DEF SavesAndGoes

LEMMA SavingLast ==
    ASSUME ReleaseInv, releaser # Asleep, releaser.pc \in ReleaseWorking, NEW j \in ReleaseJobs,
           j.target = releaser.st.job.target, j.tries = releaser.st.job.tries,
           SavesAndEnds(WithJob(releaser.st, j)),
           owed' = owed, owed \subseteq {j.candidate, j.plan},
           UNCHANGED <<remote, worktree, releaseRuns, told, used>>
    PROVE  ReleaseInv'
<1>1. CASE ReleaseSaveFails(WithJob(releaser.st, j))
  BY <1>1, SaveFailing
<1>2. CASE ReleaseSaves(WithJob(releaser.st, j)) /\ Ends
  <2>1. /\ releaser.st.job \in ReleaseJobs /\ used <= releaser.st.job.tries
        /\ owed \subseteq {releaser.st.job.candidate, releaser.st.job.plan}
    BY AwakeIs
  <2>2. used' \in Int /\ used' = used /\ owed' \subseteq Plans /\ upsets' \in 0..MaxUpsets
    BY <1>2 DEF ReleaseInv, ReleaseTypes, ReleaseSaves
  <2> DEFINE files == {WithJob(releaser.st, j)}
  <2>3. releaseFile' \in files /\ Ends
    BY <1>2 DEF ReleaseSaves
  <2>4. \A f \in files : f = releaseFile \/
           \E i \in ReleaseJobs :
               /\ f = WithJob(releaser.st, i) /\ i.target = releaser.st.job.target
               /\ used' <= i.tries /\ owed' \subseteq {i.candidate, i.plan}
    BY <2>1, <2>2
  <2>5. releaser.pc \in ReleaseWorking \cup {"resume"}
    OBVIOUS
  <2> HIDE DEF files
  <2> QED  BY <2>1, <2>2, <2>3, <2>4, <2>5, FileIsOneOf
<1> QED  BY <1>1, <1>2 DEF SavesAndEnds
-----------------------------------------------------------------------------
\* The steps. Those of the world leave the process and its file alone.

LEMMA WorldKeeps ==
    ASSUME ReleaseInv, UNCHANGED <<tags, releaseFile, releaser, releaseRuns, upsets, ghosts>>,
           trunk' \in trunk..MaxTrunk, worktree' \in 0..trunk',
           worktree' = 0 => trunk' > Older,
           good' \subseteq {t \in ReleaseTags : tags[t] # 0}
    PROVE  ReleaseInv'
<1>1. trunk \in Int /\ trunk' \in Int /\ trunk' >= trunk /\ MaxTrunk \in Int /\ trunk >= Older
      /\ trunk' \in Older..MaxTrunk
  BY ReleaseConstants DEF ReleaseInv, ReleaseTypes, Older
<1>2. ReleaseTypes'
  BY <1>1 DEF ReleaseInv, ReleaseTypes, ghosts
<1>3. BranchHolds'
  BY DEF ReleaseInv, BranchHolds
<1>4. FileHolds'
  <2>1. Fits(releaseFile, trunk, releaseRuns, told, used, owed)
    BY DEF ReleaseInv, FileHolds
  <2>2. CASE releaseFile # Missing
    <3>1. releaseFile \in ReleaseStates
      BY <2>2 DEF ReleaseInv, ReleaseTypes
    <3>2. releaseFile.released \in Int
      BY <3>1, ReleaseConstants DEF ReleaseStates
    <3>3. CASE releaseFile.job # NoRelease
      <4>1. releaseFile.job \in ReleaseJobs
        BY <3>1, <3>3 DEF ReleaseStates
      <4>2. releaseFile.job.target \in Int
        BY <4>1, JobTargets
      <4> QED  BY <1>1, <2>1, <2>2, <3>2, <4>2 DEF Fits, ReleaseInv, FileHolds, ghosts
    <3>4. CASE releaseFile.job = NoRelease
      BY <1>1, <2>1, <2>2, <3>2, <3>4 DEF Fits, ReleaseInv, FileHolds, ghosts
    <3> QED  BY <3>3, <3>4
  <2>3. CASE releaseFile = Missing
    BY <2>3 DEF Fits, ReleaseInv, FileHolds, ghosts
  <2> QED  BY <2>2, <2>3
<1>5. ReleaserHolds'
  BY DEF ReleaseInv, ReleaserHolds, ghosts
<1> QED  BY <1>2, <1>3, <1>4, <1>5 DEF ReleaseInv

LEMMA WorldSteps ==
    ASSUME ReleaseInv, PublicationCompletes \/ PushOutside PROVE ReleaseInv'
<1>1. trunk \in Older..MaxTrunk /\ worktree \in 0..trunk /\ MaxTrunk \in Nat
      /\ good \subseteq {t \in ReleaseTags : tags[t] # 0}
      /\ (worktree = 0 => trunk > Older)
  BY ReleaseConstants DEF ReleaseInv, ReleaseTypes, BranchHolds
<1>2. CASE PublicationCompletes
  <2>1. trunk' = trunk /\ worktree' = worktree
        /\ good' \subseteq {t \in ReleaseTags : tags[t] # 0}
        /\ UNCHANGED <<tags, releaseFile, releaser, releaseRuns, upsets, ghosts>>
    BY <1>1, <1>2 DEF PublicationCompletes
  <2>2. trunk \in trunk..MaxTrunk
    BY <1>1 DEF Older
  <2> QED  BY <1>1, <2>1, <2>2, WorldKeeps
<1>3. CASE PushOutside
  <2>1. /\ trunk < MaxTrunk /\ trunk' = trunk + 1 /\ worktree' = worktree /\ good' = good
        /\ UNCHANGED <<tags, releaseFile, releaser, releaseRuns, upsets, ghosts>>
    BY <1>3 DEF PushOutside
  <2>2. trunk' \in trunk..MaxTrunk /\ worktree' \in 0..trunk' /\ trunk' > Older
    BY <1>1, <2>1 DEF Older
  <2> QED  BY <1>1, <2>1, <2>2, WorldKeeps
<1> QED  BY <1>2, <1>3

LEMMA PrepareSteps ==
    ASSUME ReleaseInv, releaser # Asleep, AgentPrepares PROVE ReleaseInv'
<1>1. trunk \in Older..MaxTrunk /\ worktree \in 0..trunk /\ MaxTrunk \in Nat
      /\ good \subseteq {t \in ReleaseTags : tags[t] # 0}
      /\ (worktree = 0 => trunk > Older)
  BY ReleaseConstants DEF ReleaseInv, ReleaseTypes, BranchHolds
<1>2. releaser.pc \in ReleaseWorking
  BY DEF AgentPrepares, ReleaseWorking
<1>3. trunk > Older
  <2>1. /\ releaser.st.job \in ReleaseJobs /\ releaser.st # Missing
        /\ releaser.st.job # NoRelease
        /\ Fits(releaser.st, trunk, releaseRuns, told, used, owed)
    BY <1>2, AwakeIs
  <2>2. releaser.st.job.target > Older /\ releaser.st.job.target <= trunk
        /\ releaser.st.job.target \in Int
    BY <2>1, JobTargets DEF Fits
  <2> QED  BY <1>1, <2>2 DEF Older
<1>4. /\ trunk' \in trunk..MaxTrunk /\ worktree' \in 0..trunk' /\ trunk' > Older
      /\ good' = good /\ UNCHANGED <<tags, releaseFile, releaser, releaseRuns, upsets, ghosts>>
  BY <1>1, <1>3 DEF AgentPrepares, Older
<1> QED  BY <1>1, <1>4, WorldKeeps

LEMMA BeginSteps ==
    ASSUME ReleaseInv, ReleaseBegins PROVE ReleaseInv'
<1> DEFINE b == [pc |-> "open", st |-> releaseFile, found |-> {}, misjudged |-> FALSE]
<1>1. /\ releaser = Asleep /\ releaseRuns < MaxReleaseRuns /\ releaseRuns' = releaseRuns + 1
      /\ releaser' = b /\ UNCHANGED <<remote, worktree, releaseFile, upsets, ghosts>>
  BY DEF ReleaseBegins
<1>2. releaseRuns \in 0..MaxReleaseRuns /\ releaseFile \in ReleaseStates \cup {Missing}
      /\ MaxReleaseRuns \in Nat
  BY ReleaseConstants DEF ReleaseInv, ReleaseTypes
<1>3. releaseRuns' \in 0..MaxReleaseRuns /\ releaseRuns' >= 1 /\ releaseRuns' > releaseRuns
  BY <1>1, <1>2
<1>4. b \in Releasers /\ b.pc = "open" /\ b.st = releaseFile
  BY <1>2 DEF Releasers, ReleaseStages
<1>5. releaseFile # Missing =>
          releaseFile.history \in Int /\ releaseFile.history <= releaseRuns
          /\ releaseFile.history < releaseRuns'
  <2>1. releaseFile # Missing =>
          releaseFile.history \in Int /\ releaseFile.history <= releaseRuns
    BY <1>2 DEF ReleaseInv, FileHolds, Fits, ReleaseStates
  <2> QED  BY <2>1, <1>1, <1>2
<1>6. ReleaseTypes'
  BY <1>1, <1>3, <1>4 DEF ReleaseInv, ReleaseTypes, remote, ghosts
<1>7. BranchHolds'
  BY <1>1 DEF ReleaseInv, BranchHolds, remote
<1>8. FileHolds'
  BY <1>1, <1>2, <1>5 DEF ReleaseInv, FileHolds, Fits, remote, ghosts
<1> HIDE DEF b
<1>9. ReleaserHolds'
  BY <1>1, <1>3, <1>4, <1>5 DEF ReleaserHolds, ReleaseWorking
<1> QED  BY <1>6, <1>7, <1>8, <1>9 DEF ReleaseInv

LEMMA CrashSteps ==
    ASSUME ReleaseInv, ReleaserCrash PROVE ReleaseInv'
<1>1. /\ releaser' = Asleep /\ upsets < MaxUpsets /\ upsets' = upsets + 1
      /\ UNCHANGED <<remote, worktree, releaseFile, releaseRuns, ghosts>>
  BY DEF ReleaserCrash, Upset, Ends
<1>2. /\ upsets \in 0..MaxUpsets /\ MaxUpsets \in Nat /\ used \in Int /\ owed \subseteq Plans
      /\ releaseFile \in ReleaseStates \cup {Missing} /\ used <= ReleaseAttempts
      /\ Fits(releaseFile, trunk, releaseRuns, told, used, owed)
  BY ReleaseConstants DEF ReleaseInv, ReleaseTypes, FileHolds
<1>3. upsets' \in 0..MaxUpsets
  BY <1>1, <1>2
<1> QED  BY <1>1, <1>2, <1>3, ReleaseRunEnds DEF ghosts

LEMMA ReleaseRetrySteps ==
    ASSUME ReleaseInv, ReleaseRetry PROVE ReleaseInv'
<1> DEFINE j == [releaseFile.job EXCEPT !.tries = 0]
<1>1. /\ releaser = Asleep /\ releaseFile # Missing /\ releaseFile.job # NoRelease
      /\ releaseFile' = WithJob(releaseFile, j) /\ used' = 0
      /\ upsets < MaxUpsets /\ upsets' = upsets + 1
      /\ UNCHANGED <<remote, worktree, releaser, releaseRuns, told, owed>>
  BY DEF ReleaseRetry, Upset, WithJob
<1>2. /\ upsets \in 0..MaxUpsets /\ MaxUpsets \in Nat /\ owed \subseteq Plans
      /\ releaseFile \in ReleaseStates /\ ReleaseAttempts \in Nat
      /\ Fits(releaseFile, trunk, releaseRuns, told, used, owed)
  BY <1>1, ReleaseConstants DEF ReleaseInv, ReleaseTypes, FileHolds
<1>3. upsets' \in 0..MaxUpsets
  BY <1>1, <1>2
<1>4. releaseFile.job \in ReleaseJobs
      /\ owed \subseteq {releaseFile.job.candidate, releaseFile.job.plan}
  BY <1>1, <1>2 DEF ReleaseStates, Fits
<1>5. 0 \in 0..ReleaseAttempts
  BY <1>2
<1>6. /\ j \in ReleaseJobs /\ j.target = releaseFile.job.target /\ j.tries = 0
      /\ j.plan = releaseFile.job.plan /\ j.candidate = releaseFile.job.candidate
  BY <1>4, <1>5, TriesEdits
<1> HIDE DEF j
<1>7. Fits(releaseFile', trunk, releaseRuns, told, 0, owed)
  BY <1>1, <1>2, <1>4, <1>6, JobFits
<1>8. releaseFile' \in ReleaseStates /\ releaseFile' # Missing
  BY <1>1, <1>2, <1>6, WithJobIs
<1>9. releaser' = Asleep /\ used' \in Int /\ used' <= ReleaseAttempts
  BY <1>1, <1>2
<1> QED  BY <1>1, <1>2, <1>3, <1>7, <1>8, <1>9, ReleaseRunEnds
LEMMA OpenSteps ==
    ASSUME ReleaseInv, releaser # Asleep, Open PROVE ReleaseInv'
<1> DEFINE st == IF releaser.st = Missing THEN Bootstrapped ELSE releaser.st
           pc == IF st.job = NoRelease THEN "watch" ELSE "resume"
<1>1. /\ releaser.pc = "open" /\ releaser' = [releaser EXCEPT !.pc = pc, !.st = st]
      /\ UNCHANGED <<remote, worktree, releaseFile, releaseRuns, upsets, ghosts>>
  BY DEF Open, ReleaserAt
<1>2. /\ releaser \in Releasers /\ releaser.st = releaseFile /\ releaseRuns >= 1
      /\ (releaseFile # Missing => releaseFile.history < releaseRuns)
      /\ releaseRuns \in Nat
  BY <1>1, ReleaseConstants DEF ReleaseInv, ReleaseTypes, ReleaserHolds
<1>3. st \in ReleaseStates /\ st # Missing
  BY <1>2, BootIs, StatesAreFiles DEF Releasers
<1>4. /\ st = releaseFile \/ (releaseFile = Missing /\ st = Bootstrapped /\ st.job = NoRelease)
  BY <1>2 DEF Bootstrapped
<1>5. st.job = NoRelease \/ st.job \in ReleaseJobs
  BY <1>3 DEF ReleaseStates
<1>6. st.history < releaseRuns
  BY <1>2, <1>4 DEF Bootstrapped
<1>7. pc \in {"watch", "resume"} /\ (pc = "watch" <=> st.job = NoRelease)
  OBVIOUS
<1> HIDE DEF st, pc
<1>8. releaser' \in Releasers /\ releaser'.pc = pc /\ releaser'.st = st
  BY <1>1, <1>2, <1>3, <1>7 DEF Releasers, ReleaseStages
<1>9. ReleaseTypes'
  BY <1>1, <1>8 DEF ReleaseInv, ReleaseTypes, remote, ghosts
<1>10. BranchHolds'
  BY <1>1 DEF ReleaseInv, BranchHolds, remote
<1>11. FileHolds'
  BY <1>1 DEF ReleaseInv, FileHolds, Fits, remote, ghosts
<1>12. ReleaserHolds'
  <2>1. releaser'.pc = "watch" \/ releaser'.pc = "resume"
    BY <1>7, <1>8
  <2>2. releaseFile' = releaseFile /\ releaseRuns' = releaseRuns
    BY <1>1
  <2> QED  BY <1>2, <1>3, <1>4, <1>5, <1>6, <1>7, <1>8, <2>1, <2>2
           DEF ReleaserHolds, ReleaseWorking
<1> QED  BY <1>9, <1>10, <1>11, <1>12 DEF ReleaseInv

\* The copy of a run that watches the branch.
LEMMA WatchIs ==
    ASSUME ReleaseInv, releaser # Asleep, releaser.pc = "watch"
    PROVE  /\ releaser \in Releasers /\ releaser.st \in ReleaseStates
           /\ releaser.st # Missing /\ releaser.st.job = NoRelease
           /\ Fits(releaser.st, trunk, releaseRuns, told, used, owed)
           /\ releaser.st.history < releaseRuns
           /\ releaser.st = releaseFile \/ releaseFile = Missing
<1>1. /\ releaser \in Releasers /\ releaser.st \in ReleaseStates /\ releaser.st.job = NoRelease
      /\ releaser.st = releaseFile \/ (releaseFile = Missing /\ releaser.st = Bootstrapped)
      /\ releaser.st # Missing => releaser.st.history < releaseRuns
      /\ releaseRuns >= 1
  BY DEF ReleaseInv, ReleaseTypes, ReleaserHolds
<1>2. releaser.st # Missing
  BY <1>1, StatesAreFiles
<1>3. Fits(releaser.st, trunk, releaseRuns, told, used, owed)
  <2>1. CASE releaser.st = releaseFile
    BY <2>1 DEF ReleaseInv, FileHolds
  <2>2. CASE releaseFile = Missing /\ releaser.st = Bootstrapped
    <3>1. told = 0 /\ trunk >= 2 /\ releaseRuns \in Nat
      BY <2>2, ReleaseConstants DEF ReleaseInv, FileHolds, ReleaseTypes, Older
    <3> QED  BY <2>2, <3>1 DEF Fits, Bootstrapped, Older
  <2> QED  BY <1>1, <2>1, <2>2
<1> QED  BY <1>1, <1>2, <1>3

LEMMA NotDueSteps ==
    ASSUME ReleaseInv, releaser # Asleep, NotDue PROVE ReleaseInv'
<1>1. /\ releaser.pc = "watch" /\ UNCHANGED <<remote, worktree, releaseRuns, ghosts>>
      /\ SavesAndEnds(releaser.st)
  BY DEF NotDue
<1>2. /\ releaser.st \in ReleaseStates
      /\ Fits(releaser.st, trunk, releaseRuns, told, used, owed)
      /\ releaser.st # Missing
  BY <1>1, WatchIs
<1>3. AfterFailure(releaser.st) = {}
  BY <1>1 DEF AfterFailure
<1>4. releaser' = Asleep /\ releaseFile' \in {releaseFile, releaser.st}
      /\ upsets' \in 0..MaxUpsets
  <2>1. upsets \in 0..MaxUpsets /\ MaxUpsets \in Nat
    BY ReleaseConstants DEF ReleaseInv, ReleaseTypes
  <2> QED  BY <1>1, <1>3, <2>1 DEF SavesAndEnds, ReleaseSaves, ReleaseSaveFails, EndsUnsaved,
             Upset, Ends
<1>5. /\ used \in Int /\ used <= ReleaseAttempts /\ owed \subseteq Plans
      /\ releaseFile \in ReleaseStates \cup {Missing}
      /\ Fits(releaseFile, trunk, releaseRuns, told, used, owed)
  BY DEF ReleaseInv, ReleaseTypes, FileHolds
<1> QED  BY <1>1, <1>2, <1>4, <1>5, ReleaseRunEnds DEF ghosts

LEMMA NewJobIs ==
    ASSUME ReleaseInv
    PROVE  /\ NewJob \in ReleaseJobs /\ NewJob.target = trunk /\ NewJob.tries = 0
<1>1. trunk \in Older..MaxTrunk /\ MaxTrunk \in Nat /\ ReleaseAttempts \in Nat
  BY ReleaseConstants DEF ReleaseInv, ReleaseTypes
<1>2. trunk \in 1..MaxTrunk /\ 0 \in 0..ReleaseAttempts
  BY <1>1 DEF Older
<1>3. NoPlan \in Plans
  BY DEF Plans
<1> QED  BY <1>2, <1>3 DEF NewJob, ReleaseJobs

LEMMA StartSteps ==
    ASSUME ReleaseInv, releaser # Asleep, StartJob PROVE ReleaseInv'
<1> DEFINE st == WithJob(releaser.st, NewJob)
<1>1. /\ releaser.pc = "watch" /\ Unreleased(releaser.st)
      /\ worktree' = (IF worktree = 0 THEN 0 ELSE trunk)
      /\ SavesAndGoes("resume", st) /\ used' = 0 /\ owed' = {}
      /\ UNCHANGED <<remote, releaseRuns, told>>
  BY DEF StartJob
<1>2. /\ releaser \in Releasers /\ releaser.st \in ReleaseStates /\ releaser.st # Missing
      /\ Fits(releaser.st, trunk, releaseRuns, told, used, owed)
      /\ releaser.st.history < releaseRuns
      /\ releaser.st.released \in Nat
  BY <1>1, WatchIs, ReleaseConstants DEF ReleaseStates
<1>3. trunk \in Older..MaxTrunk /\ worktree \in 0..trunk /\ (worktree = 0 => trunk > Older)
      /\ trunk \in Nat /\ ReleaseAttempts \in Nat
  BY ReleaseConstants DEF ReleaseInv, ReleaseTypes, BranchHolds, Older
<1>4. NewJob \in ReleaseJobs /\ NewJob.target = trunk /\ NewJob.tries = 0
      /\ NewJob # NoRelease
  BY NewJobIs, StatesAreFiles
<1>5. /\ st \in ReleaseStates /\ st # Missing /\ st.job = NewJob
      /\ st.released = releaser.st.released /\ st.history = releaser.st.history
  BY <1>2, <1>4, WithJobIs
<1>6. trunk > Older
  <2>1. CASE worktree = 0
    BY <2>1, <1>3
  <2>2. CASE trunk > releaser.st.released
    <3>1. releaser.st.released >= Older
      BY <1>2 DEF Fits
    <3> QED  BY <2>2, <3>1, <1>2, <1>3 DEF Older
  <2> QED  BY <2>1, <2>2, <1>1 DEF Unreleased
<1>7. Fits(st, trunk, releaseRuns, told, 0, {})
  <2>1. /\ Older <= st.released /\ st.released <= trunk /\ st.history <= releaseRuns
        /\ told <= st.history
    BY <1>2, <1>5 DEF Fits
  <2>2. /\ st.job.target > Older /\ st.job.target >= st.released /\ st.job.target <= trunk
        /\ 0 <= st.job.tries
    BY <2>1, <1>2, <1>3, <1>4, <1>5, <1>6 DEF Older
  <2> QED  BY <2>1, <2>2, <1>5 DEF Fits
<1>8. /\ trunk' = trunk /\ tags' = tags /\ good' = good /\ worktree' \in 0..trunk
      /\ (worktree' = 0 => trunk' > Older)
  BY <1>1, <1>3, <1>6 DEF remote
<1>9. /\ releaseFile' \in ReleaseStates \cup {Missing} /\ upsets' \in 0..MaxUpsets
      /\ releaseFile' \in {releaseFile, st}
      /\ releaser' = Asleep \/ (releaseFile' = st /\ ReleaserAt("resume", st))
  <2>1. upsets \in 0..MaxUpsets /\ MaxUpsets \in Nat
        /\ releaseFile \in ReleaseStates \cup {Missing}
    BY ReleaseConstants DEF ReleaseInv, ReleaseTypes
  <2>2. AfterFailure(st) = {}
    BY <1>1 DEF AfterFailure
  <2> HIDE DEF st
  <2> QED  BY <1>1, <1>5, <2>1, <2>2 DEF SavesAndGoes, ReleaseSaves, ReleaseSaveFails,
             EndsUnsaved, Upset, Ends
<1> HIDE DEF st
<1>10. Fits(releaseFile', trunk, releaseRuns, told, 0, {})
  <2>1. Fits(releaseFile, trunk, releaseRuns, told, used, owed)
        /\ (releaser.st = releaseFile \/ releaseFile = Missing)
    BY <1>1, WatchIs DEF ReleaseInv, FileHolds
  <2>2. releaseFile # Missing => releaseFile.job = NoRelease
    BY <2>1, <1>1, WatchIs
  <2>3. Fits(releaseFile, trunk, releaseRuns, told, 0, {})
    BY <2>1, <2>2 DEF Fits
  <2> QED  BY <2>3, <1>7, <1>9
<1>11. FileHolds'
  <2>1. Fits(releaseFile, trunk, releaseRuns, told, used, owed)'
    BY <1>1, <1>8, <1>10 DEF Fits
  <2>2. releaseFile' = Missing => told' = 0
    BY <1>1, <1>5, <1>9 DEF ReleaseInv, FileHolds
  <2> QED  BY <2>1, <2>2, <1>1, <1>3 DEF FileHolds
<1>12. BranchHolds'
  BY <1>8 DEF ReleaseInv, BranchHolds
<1>13. CASE releaser' = Asleep
  <2>1. ReleaseTypes'
    BY <1>1, <1>8, <1>9, <1>13 DEF ReleaseInv, ReleaseTypes
  <2>2. ReleaserHolds'
    BY <1>13 DEF ReleaserHolds
  <2> QED  BY <1>11, <1>12, <2>1, <2>2 DEF ReleaseInv
<1>14. CASE releaseFile' = st /\ ReleaserAt("resume", st)
  <2>1. releaser' \in Releasers /\ releaser'.pc = "resume" /\ releaser'.st = st
    BY <1>2, <1>5, <1>14 DEF ReleaserAt, Releasers, ReleaseStages
  <2>2. ReleaseTypes'
    BY <1>1, <1>8, <1>9, <2>1 DEF ReleaseInv, ReleaseTypes
  <2>3. releaseRuns' >= 1
    BY <1>1 DEF ReleaseInv, ReleaserHolds
  <2>4. ReleaserHolds'
    BY <1>1, <1>2, <1>4, <1>5, <1>14, <2>1, <2>3 DEF ReleaserHolds, ReleaseWorking
  <2> QED  BY <1>11, <1>12, <2>2, <2>4 DEF ReleaseInv
<1> QED  BY <1>9, <1>13, <1>14

LEMMA NotifySteps ==
    ASSUME ReleaseInv, releaser # Asleep, Notify PROVE ReleaseInv'
<1>1. /\ releaser.pc = "notify" /\ releaser' = Asleep /\ told' = told + 1
      /\ UNCHANGED <<remote, worktree, releaseFile, releaseRuns, upsets, used, owed>>
  BY DEF Notify, Ends
<1>2. /\ releaser.st = releaseFile /\ releaser.st \in ReleaseStates
      /\ told < releaser.st.history /\ told \in Nat
  BY <1>1 DEF ReleaseInv, ReleaseTypes, ReleaserHolds
<1>3. releaseFile # Missing /\ releaseFile.history \in Nat
  BY <1>2, StatesAreFiles, ReleaseConstants DEF ReleaseStates
<1>4. told' <= releaseFile.history /\ told' \in Nat
  BY <1>1, <1>2, <1>3
<1>5. ReleaseTypes'
  BY <1>1, <1>4 DEF ReleaseInv, ReleaseTypes, remote
<1>6. BranchHolds'
  BY <1>1 DEF ReleaseInv, BranchHolds, remote
<1>7. FileHolds'
  BY <1>1, <1>3, <1>4 DEF ReleaseInv, FileHolds, Fits, remote
<1>8. ReleaserHolds'
  BY <1>1 DEF ReleaserHolds
<1> QED  BY <1>5, <1>6, <1>7, <1>8 DEF ReleaseInv

\* What was verified is a release newer than those from before the bot.
LEMMA PublishedIs ==
    ASSUME ReleaseInv, NEW target \in 1..MaxTrunk, target > Older, NEW p \in Plans,
           IsPublished(target, p)
    PROVE  /\ p.commit \in 1..trunk /\ p.commit >= target /\ p.tag > Older
           /\ p.tag \in good /\ tags[p.tag] = p.commit
<1>1. /\ p # NoPlan /\ tags[p.tag] = p.commit /\ target <= p.commit /\ p.commit \in 1..trunk
      /\ p.tag \in good
  BY DEF IsPublished
<1>2. p.tag \in ReleaseTags /\ MaxTags \in Nat /\ trunk \in Nat /\ MaxTrunk \in Nat
  BY <1>1, ReleaseConstants DEF Plans, ReleaseInv, ReleaseTypes, Older
<1>3. ASSUME p.tag \in 1..Older PROVE FALSE
  <2>1. tags[p.tag] = p.tag
    BY <1>3 DEF ReleaseInv, BranchHolds
  <2> QED  BY <2>1, <1>1, <1>2, <1>3 DEF Older
<1>4. p.tag > Older
  BY <1>2, <1>3 DEF ReleaseTags, Older
<1> QED  BY <1>1, <1>4

LEMMA RecordedIs ==
    ASSUME ReleaseInv, releaser # Asleep, releaser.pc \in ReleaseWorking \cup {"resume"},
           NEW p \in Plans, IsPublished(releaser.st.job.target, p)
    PROVE  LET f == Recorded(releaser.st, p) IN
           /\ f \in ReleaseStates /\ f # Missing /\ f.job = NoRelease
           /\ f.released = p.commit /\ f.history = releaser.st.history + 1
           /\ releaser.st.released <= f.released
           /\ Fits(f, trunk, releaseRuns, told, used, {}) /\ told < f.history
           /\ p.tag \in good /\ tags[p.tag] = p.commit
<1> DEFINE f == Recorded(releaser.st, p)
<1>1. /\ releaser.st \in ReleaseStates /\ releaser.st.job \in ReleaseJobs
      /\ releaser.st # Missing /\ releaser.st.job # NoRelease
      /\ Fits(releaser.st, trunk, releaseRuns, told, used, owed)
      /\ releaser.st.history < releaseRuns
  BY AwakeIs
<1>2. /\ releaser.st.job.target > Older /\ releaser.st.job.target >= releaser.st.released
      /\ told <= releaser.st.history
  BY <1>1 DEF Fits
<1>3. releaser.st.job.target \in 1..MaxTrunk /\ releaser.st.job.target \in Nat
  BY <1>1, JobTargets
<1>4. /\ p.commit \in 1..trunk /\ p.commit >= releaser.st.job.target /\ p.tag > Older
      /\ p.tag \in good /\ tags[p.tag] = p.commit
  BY <1>2, <1>3, PublishedIs
<1>5. /\ releaser.st.history \in 0..MaxReleaseRuns /\ releaser.st.released \in 0..MaxTrunk
      /\ releaseRuns \in 0..MaxReleaseRuns /\ trunk \in 0..MaxTrunk
      /\ MaxReleaseRuns \in Nat /\ MaxTrunk \in Nat /\ told \in Nat
  BY <1>1, ReleaseConstants DEF ReleaseStates, ReleaseInv, ReleaseTypes, Older
<1>6. f = [released |-> p.commit, job |-> NoRelease, history |-> releaser.st.history + 1]
  BY <1>4 DEF Recorded
<1>7. f.released = p.commit /\ f.job = NoRelease /\ f.history = releaser.st.history + 1
  BY <1>6
<1>8. p.commit \in 0..MaxTrunk /\ releaser.st.history + 1 \in 0..MaxReleaseRuns
      /\ releaser.st.history + 1 <= releaseRuns /\ told < releaser.st.history + 1
      /\ Older <= p.commit /\ p.commit <= trunk /\ releaser.st.released <= p.commit
  <2>1. p.commit \in 0..MaxTrunk /\ p.commit <= trunk /\ releaser.st.released <= p.commit
    BY <1>2, <1>3, <1>4, <1>5
  <2>2. Older <= p.commit
    BY <1>2, <1>3, <1>4, <1>5 DEF Older
  <2>3. releaser.st.history + 1 <= releaseRuns /\ told < releaser.st.history + 1
    BY <1>1, <1>2, <1>5
  <2>4. releaser.st.history + 1 \in 0..MaxReleaseRuns
    BY <1>1, <1>5
  <2> QED  BY <2>1, <2>2, <2>3, <2>4
<1>9. f \in ReleaseStates
  BY <1>6, <1>8 DEF ReleaseStates
<1>10. f # Missing
  BY <1>9, StatesAreFiles
<1> HIDE DEF f
<1>11. told <= f.history
  BY <1>5, <1>7, <1>8
<1>12. Fits(f, trunk, releaseRuns, told, used, {})
  BY <1>7, <1>8, <1>11 DEF Fits
<1>13. f.released = p.commit /\ releaser.st.released <= f.released /\ told < f.history
  BY <1>7, <1>8
<1> QED  BY <1>4, <1>7, <1>9, <1>10, <1>12, <1>13 DEF f
\* Recording ends the job.
LEMMA RecordingSteps ==
    ASSUME ReleaseInv, releaser # Asleep, releaser.pc \in ReleaseWorking \cup {"resume"},
           NEW p \in Plans, IsPublished(releaser.st.job.target, p),
           RecordVerified(releaser.st, p), owed' = {},
           UNCHANGED <<remote, worktree, releaseRuns, told, upsets>>
    PROVE  ReleaseInv'
<1> DEFINE f == Recorded(releaser.st, p)
<1>1. /\ f \in ReleaseStates /\ f # Missing /\ f.job = NoRelease
      /\ f.history = releaser.st.history + 1
      /\ Fits(f, trunk, releaseRuns, told, used, {}) /\ told < f.history
  BY RecordedIs
<1>2. /\ releaser \in Releasers /\ releaser.st = releaseFile
      /\ Fits(releaseFile, trunk, releaseRuns, told, used, owed)
      /\ releaseFile \in ReleaseStates /\ releaseFile # Missing
  BY AwakeIs
<1>3. /\ used' = used /\ used \in Int /\ used <= ReleaseAttempts /\ upsets \in 0..MaxUpsets
      /\ releaseRuns >= 1
  BY DEF RecordVerified, ReleaseInv, ReleaseTypes, FileHolds, ReleaserHolds
<1>4. CASE releaseFile' \in {releaseFile, f} /\ Ends
  <2>1. Fits(releaseFile, trunk, releaseRuns, told, used, {})
    BY <1>2 DEF Fits
  <2>2. /\ releaseFile' \in ReleaseStates /\ Fits(releaseFile', trunk, releaseRuns, told, used, {})
        /\ releaseFile' # Missing
    BY <1>1, <1>2, <1>4, <2>1
  <2>3. releaser' = Asleep
    BY <1>4 DEF Ends
  <2> QED  BY <1>3, <2>2, <2>3, ReleaseRunEnds
<1>5. CASE releaseFile' = f /\ ReleaserAt("notify", f)
  <2> HIDE DEF f
  <2>1. releaser' \in Releasers /\ releaser'.pc = "notify" /\ releaser'.st = f
    BY <1>1, <1>2, <1>5 DEF ReleaserAt, Releasers, ReleaseStages
  <2>2. ReleaseTypes'
    BY <1>1, <1>3, <1>5, <2>1 DEF ReleaseInv, ReleaseTypes, remote
  <2>3. BranchHolds'
    BY DEF ReleaseInv, BranchHolds, remote
  <2>4. FileHolds'
    BY <1>1, <1>3, <1>5 DEF FileHolds, Fits, remote
  <2>5. ReleaserHolds'
    BY <1>1, <1>3, <1>5, <2>1 DEF ReleaserHolds, ReleaseWorking
  <2> QED  BY <2>2, <2>3, <2>4, <2>5 DEF ReleaseInv
<1> QED  BY <1>4, <1>5 DEF RecordVerified

LEMMA ResumeRecords ==
    ASSUME ReleaseInv, releaser # Asleep, ResumeVerifies PROVE ReleaseInv'
<1>1. PICK p \in Publications(releaser.st.job) :
        Verified(releaser.st.job.target, p) /\ RecordVerified(releaser.st, p)
  BY DEF ResumeVerifies
<1>2. /\ releaser.pc = "resume" /\ owed' = {} /\ UNCHANGED <<remote, worktree, releaseRuns, told>>
      /\ IsPublished(releaser.st.job.target, p) /\ UNCHANGED upsets
  BY <1>1 DEF ResumeVerifies, Verified
<1>3. releaser.st.job \in ReleaseJobs
  BY <1>2, AwakeIs
<1>4. p \in Plans
  BY <1>3 DEF Publications, ReleaseJobs
<1> QED  BY <1>1, <1>2, <1>4, RecordingSteps

LEMMA DisprovedIs ==
    ASSUME NEW j \in ReleaseJobs, NEW k \in Disproved(j)
    PROVE  /\ k \in ReleaseJobs /\ k.target = j.target /\ k.tries = j.tries
           /\ k.plan = j.plan /\ k.candidate = j.candidate
<1> DEFINE why == IF j.candidate # NoPlan THEN "verify"
                  ELSE IF j.plan # NoPlan /\ j.failure = "" THEN "other" ELSE j.failure
           failing == [j EXCEPT !.failure = why]
<1>1. why \in {"", "verify", "other"}
  BY DEF ReleaseJobs
<1>2. k = failing \/ k = [failing EXCEPT !.needs = TRUE]
  BY DEF Disproved
<1> HIDE DEF why
<1>3. /\ failing \in ReleaseJobs /\ failing.target = j.target /\ failing.tries = j.tries
      /\ failing.plan = j.plan /\ failing.candidate = j.candidate
  BY <1>1 DEF ReleaseJobs
<1>4. LET n == [failing EXCEPT !.needs = TRUE] IN
      /\ n \in ReleaseJobs /\ n.target = j.target /\ n.tries = j.tries
      /\ n.plan = j.plan /\ n.candidate = j.candidate
  BY <1>1 DEF ReleaseJobs
<1> QED  BY <1>2, <1>3, <1>4

\* No publication of the job may be found when the receipt and the plan fail.
LEMMA NothingOwed ==
    ASSUME NEW j, \A p \in Publications(j) : ~IsPublished(j.target, p),
           NEW k, k.target = j.target, owed \subseteq {j.candidate, j.plan}
    PROVE  Owed(k) = {}
<1>1. ASSUME NEW p \in owed, IsPublished(j.target, p) PROVE FALSE
  <2>1. p # NoPlan
    BY <1>1 DEF IsPublished
  <2> QED  BY <1>1, <2>1 DEF Publications
<1> QED  BY <1>1 DEF Owed
LEMMA ResumeTries ==
    ASSUME ReleaseInv, releaser # Asleep, ResumeAttempts PROVE ReleaseInv'
<1> DEFINE old == releaser.st.job
<1>1. /\ releaser.pc = "resume" /\ Misjudges(old)
      /\ UNCHANGED <<remote, worktree, releaseRuns, told, owed>>
  BY DEF ResumeAttempts
<1>2. /\ releaser.st \in ReleaseStates /\ releaser.st = releaseFile /\ old \in ReleaseJobs
      /\ Fits(releaser.st, trunk, releaseRuns, told, used, owed)
      /\ used <= old.tries /\ owed \subseteq {old.candidate, old.plan}
      /\ releaser.st.history < releaseRuns /\ old.tries \in 0..ReleaseAttempts
  BY <1>1, AwakeIs
<1>3. PICK j \in Disproved(old) :
        IF j.tries >= ReleaseAttempts
        THEN releaseFile' = WithJob(releaser.st, j) /\ Ends /\ UNCHANGED used
        ELSE /\ releaseFile' = WithJob(releaser.st, Consumed(j)) /\ used' = used + 1
             /\ releaser' = [pc |-> "attempt", st |-> WithJob(releaser.st, Consumed(j)),
                             found |-> Owed(j), misjudged |-> upsets' # upsets]
  BY DEF ResumeAttempts
<1> HIDE DEF old
<1>4. /\ j \in ReleaseJobs /\ j.target = old.target /\ j.tries = old.tries
      /\ j.plan = old.plan /\ j.candidate = old.candidate
  BY <1>2, DisprovedIs
<1>5. /\ used \in Int /\ owed \subseteq Plans /\ upsets \in 0..MaxUpsets /\ MaxUpsets \in Nat
      /\ ReleaseAttempts \in Nat /\ used <= ReleaseAttempts /\ releaseRuns >= 1
  BY ReleaseConstants DEF ReleaseInv, ReleaseTypes, FileHolds, ReleaserHolds
<1>6. upsets' \in 0..MaxUpsets
  BY <1>1, <1>5 DEF Misjudges, Upset
<1>7. CASE j.tries >= ReleaseAttempts
  <2> DEFINE files == {WithJob(releaser.st, j)}
  <2>1. releaseFile' \in files /\ Ends /\ used' = used
    BY <1>3, <1>7
  <2>2. \A f \in files : f = releaseFile \/
           \E i \in ReleaseJobs :
               /\ f = WithJob(releaser.st, i) /\ i.target = releaser.st.job.target
               /\ used' <= i.tries /\ owed' \subseteq {i.candidate, i.plan}
    BY <1>1, <1>2, <1>4, <2>1 DEF old
  <2>3. used' <= releaser.st.job.tries /\ used' \in Int /\ owed' \subseteq Plans
        /\ owed' \subseteq {releaser.st.job.candidate, releaser.st.job.plan}
        /\ releaser.pc \in ReleaseWorking \cup {"resume"}
        /\ UNCHANGED <<remote, worktree, releaseRuns, told>>
    BY <1>1, <1>2, <1>5, <2>1 DEF old
  <2> HIDE DEF files
  <2> QED  BY <1>6, <2>1, <2>2, <2>3, FileIsOneOf
<1>8. CASE ~(j.tries >= ReleaseAttempts)
  <2> DEFINE n == j.tries + 1
             k == [j EXCEPT !.tries = n]
             st == WithJob(releaser.st, k)
             b == [pc |-> "attempt", st |-> st, found |-> Owed(j), misjudged |-> upsets' # upsets]
  <2>1. Consumed(j) = k
    BY DEF Consumed
  <2>2. releaseFile' = st /\ used' = used + 1 /\ releaser' = b
    BY <1>3, <1>8, <2>1
  <2>3. n \in 1..ReleaseAttempts /\ n \in 0..ReleaseAttempts /\ used + 1 <= n
        /\ used + 1 <= ReleaseAttempts /\ n >= 1 /\ used + 1 \in Int
    BY <1>2, <1>4, <1>5, <1>8
  <2> HIDE DEF n
  <2>4. /\ k \in ReleaseJobs /\ k.target = old.target /\ k.tries = n
        /\ k.plan = old.plan /\ k.candidate = old.candidate
    BY <1>4, <2>3, TriesEdits
  <2> HIDE DEF k
  <2>5. /\ st \in ReleaseStates /\ st # Missing /\ st.job = k
        /\ st.history = releaser.st.history
    BY <1>2, <2>4, WithJobIs
  <2>6. Fits(st, trunk, releaseRuns, told, used + 1, owed)
    BY <1>2, <2>3, <2>4, JobFits DEF old
  <2> HIDE DEF st
  <2>7. upsets' # upsets \/ Owed(j) = {}
    <3>1. CASE \E p \in Publications(old) : IsPublished(old.target, p)
      BY <1>1, <1>5, <3>1 DEF Misjudges, Upset
    <3>2. CASE \A p \in Publications(old) : ~IsPublished(old.target, p)
      BY <1>2, <1>4, <3>2, NothingOwed
    <3> QED  BY <3>1, <3>2
  <2>8. Owed(j) \in SUBSET Plans
    BY <1>5 DEF Owed
  <2>9. /\ b \in Releasers /\ b.pc = "attempt" /\ b.st = st
        /\ (b.misjudged \/ b.found = {})
    BY <2>5, <2>7, <2>8 DEF Releasers, ReleaseStages
  <2> HIDE DEF b
  <2>10. ReleaseTypes'
    BY <1>1, <1>6, <2>2, <2>3, <2>5, <2>9 DEF ReleaseInv, ReleaseTypes, remote
  <2>11. BranchHolds'
    BY <1>1 DEF ReleaseInv, BranchHolds, remote
  <2>12. FileHolds'
    <3>1. Fits(releaseFile, trunk, releaseRuns, told, used, owed)'
      BY <1>1, <2>2, <2>6 DEF Fits, remote
    <3> QED  BY <2>2, <2>3, <2>5, <3>1 DEF FileHolds
  <2>13. ReleaserHolds'
    BY <1>1, <1>2, <1>5, <2>2, <2>3, <2>4, <2>5, <2>9 DEF ReleaserHolds, ReleaseWorking
  <2> QED  BY <2>10, <2>11, <2>12, <2>13 DEF ReleaseInv
<1> QED  BY <1>7, <1>8

\* Canceling gives the attempt back, or leaves the file.
LEMMA CancelingSteps ==
    ASSUME ReleaseInv, releaser # Asleep, releaser.pc \in ReleaseWorking \cup {"resume"},
           NEW j \in ReleaseJobs, Canceled(j), j.target = releaser.st.job.target,
           j.plan = releaser.st.job.plan, j.candidate = releaser.st.job.candidate,
           used' \in Int, used' <= j.tries, used' <= releaser.st.job.tries,
           UNCHANGED <<remote, worktree, releaseRuns, told, owed>>
    PROVE  ReleaseInv'
<1> DEFINE files == {releaseFile, WithJob(releaser.st, j)}
<1>1. releaseFile' \in files /\ Ends /\ upsets' \in 0..MaxUpsets
  BY ReleaseConstants DEF Canceled, EndsUnsaved, Upset, ReleaseInv, ReleaseTypes
<1>2. owed \subseteq {releaser.st.job.candidate, releaser.st.job.plan} /\ owed \subseteq Plans
  BY AwakeIs DEF ReleaseInv, ReleaseTypes
<1>3. \A f \in files : f = releaseFile \/
         \E i \in ReleaseJobs :
             /\ f = WithJob(releaser.st, i) /\ i.target = releaser.st.job.target
             /\ used' <= i.tries /\ owed' \subseteq {i.candidate, i.plan}
  BY <1>2
<1> HIDE DEF files
<1> QED  BY <1>1, <1>2, <1>3, FileIsOneOf

LEMMA ReleaseCancelSteps ==
    ASSUME ReleaseInv, releaser # Asleep, ResumeCanceled \/ AttemptCanceled
    PROVE  ReleaseInv'
<1>1. releaser.pc \in ReleaseWorking \cup {"resume"}
  BY DEF ResumeCanceled, AttemptCanceled, ReleaseWorking
<1>2. /\ releaser.st.job \in ReleaseJobs /\ used <= releaser.st.job.tries
      /\ releaser.st.job.tries \in 0..ReleaseAttempts
      /\ (releaser.pc \in ReleaseWorking => releaser.st.job.tries \in 1..ReleaseAttempts)
      /\ used \in Int /\ ReleaseAttempts \in Nat
  BY <1>1, AwakeIs, ReleaseConstants DEF ReleaseInv, ReleaseTypes
<1>3. CASE ResumeCanceled
  BY <1>1, <1>2, <1>3, CancelingSteps DEF ResumeCanceled, ghosts
<1>4. CASE AttemptCanceled
  <2> DEFINE n == releaser.st.job.tries - 1
             j == [releaser.st.job EXCEPT !.tries = n]
  <2>1. releaser.pc \in ReleaseWorking /\ Refunded(job) = j
    BY <1>4 DEF AttemptCanceled, ReleaseWorking, Refunded, job
  <2>2. n \in 0..ReleaseAttempts /\ used - 1 <= n /\ used - 1 \in Int
        /\ used - 1 <= releaser.st.job.tries
    BY <1>2, <2>1
  <2> HIDE DEF n
  <2>3. /\ j \in ReleaseJobs /\ j.target = releaser.st.job.target /\ j.tries = n
        /\ j.plan = releaser.st.job.plan /\ j.candidate = releaser.st.job.candidate
    BY <1>2, <2>2, TriesEdits
  <2> HIDE DEF j
  <2>4. Canceled(j) /\ used' = used - 1
        /\ UNCHANGED <<remote, worktree, releaseRuns, told, owed>>
    BY <1>4, <2>1 DEF AttemptCanceled
  <2> QED  BY <1>1, <2>2, <2>3, <2>4, CancelingSteps
<1> QED  BY <1>3, <1>4

LEMMA AttemptSteps ==
    ASSUME ReleaseInv, releaser # Asleep, Attempt PROVE ReleaseInv'
<1>1. /\ releaser.pc = "attempt" /\ releaser.pc \in ReleaseWorking
      /\ UNCHANGED <<remote, worktree, releaseRuns, ghosts>>
  BY DEF Attempt, ReleaseWorking
<1>2. /\ job \in ReleaseJobs /\ owed \subseteq {job.candidate, job.plan}
  BY <1>1, AwakeIs DEF job
<1>3. CASE Usable(job)
  <2> DEFINE j == [job EXCEPT !.phase = "validating"]
  <2>1. SavesAndGoes("validate", WithJob(releaser.st, j)) /\ "validate" \in ReleaseWorking
    BY <1>3 DEF Attempt, ReleaseWorking
  <2>2. /\ j \in ReleaseJobs /\ j.target = job.target /\ j.tries = job.tries
        /\ j.plan = job.plan /\ j.candidate = job.candidate
    BY <1>2, JobEdits
  <2> HIDE DEF j
  <2> QED  BY <1>1, <1>2, <2>1, <2>2, SavingOn DEF ghosts, job
<1>4. CASE ~Usable(job)
  <2> DEFINE j == [job EXCEPT !.phase = "preflight", !.needs = TRUE]
  <2>1. SavesAndGoes("prepare", WithJob(releaser.st, j)) /\ "prepare" \in ReleaseWorking
    BY <1>4 DEF Attempt, ReleaseWorking
  <2>2. /\ j \in ReleaseJobs /\ j.target = job.target /\ j.tries = job.tries
        /\ j.plan = job.plan /\ j.candidate = job.candidate
    BY <1>2, JobEdits
  <2> HIDE DEF j
  <2> QED  BY <1>1, <1>2, <2>1, <2>2, SavingOn DEF ghosts, job
<1> QED  BY <1>3, <1>4

LEMMA PlanSteps ==
    ASSUME ReleaseInv, releaser # Asleep, PlanReady PROVE ReleaseInv'
<1>1. PICK p \in [commit : {worktree, trunk} \cup 1..Older, tag : ReleaseTags] :
        /\ SavesAndGoes("validate",
              WithJob(releaser.st, [job EXCEPT !.plan = p, !.needs = FALSE, !.phase = "validating"]))
        /\ owed' = owed \cap {p, job.candidate}
  BY DEF PlanReady
<1>2. /\ releaser.pc \in ReleaseWorking /\ "validate" \in ReleaseWorking
      /\ UNCHANGED <<remote, worktree, releaseRuns, told, used>>
  BY DEF PlanReady, ReleaseWorking
<1>3. job \in ReleaseJobs
  BY <1>2, AwakeIs DEF job
<1>4. p \in Plans
  <2>1. worktree \in 0..trunk /\ trunk \in Older..MaxTrunk /\ MaxTrunk \in Nat
    BY ReleaseConstants DEF ReleaseInv, ReleaseTypes
  <2>2. p.commit \in 0..MaxTrunk
    BY <2>1 DEF Older
  <2> QED  BY <2>2 DEF Plans
<1> DEFINE j == [job EXCEPT !.plan = p, !.needs = FALSE, !.phase = "validating"]
<1>5. /\ j \in ReleaseJobs /\ j.target = job.target /\ j.tries = job.tries
      /\ j.plan = p /\ j.candidate = job.candidate
  BY <1>3, <1>4 DEF ReleaseJobs
<1>6. SavesAndGoes("validate", WithJob(releaser.st, j))
  BY <1>1
<1> HIDE DEF j
<1>7. owed' \subseteq owed /\ owed' \subseteq {j.candidate, j.plan}
  BY <1>1, <1>5
<1> QED  BY <1>2, <1>5, <1>6, <1>7, SavingOn DEF job

LEMMA GateSteps ==
    ASSUME ReleaseInv, releaser # Asleep, Gate PROVE ReleaseInv'
<1>1. /\ releaser.pc \in ReleaseWorking /\ UNCHANGED <<remote, worktree, releaseRuns, ghosts>>
  BY DEF Gate, ReleaseWorking
<1>2. /\ job \in ReleaseJobs /\ owed \subseteq {job.candidate, job.plan}
  BY <1>1, AwakeIs DEF job
<1>3. CASE GatePasses(job) /\ SavesAndGoes("publish", WithJob(releaser.st, [job EXCEPT !.phase = "publish"]))
  <2> DEFINE j == [job EXCEPT !.phase = "publish"]
  <2>1. SavesAndGoes("publish", WithJob(releaser.st, j)) /\ "publish" \in ReleaseWorking
    BY <1>3 DEF ReleaseWorking
  <2>2. /\ j \in ReleaseJobs /\ j.target = job.target /\ j.tries = job.tries
        /\ j.plan = job.plan /\ j.candidate = job.candidate
    BY <1>2, JobEdits
  <2>3. job.plan.tag \in ReleaseTags
    <3>1. job.plan \in Plans /\ job.plan.commit \in 1..trunk
      BY <1>2, <1>3 DEF GatePasses, ReleaseJobs
    <3>2. job.plan # NoPlan
      BY <3>1 DEF NoPlan
    <3> QED  BY <3>1, <3>2 DEF Plans
  <2> HIDE DEF j
  <2> QED  BY <1>1, <1>2, <2>1, <2>2, <2>3, SavingOn DEF ghosts, job
<1>4. ASSUME NEW needs \in {TRUE, job.needs},
             SavesAndEnds(WithJob(releaser.st, [FailedWith(job, "other") EXCEPT !.needs = needs]))
      PROVE  ReleaseInv'
  <2> DEFINE j == [FailedWith(job, "other") EXCEPT !.needs = needs]
  <2>1. needs \in BOOLEAN
    BY <1>2 DEF ReleaseJobs
  <2>2. /\ j \in ReleaseJobs /\ j.target = job.target /\ j.tries = job.tries
        /\ j.plan = job.plan /\ j.candidate = job.candidate
    BY <1>2, <2>1, JobEdits
  <2>3. SavesAndEnds(WithJob(releaser.st, j))
    BY <1>4
  <2> HIDE DEF j
  <2> QED  BY <1>1, <1>2, <2>2, <2>3, SavingLast DEF ghosts, job
<1> QED  BY <1>3, <1>4 DEF Gate
LEMMA PublishSteps ==
    ASSUME ReleaseInv, releaser # Asleep, AgentPublishes PROVE ReleaseInv'
<1>1. /\ releaser.pc = "publish" /\ tags[job.plan.tag] = 0
      /\ tags' = [tags EXCEPT ![job.plan.tag] = job.plan.commit]
      /\ owed' = owed \cup {job.plan}
      /\ UNCHANGED <<trunk, good, worktree, releaseFile, releaser, releaseRuns, upsets, told, used>>
  BY DEF AgentPublishes
<1>2. /\ job \in ReleaseJobs /\ owed \subseteq {job.candidate, job.plan}
      /\ releaser.st = releaseFile
      /\ Fits(releaseFile, trunk, releaseRuns, told, used, owed)
      /\ job.plan.tag \in ReleaseTags
  BY <1>1, AwakeIs DEF job, ReleaseWorking, ReleaseInv, ReleaserHolds
<1>3. /\ tags \in [ReleaseTags -> 0..MaxTrunk] /\ owed \subseteq Plans
      /\ good \subseteq {t \in ReleaseTags : tags[t] # 0}
      /\ \A t \in 1..Older : tags[t] = t
  BY DEF ReleaseInv, ReleaseTypes, BranchHolds
<1>4. job.plan \in Plans
  BY <1>2 DEF ReleaseJobs
<1>5. job.plan.commit \in 0..MaxTrunk
  BY <1>4, ReleaseConstants DEF Plans, NoPlan
<1>6. tags' \in [ReleaseTags -> 0..MaxTrunk] /\ owed' \subseteq Plans
      /\ good' \subseteq {t \in ReleaseTags : tags'[t] # 0}
  BY <1>1, <1>2, <1>3, <1>4, <1>5
<1>7. ReleaseTypes'
  BY <1>1, <1>6 DEF ReleaseInv, ReleaseTypes
<1>8. BranchHolds'
  <2>1. ASSUME NEW t \in 1..Older PROVE tags'[t] = t
    <3>1. t # job.plan.tag
      BY <1>1, <1>3 DEF Older
    <3>2. t \in ReleaseTags
      BY ReleaseConstants DEF ReleaseTags, Older
    <3> QED  BY <1>1, <1>3, <3>1, <3>2
  <2> QED  BY <1>1, <2>1 DEF ReleaseInv, BranchHolds
<1>9. FileHolds'
  BY <1>1, <1>2 DEF ReleaseInv, FileHolds, Fits, job
<1>10. ReleaserHolds'
  BY <1>1 DEF ReleaseInv, ReleaserHolds
<1> QED  BY <1>7, <1>8, <1>9, <1>10 DEF ReleaseInv

LEMMA ReportSteps ==
    ASSUME ReleaseInv, releaser # Asleep, PublishReported PROVE ReleaseInv'
<1> DEFINE j == [job EXCEPT !.candidate = job.plan]
           files == {releaseFile, WithJob(releaser.st, j)}
<1>1. /\ releaser.pc = "publish" /\ releaser.pc \in ReleaseWorking /\ owed' = owed \cap {job.plan}
      /\ UNCHANGED <<remote, worktree, releaseRuns, told, used>>
  BY DEF PublishReported, ReleaseWorking
<1>2. /\ job \in ReleaseJobs /\ owed \subseteq {job.candidate, job.plan}
      /\ used <= job.tries /\ used \in Int /\ owed \subseteq Plans
  BY <1>1, AwakeIs DEF job, ReleaseInv, ReleaseTypes
<1>3. /\ j \in ReleaseJobs /\ j.target = job.target /\ j.tries = job.tries
      /\ j.plan = job.plan /\ j.candidate = job.plan
  BY <1>2 DEF ReleaseJobs
<1>4. \/ ReleaseSaves(WithJob(releaser.st, j)) /\ ReleaserAt("verify", WithJob(releaser.st, j))
      \/ EndsUnsaved(files)
  BY DEF PublishReported
<1> HIDE DEF j
<1>5. CASE ReleaseSaves(WithJob(releaser.st, j)) /\ ReleaserAt("verify", WithJob(releaser.st, j))
  BY <1>1, <1>2, <1>3, <1>5, RunGoes DEF ReleaseSaves, ReleaseWorking, job
<1>6. CASE EndsUnsaved(files)
  <2>1. releaseFile' \in files /\ Ends /\ upsets' \in 0..MaxUpsets
    BY <1>6, ReleaseConstants DEF EndsUnsaved, Upset, ReleaseInv, ReleaseTypes
  <2>2. \A f \in files : f = releaseFile \/
           \E i \in ReleaseJobs :
               /\ f = WithJob(releaser.st, i) /\ i.target = releaser.st.job.target
               /\ used' <= i.tries /\ owed' \subseteq {i.candidate, i.plan}
    BY <1>1, <1>2, <1>3 DEF job
  <2> HIDE DEF files
  <2>3. used' <= releaser.st.job.tries /\ used' \in Int /\ owed' \subseteq Plans
        /\ owed' \subseteq {releaser.st.job.candidate, releaser.st.job.plan}
        /\ releaser.pc \in ReleaseWorking \cup {"resume"}
    BY <1>1, <1>2 DEF job
  <2> QED  BY <1>1, <2>1, <2>2, <2>3, FileIsOneOf
<1> QED  BY <1>4, <1>5, <1>6

LEMMA RefusedSteps ==
    ASSUME ReleaseInv, releaser # Asleep, PublicationRefused PROVE ReleaseInv'
<1> DEFINE j == [FailedWith(job, "other") EXCEPT !.needs = TRUE]
<1>1. /\ releaser.pc \in ReleaseWorking /\ UNCHANGED <<remote, worktree, releaseRuns, ghosts>>
      /\ SavesAndEnds(WithJob(releaser.st, j))
  BY DEF PublicationRefused, ReleaseWorking
<1>2. /\ job \in ReleaseJobs /\ owed \subseteq {job.candidate, job.plan}
  BY <1>1, AwakeIs DEF job
<1>3. /\ j \in ReleaseJobs /\ j.target = job.target /\ j.tries = job.tries
      /\ j.plan = job.plan /\ j.candidate = job.candidate
  BY <1>2, JobEdits
<1> HIDE DEF j
<1> QED  BY <1>1, <1>2, <1>3, SavingLast DEF ghosts, job

LEMMA FailSteps ==
    ASSUME ReleaseInv, releaser # Asleep, AgentFails PROVE ReleaseInv'
<1> DEFINE n == job.tries - 1
           j == [job EXCEPT !.tries = n]
           k == FailedWith(job, "other")
<1>1. /\ releaser.pc \in ReleaseWorking /\ UNCHANGED <<remote, worktree, releaseRuns, told, owed>>
  BY DEF AgentFails, ReleaseWorking
<1>2. /\ job \in ReleaseJobs /\ owed \subseteq {job.candidate, job.plan}
      /\ used <= job.tries /\ used \in Int /\ owed \subseteq Plans
      /\ job.tries \in 1..ReleaseAttempts /\ ReleaseAttempts \in Nat
      /\ releaser.st \in ReleaseStates
  BY <1>1, AwakeIs, ReleaseConstants DEF job, ReleaseInv, ReleaseTypes
<1>3. n \in 0..ReleaseAttempts /\ n < job.tries /\ used - 1 <= n /\ used - 1 \in Int
      /\ used - 1 <= job.tries
  BY <1>2
<1>4. PICK st \in {WithJob(releaser.st, k), WithJob(releaser.st, j)} :
        /\ (ReleaseSaves(st) /\ Ends) \/ EndsUnsaved({releaseFile, st})
        /\ used' = IF st.job.tries < job.tries THEN used - 1 ELSE used
  BY DEF AgentFails, Refunded
<1> DEFINE files == {releaseFile, st}
<1>5. releaseFile' \in files /\ Ends /\ upsets' \in 0..MaxUpsets
  <2>1. upsets \in 0..MaxUpsets /\ MaxUpsets \in Nat
    BY ReleaseConstants DEF ReleaseInv, ReleaseTypes
  <2> QED  BY <1>4, <2>1 DEF ReleaseSaves, EndsUnsaved, Upset
<1> HIDE DEF n
<1>6. /\ j \in ReleaseJobs /\ j.target = job.target /\ j.tries = n
      /\ j.plan = job.plan /\ j.candidate = job.candidate
  BY <1>2, <1>3, TriesEdits
<1>7. /\ k \in ReleaseJobs /\ k.target = job.target /\ k.tries = job.tries
      /\ k.plan = job.plan /\ k.candidate = job.candidate
  BY <1>2, JobEdits
<1> HIDE DEF j, k
<1>8. WithJob(releaser.st, j).job = j /\ WithJob(releaser.st, k).job = k
  BY <1>2, <1>6, <1>7, WithJobIs
<1>9. PICK i \in {j, k} : st = WithJob(releaser.st, i) /\ used' <= i.tries
  <2>1. CASE st = WithJob(releaser.st, j)
    BY <2>1, <1>3, <1>4, <1>6, <1>8
  <2>2. CASE st = WithJob(releaser.st, k)
    BY <2>2, <1>2, <1>3, <1>4, <1>7, <1>8
  <2> QED  BY <2>1, <2>2, <1>4
<1>10. used' \in Int /\ used' <= job.tries
  BY <1>2, <1>3, <1>4
<1>11. \A f \in files : f = releaseFile \/
          \E x \in ReleaseJobs :
              /\ f = WithJob(releaser.st, x) /\ x.target = releaser.st.job.target
              /\ used' <= x.tries /\ owed' \subseteq {x.candidate, x.plan}
  BY <1>1, <1>2, <1>6, <1>7, <1>9 DEF job
<1> HIDE DEF files
<1> QED  BY <1>1, <1>2, <1>5, <1>10, <1>11, FileIsOneOf DEF job

LEMMA VerifySteps ==
    ASSUME ReleaseInv, releaser # Asleep, VerifyAfterPublish PROVE ReleaseInv'
<1>1. /\ releaser.pc = "verify" /\ releaser.pc \in ReleaseWorking
      /\ UNCHANGED <<remote, worktree, releaseRuns, told>>
  BY DEF VerifyAfterPublish, ReleaseWorking
<1>2. /\ job \in ReleaseJobs /\ owed \subseteq {job.candidate, job.plan}
      /\ used <= job.tries /\ used \in Int /\ owed \subseteq Plans
      /\ upsets \in 0..MaxUpsets /\ MaxUpsets \in Nat
  BY <1>1, AwakeIs, ReleaseConstants DEF job, ReleaseInv, ReleaseTypes
<1>3. CASE /\ Verified(job.target, job.candidate)
           /\ RecordVerified(releaser.st, job.candidate) /\ owed' = {}
  <2>1. job.candidate \in Plans
    BY <1>2 DEF ReleaseJobs
  <2>2. IsPublished(releaser.st.job.target, job.candidate) /\ UNCHANGED upsets
    BY <1>3 DEF Verified, job
  <2> QED  BY <1>1, <1>3, <2>1, <2>2, RecordingSteps
<1>4. CASE /\ Unverified(job.target, job.candidate) \/ Misjudged(job.target, job.candidate)
           /\ releaseFile' = WithJob(releaser.st, FailedWith(job, "verify")) /\ Ends
           /\ UNCHANGED <<used, owed>>
  <2> DEFINE j == FailedWith(job, "verify")
             files == {WithJob(releaser.st, j)}
  <2>1. upsets' \in 0..MaxUpsets
    BY <1>2, <1>4 DEF Unverified, Misjudged, Upset
  <2>2. /\ j \in ReleaseJobs /\ j.target = job.target /\ j.tries = job.tries
        /\ j.plan = job.plan /\ j.candidate = job.candidate
    BY <1>2, JobEdits
  <2>3. releaseFile' \in files /\ Ends
    BY <1>4
  <2>4. \A f \in files : f = releaseFile \/
           \E i \in ReleaseJobs :
               /\ f = WithJob(releaser.st, i) /\ i.target = releaser.st.job.target
               /\ used' <= i.tries /\ owed' \subseteq {i.candidate, i.plan}
    BY <1>2, <1>4, <2>2 DEF job
  <2> HIDE DEF files
  <2> QED  BY <1>1, <1>2, <1>4, <2>1, <2>3, <2>4, FileIsOneOf DEF job
<1> QED  BY <1>3, <1>4 DEF VerifyAfterPublish

-----------------------------------------------------------------------------
\* The theorems.

LEMMA ReleaseStarts == ReleaseInit => ReleaseInv
<1> SUFFICES ASSUME ReleaseInit PROVE ReleaseInv
  OBVIOUS
<1>1. /\ trunk = Older /\ worktree = Older
      /\ tags = [t \in ReleaseTags |-> IF t <= Older THEN t ELSE 0] /\ good = 1..Older
      /\ releaseFile = Missing /\ releaser = Asleep
      /\ releaseRuns = 0 /\ upsets = 0 /\ told = 0 /\ used = 0 /\ owed = {}
  BY DEF ReleaseInit
<1>2. /\ {ReleaseAttempts, MaxTrunk, MaxTags, MaxReleaseRuns, MaxUpsets} \subseteq Nat
      /\ 2 <= MaxTrunk /\ 2 <= MaxTags
  BY ReleaseConstants DEF Older
<1>3. tags \in [ReleaseTags -> 0..MaxTrunk]
      /\ good \subseteq {t \in ReleaseTags : tags[t] # 0}
      /\ \A t \in 1..Older : tags[t] = t
  BY <1>1, <1>2 DEF ReleaseTags, Older
<1>4. ReleaseTypes
  BY <1>1, <1>2, <1>3 DEF ReleaseTypes, Older
<1>5. BranchHolds
  BY <1>1, <1>3 DEF BranchHolds, Older
<1>6. FileHolds
  BY <1>1, <1>2 DEF FileHolds, Fits
<1> QED  BY <1>1, <1>4, <1>5, <1>6 DEF ReleaseInv, ReleaserHolds

LEMMA ReleaseSteps == ReleaseInv /\ [ReleaseNext]_releasebot => ReleaseInv'
<1> SUFFICES ASSUME ReleaseInv, [ReleaseNext]_releasebot PROVE ReleaseInv'
  OBVIOUS
<1>1. CASE UNCHANGED releasebot
  BY <1>1 DEF releasebot, ReleaseInv, ReleaseTypes, BranchHolds, FileHolds, Fits, ReleaserHolds
<1>2. CASE PublicationCompletes \/ PushOutside
  BY <1>2, WorldSteps
<1>3. CASE ReleaseBegins
  BY <1>3, BeginSteps
<1>4. CASE ReleaseRetry
  BY <1>4, ReleaseRetrySteps
<1>5. CASE ReleaserCrash
  BY <1>5, CrashSteps
<1>6. CASE releaser # Asleep /\ (Open \/ NotDue \/ StartJob \/ Notify)
  BY <1>6, OpenSteps, NotDueSteps, StartSteps, NotifySteps
<1>7. CASE releaser # Asleep /\ (ResumeVerifies \/ ResumeAttempts \/ ResumeCanceled)
  BY <1>7, ResumeRecords, ResumeTries, ReleaseCancelSteps
<1>8. CASE releaser # Asleep /\ (Attempt \/ AgentPrepares \/ PlanReady \/ Gate)
  BY <1>8, AttemptSteps, PrepareSteps, PlanSteps, GateSteps
<1>9. CASE releaser # Asleep /\ (AgentPublishes \/ PublishReported \/ PublicationRefused)
  BY <1>9, PublishSteps, ReportSteps, RefusedSteps
<1>10. CASE releaser # Asleep /\ (AgentFails \/ VerifyAfterPublish \/ AttemptCanceled)
  BY <1>10, FailSteps, VerifySteps, ReleaseCancelSteps
<1> QED  BY <1>1, <1>2, <1>3, <1>4, <1>5, <1>6, <1>7, <1>8, <1>9, <1>10
         DEF ReleaseNext, Running

LEMMA ReleaseSaysSo == ReleaseInv => ReleaseHolds
<1> SUFFICES ASSUME ReleaseInv PROVE ReleaseHolds
  OBVIOUS
<1>1. ReleaseTypeOK
  <2>1. told \in 0..MaxReleaseRuns
    <3>1. told \in Nat /\ releaseRuns \in 0..MaxReleaseRuns /\ MaxReleaseRuns \in Nat
      BY ReleaseConstants DEF ReleaseInv, ReleaseTypes
    <3>2. CASE releaseFile = Missing
      BY <3>1, <3>2 DEF ReleaseInv, FileHolds
    <3>3. CASE releaseFile # Missing
      <4>1. told <= releaseFile.history /\ releaseFile \in ReleaseStates
        BY <3>3 DEF ReleaseInv, FileHolds, Fits, ReleaseTypes
      <4>2. releaseFile.history \in 0..MaxReleaseRuns
        BY <4>1 DEF ReleaseStates
      <4> QED  BY <3>1, <4>1, <4>2
    <3> QED  BY <3>2, <3>3
  <2> QED  BY <2>1 DEF ReleaseInv, ReleaseTypes, ReleaseTypeOK, Releasers
<1>2. ReceiptIsFound
  BY DEF ReleaseInv, ReleaserHolds, ReceiptIsFound, ReleaseWorking
<1>3. AttemptsHold
  BY DEF ReleaseInv, FileHolds, AttemptsHold
<1> QED  BY <1>1, <1>2, <1>3 DEF ReleaseHolds

\* The bot starts no agent over a complete publication of its job, and the
\* agents of a job stay within its attempts (resume, the saved Tries).
THEOREM ReleasesAreMadeOnce == ReleaseSpec => []ReleaseHolds
<1>1. ReleaseInit => ReleaseInv
  BY ReleaseStarts
<1>2. ReleaseInv /\ [ReleaseNext]_releasebot => ReleaseInv'
  BY ReleaseSteps
<1>3. ReleaseInv => ReleaseHolds
  BY ReleaseSaysSo
<1> QED  BY <1>1, <1>2, <1>3, PTL DEF ReleaseSpec
-----------------------------------------------------------------------------
\* What a step does to the release on record.

LEMMA JobLeavesRelease ==
    ASSUME NEW st \in ReleaseStates, NEW j, NEW k
    PROVE  /\ WithJob(st, j).released = st.released
           /\ WithJob(WithJob(st, j), k).released = st.released
BY DEF WithJob, ReleaseStates

LEMMA SavesLeaveRelease ==
    ASSUME NEW st \in ReleaseStates, NEW j, NEW pc, releaseFile # Missing,
           releaseFile.released = st.released,
           SavesAndGoes(pc, WithJob(st, j)) \/ SavesAndEnds(WithJob(st, j))
    PROVE  releaseFile'.released = releaseFile.released
<1>1. releaseFile' \in {releaseFile, WithJob(st, j)} \cup AfterFailure(WithJob(st, j))
  BY DEF SavesAndGoes, SavesAndEnds, ReleaseSaves, ReleaseSaveFails, EndsUnsaved
<1>2. AfterFailure(WithJob(st, j)) \subseteq
          {WithJob(WithJob(st, j), FailedWith(WithJob(st, j).job, "other"))}
  BY DEF AfterFailure
<1> QED  BY <1>1, <1>2, JobLeavesRelease

LEMMA RecordingIsReal ==
    ASSUME ReleaseInv, releaser # Asleep, releaser.pc \in ReleaseWorking \cup {"resume"},
           NEW p \in Plans, IsPublished(releaser.st.job.target, p),
           RecordVerified(releaser.st, p),
           releaseFile'.released # releaseFile.released
    PROVE  /\ releaseFile'.released > releaseFile.released
           /\ \E t \in good : tags[t] = releaseFile'.released
<1> DEFINE f == Recorded(releaser.st, p)
<1>1. /\ f \in ReleaseStates /\ f.released = p.commit /\ releaser.st.released <= f.released
      /\ p.tag \in good /\ tags[p.tag] = p.commit
  BY RecordedIs
<1>2. releaser.st = releaseFile /\ releaser.st \in ReleaseStates
  BY AwakeIs
<1> HIDE DEF f
<1>3. f.released \in Nat /\ releaseFile.released \in Nat
  BY <1>1, <1>2, ReleaseConstants DEF ReleaseStates
<1>4. releaseFile' = f
  BY DEF RecordVerified, f
<1> QED  BY <1>1, <1>2, <1>3, <1>4

LEMMA RecordSteps ==
    ASSUME ReleaseInv, releaseFile # Missing, [ReleaseNext]_releasebot,
           releaseFile'.released # releaseFile.released
    PROVE  /\ releaseFile'.released > releaseFile.released
           /\ \E t \in good : tags[t] = releaseFile'.released
<1>1. releaseFile \in ReleaseStates
  BY DEF ReleaseInv, ReleaseTypes
<1>2. releaseFile' # releaseFile
  OBVIOUS
<1>3. ASSUME releaser # Asleep, releaser.pc \in ReleaseWorking \cup {"resume", "watch"}
      PROVE  releaser.st = releaseFile /\ releaser.st \in ReleaseStates
  BY <1>3, AwakeIs, WatchIs
<1>4. ASSUME NEW j, WithJob(releaseFile, j) = releaseFile' PROVE FALSE
  BY <1>1, <1>4, JobLeavesRelease
<1>5. CASE \/ UNCHANGED releasebot \/ PublicationCompletes \/ PushOutside \/ ReleaseBegins
           \/ ReleaserCrash \/ Open \/ AgentPrepares \/ AgentPublishes \/ Notify
  BY <1>2, <1>5 DEF releasebot, PublicationCompletes, PushOutside, ReleaseBegins, ReleaserCrash,
     Open, AgentPrepares, AgentPublishes, Notify
<1>6. CASE ReleaseRetry
  BY <1>4, <1>6 DEF ReleaseRetry, WithJob
<1>7. CASE releaser # Asleep /\ NotDue
  <2>1. releaser.st = releaseFile /\ releaser.pc = "watch"
    BY <1>3, <1>7 DEF NotDue
  <2> QED  BY <1>2, <1>7, <2>1 DEF NotDue, SavesAndEnds, ReleaseSaves, ReleaseSaveFails,
             EndsUnsaved, AfterFailure
<1>8. CASE releaser # Asleep /\ StartJob
  <2>1. releaser.st = releaseFile /\ SavesAndGoes("resume", WithJob(releaser.st, NewJob))
    BY <1>3, <1>8 DEF StartJob
  <2> QED  BY <1>1, <2>1, SavesLeaveRelease
<1>9. CASE releaser # Asleep /\ ResumeVerifies
  <2>1. PICK p \in Publications(releaser.st.job) :
          Verified(releaser.st.job.target, p) /\ RecordVerified(releaser.st, p)
    BY <1>9 DEF ResumeVerifies
  <2>2. releaser.pc \in ReleaseWorking \cup {"resume"} /\ IsPublished(releaser.st.job.target, p)
    BY <1>9, <2>1 DEF ResumeVerifies, Verified
  <2>3. releaser.st.job \in ReleaseJobs
    BY <1>9, <2>2, AwakeIs
  <2>4. p \in Plans
    BY <2>3 DEF Publications, ReleaseJobs
  <2> QED  BY <1>9, <2>1, <2>2, <2>4, RecordingIsReal
<1>10. CASE releaser # Asleep /\ ResumeAttempts
  <2>1. releaser.st = releaseFile
    BY <1>3, <1>10 DEF ResumeAttempts
  <2>2. PICK k : releaseFile' = WithJob(releaseFile, k)
    BY <1>10, <2>1 DEF ResumeAttempts
  <2> QED  BY <1>4, <2>2
<1>11. CASE releaser # Asleep /\ (ResumeCanceled \/ AttemptCanceled)
  <2>1. releaser.st = releaseFile
    BY <1>3, <1>11 DEF ResumeCanceled, AttemptCanceled, ReleaseWorking
  <2>2. PICK k : releaseFile' = WithJob(releaseFile, k)
    BY <1>2, <1>11, <2>1 DEF ResumeCanceled, AttemptCanceled, Canceled, EndsUnsaved
  <2> QED  BY <1>4, <2>2
<1>12. CASE releaser # Asleep /\ (Attempt \/ PlanReady \/ Gate \/ PublicationRefused)
  <2>1. releaser.st = releaseFile
    BY <1>3, <1>12 DEF Attempt, PlanReady, Gate, PublicationRefused, ReleaseWorking
  <2>2. PICK k, pc : SavesAndGoes(pc, WithJob(releaseFile, k)) \/ SavesAndEnds(WithJob(releaseFile, k))
    BY <1>12, <2>1 DEF Attempt, PlanReady, Gate, PublicationRefused
  <2> QED  BY <1>1, <2>2, SavesLeaveRelease
<1>13. CASE releaser # Asleep /\ PublishReported
  <2>1. releaser.st = releaseFile
    BY <1>3, <1>13 DEF PublishReported, ReleaseWorking
  <2>2. PICK k : releaseFile' = WithJob(releaseFile, k)
    BY <1>2, <1>13, <2>1 DEF PublishReported, ReleaseSaves, EndsUnsaved
  <2> QED  BY <1>4, <2>2
<1>14. CASE releaser # Asleep /\ AgentFails
  <2>1. releaser.st = releaseFile
    BY <1>3, <1>14 DEF AgentFails, ReleaseWorking
  <2>2. PICK k : releaseFile' = WithJob(releaseFile, k)
    BY <1>2, <1>14, <2>1 DEF AgentFails, ReleaseSaves, EndsUnsaved
  <2> QED  BY <1>4, <2>2
<1>15. CASE releaser # Asleep /\ VerifyAfterPublish
  <2>1. /\ releaser.st = releaseFile /\ releaser.pc \in ReleaseWorking \cup {"resume"}
        /\ releaser.pc \in ReleaseWorking
    BY <1>3, <1>15 DEF VerifyAfterPublish, ReleaseWorking
  <2>2. CASE releaseFile' = WithJob(releaser.st, FailedWith(job, "verify"))
    BY <1>4, <2>1, <2>2
  <2>3. CASE /\ Verified(job.target, job.candidate)
             /\ RecordVerified(releaser.st, job.candidate)
    <3>1. job.candidate \in Plans
      BY <1>15, <2>1, AwakeIs DEF ReleaseJobs, job
    <3> QED  BY <1>15, <2>1, <2>3, <3>1, RecordingIsReal DEF Verified, job
  <2> QED  BY <1>15, <2>2, <2>3 DEF VerifyAfterPublish
<1> QED  BY <1>5, <1>6, <1>7, <1>8, <1>9, <1>10, <1>11, <1>12, <1>13, <1>14, <1>15
         DEF ReleaseNext, Running

LEMMA RecordsAreReal == ReleaseInv /\ ReleaseInv' /\ [ReleaseNext]_releasebot => RecordsReal
<1> SUFFICES ASSUME ReleaseInv, ReleaseInv', [ReleaseNext]_releasebot, releaseFile' # Missing
             PROVE  /\ releaseFile # Missing /\ releaseFile'.released # releaseFile.released =>
                        /\ releaseFile'.released > releaseFile.released
                        /\ \E t \in good : tags[t] = releaseFile'.released
                    /\ told' <= releaseFile'.history
  BY DEF RecordsReal
<1>1. told' <= releaseFile'.history
  BY DEF ReleaseInv, FileHolds, Fits
<1> QED  BY <1>1, RecordSteps

\* What the bot records as released is complete and newer than the last, and
\* is announced at most once and only after it was saved.
THEOREM RecordedReleasesAreReal == ReleaseSpec => [][RecordsReal]_releasebot
<1>1. ReleaseInit => ReleaseInv
  BY ReleaseStarts
<1>2. ReleaseInv /\ [ReleaseNext]_releasebot => ReleaseInv'
  BY ReleaseSteps
<1>3. ReleaseInv /\ ReleaseInv' /\ [ReleaseNext]_releasebot => RecordsReal
  BY RecordsAreReal
<1> QED  BY <1>1, <1>2, <1>3, PTL DEF ReleaseSpec

-----------------------------------------------------------------------------
(***************************************************************************)
(* Bug and Feature Bot: a finding is filed once.                           *)
(***************************************************************************)

Issues    == [request : Requests, by : {"scan", "publish", "person"}, seen : SUBSET (0..MaxRequests)]
InFlights == [request : Requests, read : SUBSET Versions, by : {"scan", "publish"}]
Bots      == [pc : Places, job : {"scan", "publish"}, cand : 0..MaxRequests,
              read : SUBSET Versions, checked : SUBSET Versions, left : 0..Refreshes,
              dry : BOOLEAN, fetched : 0..MaxMoves, prior : {"pending", "dry_run"}]

Status(m, r) == m.cands[r].status
\* The requests GitHub has from the bot, or may still get, and those a person
\* filed by hand.
Posted(r)   == \/ \E i \in DOMAIN filed : Ours(i) /\ filed[i].request = r
             \/ \E p \in inflight : p.request = r
Copied(r) == \E i \in DOMAIN filed : ~Ours(i) /\ filed[i].request = r
Seen(read) == {v[1] : v \in read \ {Source}}
Compared(by, others) ==
    \A i \in DOMAIN filed : filed[i].by = by => filed[i].request \in others

FinderTypes ==
    /\ kind \in Programs /\ head \in 1..MaxMoves /\ edits \in 0..MaxEdits
    /\ filed \in Seq(Issues) /\ inflight \in SUBSET InFlights
    /\ saved \in States /\ mem \in States /\ bot \in Bots
    /\ faults \in 0..MaxFaults /\ runs \in 0..MaxRuns

\* A request has one issue.  What is in flight has none, is the only one of its
\* job, and was compared with every issue of that job.
FiledHolds ==
    /\ \A i, j \in DOMAIN filed : filed[i].request = filed[j].request => i = j
    /\ OwnIssuesCompared
    /\ \A p \in inflight :
          /\ \A i \in DOMAIN filed : filed[i].request # p.request
          /\ \A q \in inflight : p.by = q.by \/ p.request = q.request => p = q
          /\ Compared(p.by, Seen(p.read))

\* What a state knows, whichever of the two it is: the file or the copy.
Shaped(m) ==
    /\ \A r \in Requests : m.cands[r].place = "none" => Status(m, r) = "pending"
    /\ ~m.scan.on => \A r \in Requests : m.cands[r].place # "scan"
Knows(m) ==
    \A r \in Requests :
        /\ Posted(r) => Status(m, r) \in {"posting", "submitted"}
        /\ Copied(r) => Status(m, r) \notin {"pending", "posting", "submitted"}
Awaits(m) ==
    \A p \in inflight :
        /\ Status(m, p.request) = "posting"
        /\ p.by = "scan" => m.cands[p.request].place = "scan"
        /\ p.by = "publish" => m.publication = p.request
StateHolds(m) == Shaped(m) /\ Knows(m) /\ Awaits(m)

\* The file is never ahead of the copy in what it has decided.
Undecided == {"pending", "posting", "submitted"}
Behind(m, n) ==
    \A r \in Requests :
        /\ Status(m, r) \in Decided => Status(n, r) = Status(m, r)
        /\ Status(m, r) = "dry_run" => Status(n, r) \notin Undecided

NonePosting(m) == \A r \in Requests : m.cands[r].place = "scan" => Status(m, r) # "posting"
Reviewing == {"review", "batch", "verify"}

BotHolds ==
    /\ bot.pc \in {"wait", "step", "fetch", "begin", "attempt", "next"} => bot.job = "scan"
    /\ bot.pc = "published" => bot.job = "publish" /\ bot.cand \in Requests
                               /\ Status(mem, bot.cand) # "posting"
    /\ bot.pc \in {"fetch", "begin", "attempt", "next"} \cup Reviewing /\ bot.job = "scan" =>
          NonePosting(mem)
    /\ bot.pc \in {"attempt", "next", "post"} \cup Reviewing /\ bot.job = "scan" =>
          mem.scan.on /\ mem.scan.tries >= 1
    /\ bot.pc \in {"post"} \cup Reviewing =>
          /\ bot.cand \in Requests
          /\ bot.job = "scan" => bot.prior = "pending" /\ mem.cands[bot.cand].place = "scan"
          /\ bot.job = "publish" => /\ bot.prior = "dry_run" /\ kind = "feature"
                                    /\ mem.publication = bot.cand /\ ~bot.dry
                                    /\ mem.cands[bot.cand].place = "completed"
    /\ bot.pc \in Reviewing => Status(mem, bot.cand) = bot.prior
    /\ bot.pc = "post" =>
          /\ saved = mem /\ Status(mem, bot.cand) = "posting"
          /\ ~Posted(bot.cand) /\ ~Copied(bot.cand)
          /\ Compared(bot.job, Seen(bot.read))
          /\ \A p \in inflight : p.by # bot.job
          /\ bot.job = "scan" =>
                \A r \in Requests : r # bot.cand /\ mem.cands[r].place = "scan" =>
                                    Status(mem, r) # "posting"

FinderInv ==
    /\ FinderTypes /\ FiledHolds /\ StateHolds(saved) /\ StateHolds(mem)
    /\ Behind(saved, mem)
    /\ BotHolds

-----------------------------------------------------------------------------
\* The saved state's operations.

Stays(m, n) ==
    \A r \in Requests : Status(m, r) \in Decided => Status(n, r) = Status(m, r)
Follows(m, n) ==
    \A r \in Requests :
        /\ Status(m, r) \in Decided => Status(n, r) = Status(m, r)
        /\ Status(m, r) \notin Undecided => Status(n, r) \notin Undecided

LEMMA FinderNumbers ==
    /\ MaxRequests \in Nat /\ Attempts \in Nat /\ Refreshes \in Nat /\ MaxEdits \in Nat
    /\ MaxFaults \in Nat /\ MaxRuns \in Nat /\ MaxMoves \in Nat \ {0}
BY FinderConstants

LEMMA FindingOf ==
    ASSUME NEW m \in States, NEW r \in Requests
    PROVE  m.cands[r] \in Candidates /\ Status(m, r) \in FindingStatuses
BY DEF States, Candidates, Status

LEMMA WithStatusIs ==
    ASSUME NEW m \in States, NEW r \in Requests, NEW status \in FindingStatuses
    PROVE  LET n == WithStatus(m, r, status) IN
           /\ n \in States /\ n.scan = m.scan /\ n.publication = m.publication
           /\ \A q \in Requests :
                 /\ n.cands[q].place = m.cands[q].place
                 /\ Status(n, q) = IF q = r THEN status ELSE Status(m, q)
<1> DEFINE c == [m.cands[r] EXCEPT !.status = status]
           d == [m.cands EXCEPT ![r] = c]
           n == [m EXCEPT !.cands = d]
<1>1. WithStatus(m, r, status) = n
  BY DEF WithStatus
<1>2. m.cands[r] \in Candidates /\ m.cands \in [Requests -> Candidates]
  BY DEF States
<1>3. c \in Candidates /\ c.place = m.cands[r].place /\ c.status = status
  BY <1>2 DEF Candidates
<1> HIDE DEF c
<1>4. d \in [Requests -> Candidates] /\ d[r] = c
      /\ \A q \in Requests : q # r => d[q] = m.cands[q]
  BY <1>2, <1>3
<1> HIDE DEF d
<1>5. n \in States /\ n.cands = d /\ n.scan = m.scan /\ n.publication = m.publication
  BY <1>4 DEF States
<1> QED  BY <1>1, <1>3, <1>4, <1>5 DEF Status

LEMMA StatusHolds ==
    ASSUME NEW m \in States, StateHolds(m), NEW r \in Requests, NEW status \in FindingStatuses,
           m.cands[r].place # "none" \/ status = "pending",
           Posted(r) => status \in {"posting", "submitted"},
           Copied(r) => status \notin Undecided,
           inflight \in SUBSET InFlights,
           \A p \in inflight : p.request = r => status = "posting"
    PROVE  StateHolds(WithStatus(m, r, status))
<1> DEFINE n == WithStatus(m, r, status)
<1>1. /\ n.scan = m.scan /\ n.publication = m.publication
      /\ \A q \in Requests :
            /\ n.cands[q].place = m.cands[q].place
            /\ Status(n, q) = IF q = r THEN status ELSE Status(m, q)
  BY WithStatusIs
<1> HIDE DEF n
<1>2. Shaped(n)
  BY <1>1 DEF Shaped, StateHolds
<1>3. Knows(n)
  BY <1>1 DEF Knows, StateHolds, Undecided
<1>4. Awaits(n)
  <2>1. SUFFICES ASSUME NEW p \in inflight, p.request \in Requests
                 PROVE  /\ Status(n, p.request) = "posting"
                        /\ p.by = "scan" => n.cands[p.request].place = "scan"
                        /\ p.by = "publish" => n.publication = p.request
    BY DEF Awaits, InFlights
  <2>2. /\ Status(m, p.request) = "posting"
        /\ p.by = "scan" => m.cands[p.request].place = "scan"
        /\ p.by = "publish" => m.publication = p.request
    BY DEF Awaits, StateHolds
  <2>3. /\ n.cands[p.request].place = m.cands[p.request].place
        /\ Status(n, p.request) = IF p.request = r THEN status ELSE Status(m, p.request)
    BY <1>1, <2>1
  <2> QED  BY <1>1, <2>2, <2>3
<1> QED  BY <1>2, <1>3, <1>4 DEF StateHolds, n

LEMMA StatusFollows ==
    ASSUME NEW m \in States, NEW r \in Requests, NEW status \in FindingStatuses,
           \/ Status(m, r) \in {"pending", "posting"}
           \/ Status(m, r) = "dry_run" /\ status \notin Undecided
    PROVE  Follows(m, WithStatus(m, r, status))
<1>1. \A q \in Requests :
         Status(WithStatus(m, r, status), q) = IF q = r THEN status ELSE Status(m, q)
  BY WithStatusIs
<1> QED  BY <1>1 DEF Follows, Undecided, Decided

\* An operation that leaves the findings as they are.
LEMMA SameFindings ==
    ASSUME NEW m, StateHolds(m), NEW n,
           \A r \in Requests : /\ n.cands[r].place = m.cands[r].place
                               /\ Status(n, r) = Status(m, r),
           \A p \in inflight : p.by = "publish" => n.publication = m.publication,
           inflight \in SUBSET InFlights,
           ~n.scan.on => ~m.scan.on
    PROVE  StateHolds(n) /\ Follows(m, n)
<1>1. Shaped(n)
  BY DEF Shaped, StateHolds
<1>2. Knows(n)
  BY DEF Knows, StateHolds
<1>3. Awaits(n)
  <2>1. SUFFICES ASSUME NEW p \in inflight, p.request \in Requests
                 PROVE  /\ Status(n, p.request) = "posting"
                        /\ p.by = "scan" => n.cands[p.request].place = "scan"
                        /\ p.by = "publish" => n.publication = p.request
    BY DEF Awaits, InFlights
  <2>2. /\ Status(m, p.request) = "posting"
        /\ p.by = "scan" => m.cands[p.request].place = "scan"
        /\ p.by = "publish" => m.publication = p.request
    BY DEF Awaits, StateHolds
  <2> QED  BY <2>1, <2>2
<1>4. Follows(m, n)
  BY DEF Follows
<1> QED  BY <1>1, <1>2, <1>3, <1>4 DEF StateHolds

LEMMA ScanIs ==
    ASSUME NEW m \in States, NEW s \in Scans
    PROVE  LET n == [m EXCEPT !.scan = s] IN
           /\ n \in States /\ n.scan = s /\ n.cands = m.cands /\ n.publication = m.publication
           /\ \A r \in Requests : Status(n, r) = Status(m, r)
BY DEF States, Status

LEMMA TriesIs ==
    ASSUME NEW m \in States, NEW k \in 0..Attempts
    PROVE  LET n == [m EXCEPT !.scan.tries = k] IN
           /\ n \in States /\ n.scan.on = m.scan.on /\ n.scan.tries = k
           /\ n.cands = m.cands /\ n.publication = m.publication
           /\ \A r \in Requests : Status(n, r) = Status(m, r)
<1> DEFINE s == [m.scan EXCEPT !.tries = k]
           n == [m EXCEPT !.scan = s]
<1>1. [m EXCEPT !.scan.tries = k] = n
  OBVIOUS
<1>2. s \in Scans /\ s.on = m.scan.on /\ s.tries = k
  BY DEF States, Scans
<1> HIDE DEF s
<1>3. /\ n \in States /\ n.scan = s /\ n.cands = m.cands /\ n.publication = m.publication
      /\ \A r \in Requests : Status(n, r) = Status(m, r)
  BY <1>2, ScanIs
<1> QED  BY <1>1, <1>2, <1>3

LEMMA StaledIs ==
    ASSUME NEW m \in States
    PROVE  /\ Staled(m) \in States /\ Staled(m).scan = m.scan
           /\ Staled(m).publication = m.publication
           /\ \A r \in Requests :
                 /\ Staled(m).cands[r].place = m.cands[r].place
                 /\ Status(Staled(m), r) = IF m.cands[r].place = "scan" /\ Status(m, r) = "pending"
                                           THEN "stale" ELSE Status(m, r)
<1> DEFINE d == [r \in Requests |-> IF r \in OfStatus(m, "pending")
                                    THEN [m.cands[r] EXCEPT !.status = "stale"] ELSE m.cands[r]]
           n == [m EXCEPT !.cands = d]
<1>1. Staled(m) = n
  BY DEF Staled
<1>2. ASSUME NEW r \in Requests
      PROVE  /\ d[r] \in Candidates /\ d[r].place = m.cands[r].place
             /\ d[r].status = IF m.cands[r].place = "scan" /\ m.cands[r].status = "pending"
                              THEN "stale" ELSE m.cands[r].status
  <2>1. m.cands[r] \in Candidates
    BY FindingOf
  <2>2. r \in OfStatus(m, "pending") <=> m.cands[r].place = "scan" /\ m.cands[r].status = "pending"
    BY DEF OfStatus, InScan
  <2> QED  BY <2>1, <2>2 DEF Candidates, FindingStatuses
<1>3. d \in [Requests -> Candidates]
  BY <1>2
<1> HIDE DEF d
<1>4. n \in States /\ n.cands = d /\ n.scan = m.scan /\ n.publication = m.publication
  BY <1>3 DEF States
<1> QED  BY <1>1, <1>2, <1>4 DEF Status

LEMMA StaledHolds ==
    ASSUME NEW m \in States, StateHolds(m), inflight \in SUBSET InFlights
    PROVE  StateHolds(Staled(m)) /\ Follows(m, Staled(m))
<1> DEFINE n == Staled(m)
<1>1. /\ n.scan = m.scan /\ n.publication = m.publication
      /\ \A r \in Requests :
            /\ n.cands[r].place = m.cands[r].place
            /\ Status(n, r) = IF m.cands[r].place = "scan" /\ Status(m, r) = "pending"
                              THEN "stale" ELSE Status(m, r)
  BY StaledIs
<1> HIDE DEF n
<1>2. Shaped(n)
  BY <1>1 DEF Shaped, StateHolds
<1>3. Knows(n)
  BY <1>1 DEF Knows, StateHolds
<1>4. Awaits(n)
  <2>1. SUFFICES ASSUME NEW p \in inflight, p.request \in Requests
                 PROVE  /\ Status(n, p.request) = "posting"
                        /\ p.by = "scan" => n.cands[p.request].place = "scan"
                        /\ p.by = "publish" => n.publication = p.request
    BY DEF Awaits, InFlights
  <2>2. /\ Status(m, p.request) = "posting"
        /\ p.by = "scan" => m.cands[p.request].place = "scan"
        /\ p.by = "publish" => m.publication = p.request
    BY DEF Awaits, StateHolds
  <2> QED  BY <1>1, <2>1, <2>2
<1>5. Follows(m, n)
  BY <1>1 DEF Follows, Undecided, Decided
<1> QED  BY <1>2, <1>3, <1>4, <1>5 DEF StateHolds, n

LEMMA FinishedIs ==
    ASSUME NEW m \in States, NEW dry \in BOOLEAN
    PROVE  LET n == Finished(m, dry) IN
           /\ n \in States /\ n.scan = NoScan /\ n.publication = m.publication
           /\ \A r \in Requests :
                 /\ n.cands[r].place = IF m.cands[r].place = "scan" THEN "completed"
                                       ELSE m.cands[r].place
                 /\ Status(n, r) = Status(m, r)
<1> DEFINE d == [r \in Requests |-> IF r \in InScan(m)
                                    THEN [m.cands[r] EXCEPT !.place = "completed"]
                                    ELSE m.cands[r]]
           l == LastOf(m, dry)
           n == [[m EXCEPT !.scan = NoScan, !.cands = d] EXCEPT !.last = l]
<1>1. Finished(m, dry) = n
  BY DEF Finished, Retired
<1>2. ASSUME NEW r \in Requests
      PROVE  /\ d[r] \in Candidates /\ d[r].status = m.cands[r].status
             /\ d[r].place = IF m.cands[r].place = "scan" THEN "completed" ELSE m.cands[r].place
  <2>1. m.cands[r] \in Candidates
    BY FindingOf
  <2>2. r \in InScan(m) <=> m.cands[r].place = "scan"
    BY DEF InScan
  <2> QED  BY <2>1, <2>2 DEF Candidates
<1>3. d \in [Requests -> Candidates]
  BY <1>2
<1>4. l \in [commit : 0..MaxMoves, dry : BOOLEAN]
  <2>1. m.last \in [commit : 0..MaxMoves, dry : BOOLEAN] /\ m.scan.commit \in 0..MaxMoves
    BY DEF States, Scans
  <2>2. (dry \/ OfStatus(m, "dry_run") # {}) \in BOOLEAN
    OBVIOUS
  <2> QED  BY <2>1, <2>2 DEF LastOf
<1>5. NoScan \in Scans
  BY FinderNumbers DEF NoScan, Scans
<1> HIDE DEF d, l
<1>6. n \in States /\ n.cands = d /\ n.scan = NoScan /\ n.publication = m.publication
  BY <1>3, <1>4, <1>5 DEF States
<1> QED  BY <1>1, <1>2, <1>6 DEF Status

LEMMA FinishedHolds ==
    ASSUME NEW m \in States, StateHolds(m), NEW dry \in BOOLEAN, NonePosting(m),
           inflight \in SUBSET InFlights
    PROVE  /\ StateHolds(Finished(m, dry)) /\ Follows(m, Finished(m, dry))
           /\ NonePosting(Finished(m, dry))
<1> DEFINE n == Finished(m, dry)
<1>1. /\ n.scan = NoScan /\ n.publication = m.publication
      /\ \A r \in Requests :
            /\ n.cands[r].place = IF m.cands[r].place = "scan" THEN "completed"
                                  ELSE m.cands[r].place
            /\ Status(n, r) = Status(m, r)
  BY FinishedIs
<1> HIDE DEF n
<1>2. Shaped(n)
  BY <1>1 DEF Shaped, StateHolds
<1>3. Knows(n)
  BY <1>1 DEF Knows, StateHolds
<1>4. Awaits(n)
  <2>1. SUFFICES ASSUME NEW p \in inflight, p.request \in Requests
                 PROVE  /\ Status(n, p.request) = "posting"
                        /\ p.by = "scan" => n.cands[p.request].place = "scan"
                        /\ p.by = "publish" => n.publication = p.request
    BY DEF Awaits, InFlights
  <2>2. /\ Status(m, p.request) = "posting"
        /\ p.by = "scan" => m.cands[p.request].place = "scan"
        /\ p.by = "publish" => m.publication = p.request
    BY DEF Awaits, StateHolds
  <2>3. p.by # "scan"
    BY <2>1, <2>2 DEF NonePosting
  <2> QED  BY <1>1, <2>1, <2>2, <2>3
<1>5. Follows(m, n)
  BY <1>1 DEF Follows
<1>6. NonePosting(n)
  BY <1>1 DEF NonePosting
<1> QED  BY <1>2, <1>3, <1>4, <1>5, <1>6 DEF StateHolds, n
LEMMA FirstIs ==
    ASSUME NEW S \in SUBSET Requests, S # {} PROVE First(S) \in S
<1> DEFINE R == {ss \in Nat \X Nat : ss[1] < ss[2]}
<1>1. IsWellFoundedOn(R, Nat)
  BY NatLessThanWellFounded DEF OpToRel
<1>2. S \subseteq Nat
  BY FinderNumbers DEF Requests
<1>3. PICK r \in S : \A q \in S : ~(<<q, r>> \in R)
  <2> HIDE DEF R
  <2> QED  BY <1>1, <1>2, WFMin
<1>6. \A q \in S : ~(q < r)
  BY <1>2, <1>3
<1>4. \A q \in S : r <= q
  BY <1>2, <1>6
<1>5. \E n \in S : \A q \in S : n <= q
  BY <1>4
<1> QED  BY <1>5 DEF First

LEMMA DiscoveredIs ==
    ASSUME mem \in States, StateHolds(mem), mem.scan.on, NEW n,
           inflight \in SUBSET InFlights
    PROVE  LET m == Discovered(n) IN
           /\ m \in States /\ m.scan.on = mem.scan.on /\ m.scan.tries = mem.scan.tries
           /\ StateHolds(m) /\ Follows(mem, m)
           /\ NonePosting(mem) => NonePosting(m)
<1> DEFINE new == [NoFinding EXCEPT !.place = "scan", !.commit = mem.scan.commit]
           d == [r \in Requests |-> IF r \in Fresh /\ r < First(Fresh) + n THEN new
                                    ELSE mem.cands[r]]
           s == [mem.scan EXCEPT !.discovered = TRUE]
           m == [mem EXCEPT !.scan = s, !.cands = d]
<1>1. Discovered(n) = m
  BY DEF Discovered
<1>2. new \in Candidates /\ new.place = "scan" /\ new.status = "pending"
  BY DEF NoFinding, Candidates, FindingStatuses, States, Scans
<1> HIDE DEF new
<1>3. s \in Scans /\ s.on = mem.scan.on /\ s.tries = mem.scan.tries
  BY DEF States, Scans
<1>4. ASSUME NEW r \in Requests
      PROVE  /\ d[r] \in Candidates
             /\ d[r].status = mem.cands[r].status
             /\ d[r].place = mem.cands[r].place
                \/ (mem.cands[r].place = "none" /\ d[r].place = "scan" /\ d[r].status = "pending")
  <2>1. mem.cands[r] \in Candidates
    BY FindingOf
  <2>2. CASE r \in Fresh /\ r < First(Fresh) + n
    <3>1. mem.cands[r].place = "none" /\ mem.cands[r].status = "pending"
      BY <2>2 DEF Fresh, StateHolds, Shaped, Status
    <3> QED  BY <1>2, <2>2, <3>1
  <2>3. CASE ~(r \in Fresh /\ r < First(Fresh) + n)
    BY <2>1, <2>3
  <2> QED  BY <2>2, <2>3
<1>5. d \in [Requests -> Candidates]
  BY <1>4
<1> HIDE DEF d, s
<1>6. m \in States /\ m.cands = d /\ m.scan = s /\ m.publication = mem.publication
  BY <1>3, <1>5 DEF States
<1> HIDE DEF m
<1>7. \A r \in Requests : Status(m, r) = Status(mem, r)
  BY <1>4, <1>6 DEF Status
<1>8. Shaped(m)
  BY <1>3, <1>4, <1>6, <1>7 DEF Shaped, StateHolds, Status
<1>9. Knows(m)
  BY <1>7 DEF Knows, StateHolds
<1>10. Awaits(m)
  <2>1. SUFFICES ASSUME NEW p \in inflight, p.request \in Requests
                 PROVE  /\ Status(m, p.request) = "posting"
                        /\ p.by = "scan" => m.cands[p.request].place = "scan"
                        /\ p.by = "publish" => m.publication = p.request
    BY DEF Awaits, InFlights
  <2>2. /\ Status(mem, p.request) = "posting"
        /\ p.by = "scan" => mem.cands[p.request].place = "scan"
        /\ p.by = "publish" => mem.publication = p.request
    BY DEF Awaits, StateHolds
  <2> QED  BY <1>4, <1>6, <1>7, <2>1, <2>2
<1>11. Follows(mem, m)
  BY <1>7 DEF Follows
<1>12. NonePosting(mem) => NonePosting(m)
  BY <1>4, <1>6, <1>7 DEF NonePosting, Status
<1> QED  BY <1>1, <1>3, <1>6, <1>8, <1>9, <1>10, <1>11, <1>12 DEF StateHolds

LEMMA CheckedIs ==
    ASSUME NEW m \in States, NEW r \in Requests, NEW read \in SUBSET Versions
    PROVE  LET n == [m EXCEPT !.cands[r].checked = read] IN
           /\ n \in States /\ n.scan = m.scan /\ n.publication = m.publication
           /\ \A q \in Requests :
                 n.cands[q].place = m.cands[q].place /\ Status(n, q) = Status(m, q)
<1> DEFINE c == [m.cands[r] EXCEPT !.checked = read]
           d == [m.cands EXCEPT ![r] = c]
           n == [m EXCEPT !.cands = d]
<1>1. [m EXCEPT !.cands[r].checked = read] = n
  OBVIOUS
<1>2. m.cands[r] \in Candidates /\ m.cands \in [Requests -> Candidates]
  BY DEF States
<1>3. c \in Candidates /\ c.place = m.cands[r].place /\ c.status = m.cands[r].status
  BY <1>2 DEF Candidates
<1> HIDE DEF c
<1>4. /\ d \in [Requests -> Candidates] /\ d[r] = c
      /\ \A q \in Requests : q # r => d[q] = m.cands[q]
  BY <1>2, <1>3
<1> HIDE DEF d
<1>5. n \in States /\ n.cands = d /\ n.scan = m.scan /\ n.publication = m.publication
  BY <1>4 DEF States
<1>6. \A q \in Requests : d[q].place = m.cands[q].place /\ d[q].status = m.cands[q].status
  BY <1>3, <1>4
<1> QED  BY <1>1, <1>5, <1>6 DEF Status

LEMMA SelectedIs ==
    ASSUME NEW m \in States, NEW r \in Requests
    PROVE  LET n == [m EXCEPT !.publication = r, !.cands[r].checked = {}] IN
           /\ n \in States /\ n.scan = m.scan /\ n.publication = r
           /\ \A q \in Requests :
                 n.cands[q].place = m.cands[q].place /\ Status(n, q) = Status(m, q)
<1> DEFINE k == [m EXCEPT !.cands[r].checked = {}]
           n == [k EXCEPT !.publication = r]
<1>1. [m EXCEPT !.publication = r, !.cands[r].checked = {}] = n
  BY DEF States
<1>2. {} \in SUBSET Versions /\ r \in 0..MaxRequests
  BY FinderNumbers DEF Requests
<1>3. /\ k \in States /\ k.scan = m.scan
      /\ \A q \in Requests :
            k.cands[q].place = m.cands[q].place /\ Status(k, q) = Status(m, q)
  BY <1>2, CheckedIs
<1> HIDE DEF k
<1>4. n \in States /\ n.scan = k.scan /\ n.publication = r /\ n.cands = k.cands
  BY <1>2, <1>3 DEF States
<1> QED  BY <1>1, <1>3, <1>4 DEF Status

LEMMA ClosedIs ==
    ASSUME NEW m \in States, NEW r \in Requests
    PROVE  LET n == Closed(m, r) IN
           /\ n \in States /\ n.scan = m.scan /\ n.cands = m.cands
           /\ \A q \in Requests : Status(n, q) = Status(m, q)
           /\ m.publication # r => n = m
<1>1. 0 \in 0..MaxRequests
  BY FinderNumbers
<1> QED  BY <1>1 DEF Closed, States, Status

LEMMA ClosedHolds ==
    ASSUME NEW m \in States, StateHolds(m), NEW r \in Requests, Status(m, r) # "posting",
           inflight \in SUBSET InFlights
    PROVE  StateHolds(Closed(m, r)) /\ Follows(m, Closed(m, r))
<1> DEFINE n == Closed(m, r)
<1>1. /\ n.scan = m.scan /\ n.cands = m.cands
      /\ \A q \in Requests : Status(n, q) = Status(m, q)
      /\ m.publication # r => n = m
  BY ClosedIs
<1>2. ASSUME NEW p \in inflight, p.by = "publish" PROVE n.publication = m.publication
  <2>1. m.publication = p.request /\ Status(m, p.request) = "posting"
    BY <1>2 DEF StateHolds, Awaits
  <2> QED  BY <1>1, <2>1
<1> HIDE DEF n
<1>3. StateHolds(n) /\ Follows(m, n)
  BY <1>1, <1>2, SameFindings
<1> QED  BY <1>3 DEF n

-----------------------------------------------------------------------------
\* A step that leaves GitHub alone.

LEMMA GotoIs ==
    ASSUME bot \in Bots, NEW pc \in Places, Goto(pc)
    PROVE  /\ bot' \in Bots /\ bot'.pc = pc
           /\ bot'.job = bot.job /\ bot'.cand = bot.cand /\ bot'.read = bot.read
           /\ bot'.dry = bot.dry /\ bot'.prior = bot.prior
BY DEF Goto, Bots

\* What a step owes: the invariant, and the decisions of the file.
StepHolds == FinderInv' /\ KeepsDecisions

LEMMA KeepsBoth ==
    ASSUME FinderInv, UNCHANGED <<kind, filed, inflight>>,
           head' \in 1..MaxMoves, edits' \in 0..MaxEdits,
           faults' \in 0..MaxFaults, runs' \in 0..MaxRuns, bot' \in Bots, BotHolds',
           NEW m \in States, StateHolds(m), NEW n \in States, StateHolds(n),
           mem' = n, saved' = m \/ (saved' = saved /\ Follows(mem, n)),
           Behind(m, n), Stays(mem, m)
    PROVE  StepHolds
<1>1. FinderTypes'
  BY DEF FinderInv, FinderTypes
<1>2. FiledHolds'
  BY DEF FinderInv, FiledHolds, OwnIssuesCompared, Compared, Ours
<1>3. (StateHolds(m))' /\ (StateHolds(n))'
  BY DEF StateHolds, Shaped, Knows, Awaits, Posted, Copied, Ours, Status
<1>4. (StateHolds(mem))'
  BY <1>3 DEF StateHolds, Shaped, Knows, Awaits, Posted, Copied, Ours, Status
<1>5. (StateHolds(saved))'
  <2>1. CASE saved' = m
    BY <1>3, <2>1 DEF StateHolds, Shaped, Knows, Awaits, Posted, Copied, Ours, Status
  <2>2. CASE saved' = saved
    BY <2>2 DEF FinderInv, StateHolds, Shaped, Knows, Awaits, Posted, Copied, Ours, Status
  <2> QED  BY <2>1, <2>2
<1>6. (Behind(saved, mem))'
  <2>1. CASE saved' = m
    BY <2>1 DEF Behind, Status
  <2>2. CASE saved' = saved /\ Follows(mem, n)
    BY <2>2 DEF FinderInv, Behind, Follows, Undecided, Status
  <2> QED  BY <2>1, <2>2
<1>7. KeepsDecisions
  BY DEF FinderInv, Behind, Stays, KeepsDecisions, Status
<1> QED  BY <1>1, <1>2, <1>4, <1>5, <1>6, <1>7 DEF FinderInv, StepHolds

LEMMA Keeps ==
    ASSUME FinderInv, UNCHANGED <<kind, filed, inflight>>,
           head' \in 1..MaxMoves, edits' \in 0..MaxEdits,
           faults' \in 0..MaxFaults, runs' \in 0..MaxRuns, bot' \in Bots, BotHolds',
           NEW m \in States, StateHolds(m), Follows(mem, m),
           mem' = m, saved' \in {saved, m}
    PROVE  StepHolds
<1>1. Behind(m, m) /\ Stays(mem, m)
  BY DEF Behind, Stays, Follows, Undecided
<1> QED  BY <1>1, KeepsBoth

\* Where the bot's own invariant asks for nothing.
LEMMA FinderIdle ==
    ASSUME \/ bot'.pc \in {"off", "failing"}
           \/ bot'.pc \in {"wait", "step"} /\ bot'.job = "scan"
    PROVE  BotHolds'
BY DEF BotHolds, Reviewing

LEMMA FaultIs ==
    ASSUME FinderInv, FinderFault PROVE faults' \in 0..MaxFaults
BY FinderNumbers DEF FinderInv, FinderTypes, FinderFault

\* A save by a poll: whether it succeeds, or fails with either outcome.
LEMMA FinderSaves ==
    ASSUME FinderInv, OthersRest, NEW m \in States, StateHolds(m), Follows(mem, m),
           NEW pc \in Places, NEW onError \in Places, SaveAndGo(m, pc, onError),
           Goto(pc) /\ mem' = m /\ saved' = m => BotHolds',
           onError \in {"off", "failing"} \/ (onError = "wait" /\ bot.job = "scan")
    PROVE  StepHolds
<1>1. UNCHANGED <<kind, filed, inflight>> /\ head' = head /\ edits' = edits /\ runs' = runs
  BY DEF OthersRest
<1>2. CASE Saves(m, pc)
  <2>1. bot' \in Bots /\ faults' = faults /\ mem' = m /\ saved' = m
    BY <1>2, GotoIs DEF Saves, FinderInv, FinderTypes
  <2>2. BotHolds'
    BY <1>2 DEF Saves
  <2> QED  BY <1>1, <2>1, <2>2, Keeps DEF FinderInv, FinderTypes
<1>3. CASE SaveFails(m, onError)
  <2>1. bot' \in Bots /\ bot'.pc = onError /\ bot'.job = bot.job
    BY <1>3, GotoIs DEF SaveFails, FinderInv, FinderTypes
  <2>2. BotHolds'
    BY <2>1, FinderIdle
  <2>3. faults' \in 0..MaxFaults
    BY <1>3, FaultIs DEF SaveFails
  <2> QED  BY <1>1, <1>3, <2>1, <2>2, <2>3, Keeps DEF SaveFails, FinderInv, FinderTypes
<1> QED  BY <1>2, <1>3 DEF SaveAndGo

\* A step without a save.
LEMMA FinderStays ==
    ASSUME FinderInv, UNCHANGED <<kind, filed, inflight, saved, mem>>,
           head' \in 1..MaxMoves, edits' \in 0..MaxEdits,
           faults' \in 0..MaxFaults, runs' \in 0..MaxRuns, bot' \in Bots, BotHolds'
    PROVE  StepHolds
<1>1. Follows(mem, mem)
  BY DEF Follows
<1>2. mem \in States /\ StateHolds(mem) /\ mem' = mem /\ saved' \in {saved, mem}
  BY DEF FinderInv, FinderTypes
<1> QED  BY <1>1, <1>2, Keeps

LEMMA TypesAre ==
    ASSUME FinderInv
    PROVE  /\ kind \in Programs /\ head \in 1..MaxMoves /\ edits \in 0..MaxEdits
           /\ faults \in 0..MaxFaults /\ runs \in 0..MaxRuns
           /\ mem \in States /\ saved \in States /\ bot \in Bots
           /\ inflight \in SUBSET InFlights /\ filed \in Seq(Issues)
           /\ StateHolds(mem) /\ StateHolds(saved) /\ BotHolds /\ FiledHolds
           /\ \A m : Follows(m, m)
BY DEF FinderInv, FinderTypes, Follows

LEMMA Forgets ==
    ASSUME FinderInv, UNCHANGED <<kind, filed, inflight, saved, head, edits>>, mem' = saved,
           faults' \in 0..MaxFaults, runs' \in 0..MaxRuns, bot' \in Bots, BotHolds'
    PROVE  StepHolds
<1>1. FinderTypes'
  BY DEF FinderInv, FinderTypes
<1>2. FiledHolds'
  BY DEF FinderInv, FiledHolds, OwnIssuesCompared, Compared, Ours
<1>3. (StateHolds(saved))' /\ (StateHolds(mem))'
  BY DEF FinderInv, StateHolds, Shaped, Knows, Awaits, Posted, Copied, Ours, Status
<1>4. (Behind(saved, mem))' /\ KeepsDecisions
  BY DEF Behind, Undecided, Status, KeepsDecisions
<1> QED  BY <1>1, <1>2, <1>3, <1>4 DEF FinderInv, StepHolds

LEMMA OffIs ==
    /\ Off \in Bots
    /\ \A dry \in BOOLEAN : [Off EXCEPT !.pc = "step", !.dry = dry] \in Bots
<1>1. Off \in Bots
  <2>1. 0 \in 0..MaxRequests /\ 0 \in 0..Refreshes /\ 0 \in 0..MaxMoves
    BY FinderNumbers
  <2>2. Off = [pc |-> "off", job |-> "scan", cand |-> 0, read |-> {}, checked |-> {},
               left |-> 0, dry |-> FALSE, fetched |-> 0, prior |-> "pending"]
    BY DEF Off
  <2> QED  BY <2>1, <2>2 DEF Bots, Places
<1>2. \A dry \in BOOLEAN : [Off EXCEPT !.pc = "step", !.dry = dry] \in Bots
  BY <1>1 DEF Bots, Places
<1> QED  BY <1>1, <1>2

-----------------------------------------------------------------------------
\* One poll.

LEMMA StartKeeps == FinderInv /\ Start => StepHolds
<1> SUFFICES ASSUME FinderInv, Start PROVE StepHolds
  OBVIOUS
<1>1. /\ UNCHANGED <<kind, filed, inflight, saved>> /\ head' = head /\ edits' = edits
      /\ faults' = faults /\ runs' \in 0..MaxRuns
  <2>1. runs \in 0..MaxRuns /\ runs < MaxRuns /\ runs' = runs + 1
    BY TypesAre DEF Start
  <2>2. runs' \in 0..MaxRuns
    BY <2>1, FinderNumbers
  <2> QED  BY <2>2 DEF Start
<1>2. CASE bot.pc = "wait"
  <2>1. mem' = mem /\ bot' = [bot EXCEPT !.pc = "step"] /\ bot.job = "scan"
    BY <1>2, TypesAre DEF Start, BotHolds
  <2>2. bot' \in Bots /\ bot'.pc = "step" /\ bot'.job = "scan"
    BY <2>1, TypesAre DEF Bots, Places
  <2>3. BotHolds'
    BY <2>2, FinderIdle
  <2> QED  BY <1>1, <2>1, <2>2, <2>3, FinderStays, TypesAre
<1>3. CASE bot.pc # "wait"
  <2>1. PICK dry \in BOOLEAN : bot' = [Off EXCEPT !.pc = "step", !.dry = dry]
    BY <1>3 DEF Start
  <2>2. mem' = saved
    BY <1>3 DEF Start
  <2>3. bot' \in Bots
    BY <2>1, OffIs
  <2>4. bot'.pc = "step" /\ bot'.job = "scan"
    BY <2>1 DEF Off
  <2>5. BotHolds'
    BY <2>4, FinderIdle
  <2> QED  BY <1>1, <2>2, <2>3, <2>5, Forgets, TypesAre
<1> QED  BY <1>2, <1>3

LEMMA GoesKeeps ==
    ASSUME FinderInv, OthersRest, NEW pc \in Places, Goes(pc),
           Goto(pc) /\ mem' = mem => BotHolds'
    PROVE  StepHolds
<1>1. /\ UNCHANGED <<kind, filed, inflight, saved, mem>> /\ head' = head /\ edits' = edits
      /\ faults' = faults /\ runs' = runs /\ bot' \in Bots /\ BotHolds'
  BY TypesAre, GotoIs DEF OthersRest, Goes
<1> QED  BY <1>1, FinderStays, TypesAre

\* A request that has an issue is not in flight, and no person copied one that
\* the file knows as posting.
LEMMA PostedIsOurs ==
    ASSUME FinderInv, NEW m, StateHolds(m), NEW r \in Requests, Status(m, r) = "posting", Carries(r)
    PROVE  Posted(r) /\ ~Copied(r) /\ \A p \in inflight : p.request # r
<1>1. PICK i \in DOMAIN filed : filed[i].request = r
  BY DEF Carries
<1>2. ~Copied(r)
  BY DEF StateHolds, Knows
<1>3. Ours(i)
  BY <1>1, <1>2 DEF Copied
<1> QED  BY <1>1, <1>2, <1>3, TypesAre DEF Posted, FiledHolds

LEMMA ReconcileKeeps == FinderInv /\ Reconcile => StepHolds
<1> SUFFICES ASSUME FinderInv, Reconcile PROVE StepHolds
  OBVIOUS
<1> DEFINE r == First(OfStatus(mem, "posting"))
<1>1. OthersRest /\ bot.pc = "step" /\ bot.job = "scan"
  BY TypesAre DEF Reconcile, AtStep, BotHolds
<1>2. r \in OfStatus(mem, "posting")
  <2>1. OfStatus(mem, "posting") \in SUBSET Requests /\ OfStatus(mem, "posting") # {}
    BY DEF Reconcile, OfStatus, InScan
  <2> QED  BY <2>1, FirstIs
<1>3. r \in Requests /\ mem.cands[r].place = "scan" /\ Status(mem, r) = "posting"
  BY <1>2 DEF OfStatus, InScan, Status
<1>4. IF Carries(r) THEN SaveAndGo(WithStatus(mem, r, "submitted"), "step", "wait")
                    ELSE Goes("wait")
  BY DEF Reconcile
<1> HIDE DEF r
<1>5. CASE Carries(r)
  <2> DEFINE m == WithStatus(mem, r, "submitted")
  <2>1. Posted(r) /\ ~Copied(r) /\ \A p \in inflight : p.request # r
    BY <1>3, <1>5, PostedIsOurs, TypesAre
  <2>2. m \in States
    BY <1>3, WithStatusIs, TypesAre DEF FindingStatuses
  <2>3. StateHolds(m)
    BY <1>3, <2>1, StatusHolds, TypesAre DEF FindingStatuses
  <2>4. Follows(mem, m)
    BY <1>3, StatusFollows, TypesAre DEF FindingStatuses
  <2> HIDE DEF m
  <2>5. Goto("step") => BotHolds'
    <3>1. SUFFICES ASSUME Goto("step") PROVE BotHolds'
      OBVIOUS
    <3> QED  BY <1>1, <3>1, GotoIs, TypesAre, FinderIdle DEF Places
  <2>6. SaveAndGo(m, "step", "wait")
    BY <1>4, <1>5 DEF m
  <2> QED  BY <1>1, <2>2, <2>3, <2>4, <2>5, <2>6, FinderSaves DEF Places
<1>6. CASE ~Carries(r)
  <2>1. Goto("wait") => BotHolds'
    <3>1. SUFFICES ASSUME Goto("wait") PROVE BotHolds'
      OBVIOUS
    <3> QED  BY <1>1, <3>1, GotoIs, TypesAre, FinderIdle DEF Places
  <2> QED  BY <1>1, <1>4, <1>6, <2>1, GoesKeeps DEF Places
<1> QED  BY <1>5, <1>6

\* A poll that ends, or starts over.
LEMMA Rests ==
    ASSUME FinderInv, bot.job = "scan", NEW pc \in {"wait", "step"}, Goto(pc)
    PROVE  BotHolds'
BY GotoIs, TypesAre, FinderIdle DEF Places

LEMMA NonePostingIs ==
    ASSUME NEW m, OfStatus(m, "posting") = {} PROVE NonePosting(m)
BY DEF OfStatus, InScan, NonePosting, Status

LEMMA FinishDecidedKeeps == FinderInv /\ FinishDecided => StepHolds
<1> SUFFICES ASSUME FinderInv, FinishDecided PROVE StepHolds
  OBVIOUS
<1> DEFINE m == Finished(mem, bot.dry)
<1>1. OthersRest /\ bot.pc = "step" /\ bot.job = "scan" /\ bot.dry \in BOOLEAN
  BY TypesAre DEF FinishDecided, AtStep, BotHolds, Bots
<1>2. NonePosting(mem)
  BY NonePostingIs DEF FinishDecided
<1>3. m \in States
  BY <1>1, FinishedIs, TypesAre
<1>4. StateHolds(m) /\ Follows(mem, m)
  BY <1>1, <1>2, FinishedHolds, TypesAre
<1>5. SaveAndGo(m, "wait", "wait")
  BY DEF FinishDecided
<1> HIDE DEF m
<1>6. Goto("wait") => BotHolds'
  BY <1>1, Rests
<1> QED  BY <1>1, <1>3, <1>4, <1>5, <1>6, FinderSaves DEF Places

LEMMA LookKeeps == FinderInv /\ Look => StepHolds
<1> SUFFICES ASSUME FinderInv, Look PROVE StepHolds
  OBVIOUS
<1>1. OthersRest /\ bot.pc = "step" /\ bot.job = "scan"
  BY TypesAre DEF Look, AtStep, BotHolds
<1>2. NonePosting(mem)
  <2>1. CASE mem.scan.on
    BY <2>1, NonePostingIs DEF Look
  <2>2. CASE ~mem.scan.on
    BY <2>2, TypesAre DEF StateHolds, Shaped, NonePosting
  <2> QED  BY <2>1, <2>2
<1>3. CASE kind = "feature" /\ Exhausted
  <2>1. Goes("wait")
    BY <1>3 DEF Look
  <2>2. Goto("wait") => BotHolds'
    BY <1>1, Rests
  <2> QED  BY <1>1, <2>1, <2>2, GoesKeeps DEF Places
<1>4. CASE ~(kind = "feature" /\ Exhausted)
  <2>1. Goes("fetch")
    BY <1>4 DEF Look
  <2>2. ASSUME Goto("fetch"), mem' = mem PROVE BotHolds'
    <3>1. bot'.pc = "fetch" /\ bot'.job = "scan"
      BY <1>1, <2>2, GotoIs, TypesAre DEF Places
    <3>2. (NonePosting(mem))'
      BY <1>2, <2>2 DEF NonePosting, Status
    <3> QED  BY <3>1, <3>2 DEF BotHolds, Reviewing
  <2> QED  BY <1>1, <2>1, <2>2, GoesKeeps DEF Places
<1> QED  BY <1>3, <1>4

LEMMA FetchKeeps == FinderInv /\ Fetch => StepHolds
<1> SUFFICES ASSUME FinderInv, Fetch PROVE StepHolds
  OBVIOUS
<1>1. OthersRest /\ bot.pc = "fetch" /\ bot.job = "scan" /\ bot.dry \in BOOLEAN
      /\ NonePosting(mem)
  BY TypesAre DEF Fetch, BotHolds, Bots
<1> DEFINE b == [bot EXCEPT !.pc = "begin", !.fetched = head]
<1>2. b \in Bots /\ b.pc = "begin" /\ b.job = "scan"
  <2>1. head \in 0..MaxMoves
    BY TypesAre, FinderNumbers
  <2> QED  BY <1>1, <2>1, TypesAre DEF Bots, Places
<1> HIDE DEF b
<1>3. CASE mem.scan.on /\ mem.scan.commit # head
           /\ LET m == Finished(Staled(mem), bot.dry) IN
              \/ /\ mem' = m /\ saved' = m /\ UNCHANGED faults
                 /\ bot' = [bot EXCEPT !.pc = "begin", !.fetched = head]
              \/ SaveFails(m, "wait")
  <2> DEFINE m == Finished(Staled(mem), bot.dry)
  <2>1. Staled(mem) \in States /\ StateHolds(Staled(mem)) /\ Follows(mem, Staled(mem))
    BY StaledIs, StaledHolds, TypesAre
  <2>2. NonePosting(Staled(mem))
    BY <1>1, StaledIs, TypesAre DEF NonePosting
  <2>3. m \in States
    BY <1>1, <2>1, FinishedIs
  <2>4. StateHolds(m) /\ Follows(Staled(mem), m) /\ NonePosting(m)
    BY <1>1, <2>1, <2>2, FinishedHolds, TypesAre
  <2> HIDE DEF m
  <2>5. Follows(mem, m)
    BY <2>1, <2>4 DEF Follows, Undecided, Decided
  <2>6. \/ mem' = m /\ saved' = m /\ faults' = faults /\ bot' = b
        \/ SaveFails(m, "wait")
    BY <1>3 DEF m, b
  <2>7. CASE mem' = m /\ saved' = m /\ faults' = faults /\ bot' = b
    <3>1. (NonePosting(mem))'
      BY <2>4, <2>7 DEF NonePosting, Status
    <3>2. BotHolds'
      BY <1>2, <2>7, <3>1 DEF BotHolds, Reviewing
    <3> QED  BY <1>1, <1>2, <2>3, <2>4, <2>5, <2>7, <3>2, Keeps, TypesAre DEF OthersRest
  <2>8. CASE SaveFails(m, "wait")
    <3>1. bot' \in Bots /\ BotHolds'
      BY <1>1, <2>8, GotoIs, Rests, TypesAre DEF SaveFails, Places
    <3>2. faults' \in 0..MaxFaults
      BY <2>8, FaultIs DEF SaveFails
    <3> QED  BY <1>1, <2>3, <2>4, <2>5, <2>8, <3>1, <3>2, Keeps, TypesAre
             DEF OthersRest, SaveFails
  <2> QED  BY <2>6, <2>7, <2>8
<1>4. CASE UNCHANGED <<mem, saved, faults>> /\ bot' = b
  <2>1. (NonePosting(mem))'
    BY <1>1, <1>4 DEF NonePosting, Status
  <2>2. BotHolds'
    BY <1>2, <1>4, <2>1 DEF BotHolds, Reviewing
  <2> QED  BY <1>1, <1>2, <1>4, <2>2, FinderStays, TypesAre DEF OthersRest
<1>5. CASE Breaks("wait")
  <2>1. bot' \in Bots /\ BotHolds'
    BY <1>1, <1>5, GotoIs, Rests, TypesAre DEF Breaks, Places
  <2>2. faults' \in 0..MaxFaults
    BY <1>5, FaultIs DEF Breaks
  <2> QED  BY <1>1, <1>5, <2>1, <2>2, FinderStays, TypesAre DEF OthersRest, Breaks
<1> QED  BY <1>3, <1>4, <1>5 DEF Fetch, b

LEMMA BugRestsKeeps == FinderInv /\ BugRests => StepHolds
<1> SUFFICES ASSUME FinderInv, BugRests PROVE StepHolds
  OBVIOUS
<1>1. OthersRest /\ bot.job = "scan" /\ Goes("wait")
  BY TypesAre DEF BugRests, AtStep, BotHolds
<1>2. Goto("wait") => BotHolds'
  BY <1>1, Rests
<1> QED  BY <1>1, <1>2, GoesKeeps DEF Places

LEMMA NewScanKeeps == FinderInv /\ NewScan => StepHolds
<1> SUFFICES ASSUME FinderInv, NewScan PROVE StepHolds
  OBVIOUS
<1> DEFINE s == [NoScan EXCEPT !.on = TRUE, !.commit = bot.fetched]
           m == [mem EXCEPT !.scan = s]
<1>1. OthersRest /\ bot.pc = "begin" /\ bot.job = "scan" /\ NonePosting(mem)
  BY TypesAre DEF NewScan, AtStep, BotHolds
<1>2. s \in Scans /\ s.on
  <2>1. bot.fetched \in 0..MaxMoves /\ 0 \in 0..Attempts
    BY TypesAre, FinderNumbers DEF Bots
  <2> QED  BY <2>1 DEF NoScan, Scans
<1>3. SaveAndGo(m, "begin", "wait")
  BY DEF NewScan
<1> HIDE DEF s
<1>4. /\ m \in States /\ m.scan = s /\ m.cands = mem.cands /\ m.publication = mem.publication
      /\ \A r \in Requests : Status(m, r) = Status(mem, r)
  BY <1>2, ScanIs, TypesAre
<1> HIDE DEF m
<1>5. StateHolds(m) /\ Follows(mem, m)
  BY <1>2, <1>4, SameFindings, TypesAre
<1>6. ASSUME Goto("begin"), mem' = m PROVE BotHolds'
  <2>1. bot'.pc = "begin" /\ bot'.job = "scan"
    BY <1>1, <1>6, GotoIs, TypesAre DEF Places
  <2>2. (NonePosting(mem))'
    BY <1>1, <1>4, <1>6 DEF NonePosting, Status
  <2> QED  BY <2>1, <2>2 DEF BotHolds, Reviewing
<1> QED  BY <1>1, <1>3, <1>4, <1>5, <1>6, FinderSaves DEF Places

LEMMA CountKeeps == FinderInv /\ Count => StepHolds
<1> SUFFICES ASSUME FinderInv, Count PROVE StepHolds
  OBVIOUS
<1> DEFINE k == mem.scan.tries + 1
           m == [mem EXCEPT !.scan.tries = k]
<1>1. OthersRest /\ bot.pc = "begin" /\ bot.job = "scan" /\ NonePosting(mem) /\ mem.scan.on
  BY TypesAre DEF Count, AtStep, BotHolds
<1>2. k \in 0..Attempts /\ k >= 1
  <2>1. mem.scan.tries \in 0..Attempts
    BY TypesAre DEF States, Scans
  <2>2. ~(mem.scan.tries >= Attempts)
    BY DEF Count, Exhausted
  <2> QED  BY <2>1, <2>2, FinderNumbers
<1>3. SaveAndGo(m, "attempt", "wait")
  BY DEF Count
<1> HIDE DEF k
<1>4. /\ m \in States /\ m.scan.on = mem.scan.on /\ m.scan.tries = k
      /\ m.cands = mem.cands /\ m.publication = mem.publication
      /\ \A r \in Requests : Status(m, r) = Status(mem, r)
  BY <1>2, TriesIs, TypesAre
<1> HIDE DEF m
<1>5. StateHolds(m) /\ Follows(mem, m)
  BY <1>4, SameFindings, TypesAre
<1>6. ASSUME Goto("attempt"), mem' = m PROVE BotHolds'
  <2>1. bot'.pc = "attempt" /\ bot'.job = "scan"
    BY <1>1, <1>6, GotoIs, TypesAre DEF Places
  <2>2. (NonePosting(mem))'
    BY <1>1, <1>4, <1>6 DEF NonePosting, Status
  <2>3. mem'.scan.on /\ mem'.scan.tries >= 1
    BY <1>1, <1>2, <1>4, <1>6
  <2> QED  BY <2>1, <2>2, <2>3 DEF BotHolds, Reviewing
<1> QED  BY <1>1, <1>3, <1>4, <1>5, <1>6, FinderSaves DEF Places

-----------------------------------------------------------------------------
\* An attempt.

\* The next finding of a scan under way.
LEMMA GoesOn ==
    ASSUME FinderInv, NEW m, mem' = m, m.scan.on, m.scan.tries >= 1, NonePosting(m),
           bot.job = "scan", Goto("next")
    PROVE  BotHolds'
<1>1. bot'.pc = "next" /\ bot'.job = "scan"
  BY GotoIs, TypesAre DEF Places
<1>2. (NonePosting(mem))'
  BY DEF NonePosting, Status
<1> QED  BY <1>1, <1>2 DEF BotHolds, Reviewing

LEMMA DiscoverKeeps == FinderInv /\ Discover => StepHolds
<1> SUFFICES ASSUME FinderInv, Discover PROVE StepHolds
  OBVIOUS
<1>1. /\ OthersRest /\ bot.pc = "attempt" /\ bot.job = "scan" /\ NonePosting(mem)
      /\ mem.scan.on /\ mem.scan.tries >= 1
  BY TypesAre DEF Discover, AtStep, BotHolds
<1>2. CASE mem.scan.discovered
  <2>1. Goes("next")
    BY <1>2 DEF Discover
  <2>2. Goto("next") /\ mem' = mem => BotHolds'
    BY <1>1, GoesOn
  <2> QED  BY <1>1, <2>1, <2>2, GoesKeeps DEF Places
<1>3. CASE ~mem.scan.discovered
  <2>1. PICK n : SaveAndGo(Discovered(n), "next", "failing")
    BY <1>3 DEF Discover
  <2> DEFINE m == Discovered(n)
  <2>2. /\ m \in States /\ m.scan.on /\ m.scan.tries = mem.scan.tries
        /\ StateHolds(m) /\ Follows(mem, m) /\ NonePosting(m)
    BY <1>1, DiscoveredIs, TypesAre
  <2>3. SaveAndGo(m, "next", "failing")
    BY <2>1
  <2> HIDE DEF m
  <2>4. Goto("next") /\ mem' = m => BotHolds'
    BY <1>1, <2>2, GoesOn
  <2> QED  BY <1>1, <2>2, <2>3, <2>4, FinderSaves DEF Places
<1> QED  BY <1>2, <1>3

LEMMA AgentBreaksKeeps == FinderInv /\ AgentBreaks => StepHolds
<1> SUFFICES ASSUME FinderInv, AgentBreaks PROVE StepHolds
  OBVIOUS
<1>1. /\ OthersRest /\ saved' = saved /\ faults' \in 0..MaxFaults
      /\ bot' \in Bots /\ BotHolds'
  BY GotoIs, FinderIdle, FaultIs, TypesAre DEF AgentBreaks, Places
<1>2. CASE mem' = mem
  BY <1>1, <1>2, FinderStays, TypesAre DEF OthersRest
<1>3. CASE bot.job = "scan" /\ mem' = Refund(mem)
  <2> DEFINE k == mem.scan.tries - 1
             m == [mem EXCEPT !.scan.tries = k]
  <2>1. k \in 0..Attempts
    <3>1. mem.scan.tries \in 0..Attempts
      BY TypesAre DEF States, Scans
    <3>2. mem.scan.tries >= 1
      BY <1>3, TypesAre DEF AgentBreaks, BotHolds, Reviewing
    <3> QED  BY <3>1, <3>2, FinderNumbers
  <2>2. mem' = m
    BY <1>3 DEF Refund
  <2> HIDE DEF k
  <2>3. /\ m \in States /\ m.scan.on = mem.scan.on
        /\ m.cands = mem.cands /\ m.publication = mem.publication
        /\ \A r \in Requests : Status(m, r) = Status(mem, r)
    BY <2>1, TriesIs, TypesAre
  <2> HIDE DEF m
  <2>4. StateHolds(m) /\ Follows(mem, m)
    BY <2>3, SameFindings, TypesAre
  <2> QED  BY <1>1, <2>2, <2>3, <2>4, Keeps, TypesAre DEF OthersRest
<1> QED  BY <1>2, <1>3 DEF AgentBreaks

LEMMA NextFindingKeeps == FinderInv /\ NextFinding => StepHolds
<1> SUFFICES ASSUME FinderInv, NextFinding PROVE StepHolds
  OBVIOUS
<1>1. /\ OthersRest /\ bot.pc = "next" /\ bot.job = "scan" /\ NonePosting(mem)
      /\ mem.scan.on /\ mem.scan.tries >= 1 /\ bot.dry \in BOOLEAN
  BY TypesAre DEF NextFinding, AtStep, BotHolds, Bots
<1> DEFINE todo == OfStatus(mem, "pending")
<1>2. CASE todo # {}
  <2> DEFINE r == First(todo)
             b == [bot EXCEPT !.pc = "review", !.cand = r, !.checked = {}, !.left = Refreshes,
                              !.prior = "pending"]
  <2>1. r \in todo
    BY <1>2, FirstIs DEF OfStatus, InScan
  <2>2. r \in Requests /\ mem.cands[r].place = "scan" /\ Status(mem, r) = "pending"
    BY <2>1 DEF OfStatus, InScan, Status
  <2>3. bot' = b /\ UNCHANGED <<mem, saved, faults>>
    BY <1>2 DEF NextFinding
  <2> HIDE DEF r
  <2>4. /\ b \in Bots /\ b.pc = "review" /\ b.job = "scan" /\ b.cand = r /\ b.prior = "pending"
    <3>1. r \in 0..MaxRequests /\ Refreshes \in 0..Refreshes
      BY <2>2, FinderNumbers DEF Requests
    <3> QED  BY <1>1, <3>1, TypesAre DEF Bots, Places
  <2> HIDE DEF b
  <2>5. (NonePosting(mem))' /\ mem'.cands[r].status = "pending" /\ mem' = mem
    BY <1>1, <2>2, <2>3 DEF NonePosting, Status
  <2>6. BotHolds'
    BY <1>1, <2>2, <2>3, <2>4, <2>5 DEF BotHolds, Reviewing, Status
  <2> QED  BY <1>1, <2>3, <2>4, <2>6, FinderStays, TypesAre DEF OthersRest
<1>3. CASE todo = {}
  <2> DEFINE m == Finished(mem, bot.dry)
  <2>1. m \in States
    BY <1>1, FinishedIs, TypesAre
  <2>2. StateHolds(m) /\ Follows(mem, m)
    BY <1>1, FinishedHolds, TypesAre
  <2>3. SaveAndGo(m, "wait", "wait")
    BY <1>3 DEF NextFinding
  <2> HIDE DEF m
  <2>4. Goto("wait") => BotHolds'
    BY <1>1, Rests
  <2> QED  BY <1>1, <2>1, <2>2, <2>3, <2>4, FinderSaves DEF Places
<1> QED  BY <1>2, <1>3

LEMMA FinderFails == FinderInv /\ Fail => StepHolds
<1> SUFFICES ASSUME FinderInv, Fail PROVE StepHolds
  OBVIOUS
<1> DEFINE pc == IF bot.job = "scan" THEN "wait" ELSE "off"
<1>1. OthersRest /\ SaveAndGo(mem, pc, pc)
  BY DEF Fail, AtStep
<1>2. pc \in Places /\ (pc = "off" \/ (pc = "wait" /\ bot.job = "scan"))
  BY DEF Places
<1> HIDE DEF pc
<1>3. Goto(pc) => BotHolds'
  BY <1>2, GotoIs, TypesAre, FinderIdle
<1> QED  BY <1>1, <1>2, <1>3, FinderSaves, TypesAre

-----------------------------------------------------------------------------
\* A review.

LEMMA ListingIs ==
    ASSUME FinderInv
    PROVE  /\ Listing \in SUBSET Versions
           /\ \A i \in DOMAIN filed : <<filed[i].request, 1>> \in Listing
<1>1. ASSUME NEW r \in Requests, Carries(r) PROVE Copies(r) = 1
  <2>1. PICK i \in DOMAIN filed : filed[i].request = r
    BY <1>1 DEF Carries
  <2>2. {j \in DOMAIN filed : filed[j].request = r} = {i}
    BY <2>1, TypesAre DEF FiledHolds
  <2> QED  BY <2>2, FS_Singleton DEF Copies
<1>2. edits > 0 => <<0, edits>> \in {0} \X (1..MaxEdits)
  BY TypesAre, FinderNumbers
<1>3. \A r \in {q \in Requests : Carries(q)} : <<r, Copies(r)>> \in Requests \X (1..2)
  BY <1>1
<1>4. Listing \in SUBSET Versions
  BY <1>2, <1>3 DEF Listing, Versions
<1>5. ASSUME NEW i \in DOMAIN filed PROVE <<filed[i].request, 1>> \in Listing
  <2>1. filed[i] \in Issues
    BY <1>5, TypesAre
  <2>2. filed[i].request \in Requests /\ Carries(filed[i].request)
    BY <1>5, <2>1 DEF Issues, Carries
  <2>3. Copies(filed[i].request) = 1
    BY <1>1, <2>2
  <2> QED  BY <2>2, <2>3 DEF Listing
<1> QED  BY <1>4, <1>5

\* The review of the same finding, with the same decision of it.
LEMMA ReviewContinues ==
    ASSUME FinderInv, bot.pc \in Reviewing, bot'.pc \in Reviewing, kind' = kind,
           bot'.job = bot.job, bot'.cand = bot.cand, bot'.prior = bot.prior, bot'.dry = bot.dry,
           NEW m, mem' = m, m.scan = mem.scan, m.publication = mem.publication,
           \A r \in Requests : /\ m.cands[r].place = mem.cands[r].place
                               /\ Status(m, r) = Status(mem, r)
    PROVE  BotHolds'
<1>1. bot.job = "scan" => (NonePosting(mem))'
  BY TypesAre DEF BotHolds, NonePosting, Status
<1>2. BotHolds
  BY TypesAre
<1>3. bot.cand \in Requests
  BY <1>2 DEF BotHolds
<1>4. bot'.pc \notin {"wait", "step", "fetch", "begin", "attempt", "next", "published", "post"}
  BY DEF Reviewing
<1>5. mem'.cands[bot.cand].place = mem.cands[bot.cand].place
      /\ mem'.cands[bot.cand].status = Status(mem, bot.cand)
  BY <1>3 DEF Status
<1> QED  BY <1>1, <1>2, <1>3, <1>4, <1>5 DEF BotHolds, Status

LEMMA ReadIssuesKeeps == FinderInv /\ ReadIssues => StepHolds
<1> SUFFICES ASSUME FinderInv, ReadIssues PROVE StepHolds
  OBVIOUS
<1>1. OthersRest /\ bot.pc = "review"
  BY DEF ReadIssues
<1>2. CASE bot.left = 0
  <2>1. Goes("failing")
    BY <1>2 DEF ReadIssues
  <2>2. Goto("failing") => BotHolds'
    BY GotoIs, TypesAre, FinderIdle DEF Places
  <2> QED  BY <1>1, <2>1, <2>2, GoesKeeps DEF Places
<1>3. CASE bot.left # 0
  <2> DEFINE pc == IF (Listing \cup {Source}) \subseteq Checked THEN "verify" ELSE "batch"
             k == bot.left - 1
             l == Listing
             b == [bot EXCEPT !.left = k, !.read = l, !.pc = pc]
  <2>1. bot' = b /\ UNCHANGED <<mem, saved, faults>>
    BY <1>3 DEF ReadIssues
  <2>2. k \in 0..Refreshes
    <3>1. bot.left \in 0..Refreshes
      BY TypesAre DEF Bots
    <3> QED  BY <1>3, <3>1, FinderNumbers
  <2>3. l \in SUBSET Versions
    BY ListingIs
  <2>4. pc \in Reviewing /\ pc \in Places
    BY DEF Reviewing, Places
  <2> HIDE DEF pc, k, l
  <2>5. /\ b \in Bots /\ b.pc \in Reviewing /\ b.job = bot.job /\ b.cand = bot.cand
        /\ b.prior = bot.prior /\ b.dry = bot.dry
    BY <2>2, <2>3, <2>4, TypesAre DEF Bots
  <2> HIDE DEF b
  <2>6. BotHolds'
    BY <1>1, <2>1, <2>5, ReviewContinues DEF OthersRest, Reviewing
  <2> QED  BY <1>1, <2>1, <2>5, <2>6, FinderStays, TypesAre DEF OthersRest
<1> QED  BY <1>2, <1>3

LEMMA CheckedVersions ==
    ASSUME FinderInv, bot.cand \in Requests
    PROVE  /\ bot.checked \in SUBSET Versions /\ bot.read \in SUBSET Versions
           /\ Unread \in SUBSET Versions /\ Source \in Versions
           /\ mem.cands[bot.cand].checked \in SUBSET Versions
<1>1. bot.checked \in SUBSET Versions /\ bot.read \in SUBSET Versions /\ Source \in Versions
  BY TypesAre DEF Bots, Versions
<1>2. mem.cands[bot.cand] \in Candidates
  BY FindingOf, TypesAre
<1> QED  BY <1>1, <1>2 DEF Unread, Candidates

LEMMA BugBatchesKeeps == FinderInv /\ BugBatches => StepHolds
<1> SUFFICES ASSUME FinderInv, BugBatches PROVE StepHolds
  OBVIOUS
<1> DEFINE c == bot.checked \cup Unread
           b == [bot EXCEPT !.pc = "review", !.checked = c]
<1>1. OthersRest /\ bot.pc = "batch" /\ bot' = b /\ UNCHANGED <<mem, saved, faults>>
  BY DEF BugBatches
<1>2. c \in SUBSET Versions
  BY <1>1, CheckedVersions, TypesAre DEF BotHolds, Reviewing
<1> HIDE DEF c
<1>3. /\ b \in Bots /\ b.pc = "review" /\ b.job = bot.job /\ b.cand = bot.cand
      /\ b.prior = bot.prior /\ b.dry = bot.dry
  BY <1>2, TypesAre DEF Bots, Places
<1> HIDE DEF b
<1>4. BotHolds'
  BY <1>1, <1>3, ReviewContinues DEF OthersRest, Reviewing
<1> QED  BY <1>1, <1>3, <1>4, FinderStays, TypesAre DEF OthersRest

LEMMA FeatureBatchKeeps == FinderInv /\ FeatureBatch => StepHolds
<1> SUFFICES ASSUME FinderInv, FeatureBatch PROVE StepHolds
  OBVIOUS
<1>1. OthersRest /\ bot.pc = "batch" /\ bot.cand \in Requests
  BY TypesAre DEF FeatureBatch, AtStep, BotHolds, Reviewing
<1>2. PICK v \in Unread :
        SaveAndGo([mem EXCEPT !.cands[bot.cand].checked = @ \cup {v, Source}],
                  IF Unread \ {v, Source} = {} THEN "review" ELSE "batch", "failing")
  BY DEF FeatureBatch
<1> DEFINE c == mem.cands[bot.cand].checked \cup {v, Source}
           r == bot.cand
           m == [mem EXCEPT !.cands[r].checked = c]
           pc == IF Unread \ {v, Source} = {} THEN "review" ELSE "batch"
<1>3. m = [mem EXCEPT !.cands[bot.cand].checked = @ \cup {v, Source}]
  OBVIOUS
<1>4. SaveAndGo(m, pc, "failing")
  BY <1>2, <1>3
<1>5. c \in SUBSET Versions
  BY <1>1, CheckedVersions
<1>6. pc \in Places /\ pc \in Reviewing
  BY DEF Places, Reviewing
<1> HIDE DEF c, pc
<1>7. /\ m \in States /\ m.scan = mem.scan /\ m.publication = mem.publication
      /\ \A q \in Requests : /\ m.cands[q].place = mem.cands[q].place
                             /\ Status(m, q) = Status(mem, q)
  BY <1>1, <1>5, CheckedIs, TypesAre
<1> HIDE DEF m, r
<1>8. StateHolds(m) /\ Follows(mem, m)
  BY <1>7, SameFindings, TypesAre
<1>9. ASSUME Goto(pc), mem' = m PROVE BotHolds'
  BY <1>1, <1>6, <1>7, <1>9, GotoIs, TypesAre, ReviewContinues DEF OthersRest, Reviewing
<1> QED  BY <1>1, <1>4, <1>6, <1>7, <1>8, <1>9, FinderSaves DEF Places

\* The review, or the post, of a finding is over.
LEMMA Returned ==
    ASSUME FinderInv, bot.pc \in Reviewing \cup {"post"}, Goto(Returns),
           NEW m, mem' = m, m.scan = mem.scan, Status(m, bot.cand) # "posting",
           bot.job = "scan" => NonePosting(m)
    PROVE  BotHolds'
<1>1. bot.cand \in Requests /\ bot.job \in {"scan", "publish"}
  BY TypesAre DEF BotHolds, Bots
<1>2. CASE bot.job = "scan"
  <2>1. m.scan.on /\ m.scan.tries >= 1
    BY <1>2, TypesAre DEF BotHolds
  <2> QED  BY <1>2, <2>1, GoesOn DEF Returns
<1>3. CASE bot.job = "publish"
  <2>1. bot'.pc = "published" /\ bot'.job = "publish" /\ bot'.cand = bot.cand
    BY <1>3, GotoIs, TypesAre DEF Returns, Places
  <2>2. (Status(mem, bot.cand))' # "posting"
    BY <2>1 DEF Status
  <2> QED  BY <1>1, <2>1, <2>2 DEF BotHolds, Reviewing
<1> QED  BY <1>1, <1>2, <1>3

\* The finding under review has not been sent, and is not being sent.
LEMMA UnderReview ==
    ASSUME FinderInv, bot.pc \in Reviewing
    PROVE  /\ bot.cand \in Requests /\ ~Posted(bot.cand)
           /\ Status(mem, bot.cand) \in {"pending", "dry_run"}
           /\ Status(mem, bot.cand) = bot.prior
           /\ mem.cands[bot.cand].place # "none"
           /\ \A p \in inflight : p.request # bot.cand
<1>1. bot.cand \in Requests /\ Status(mem, bot.cand) = bot.prior
  BY TypesAre DEF BotHolds
<1>2. bot.prior \in {"pending", "dry_run"} /\ bot.job \in {"scan", "publish"}
  BY TypesAre DEF Bots
<1>3. mem.cands[bot.cand].place # "none"
  BY <1>2, TypesAre DEF BotHolds
<1>4. ~Posted(bot.cand)
  BY <1>1, <1>2, TypesAre DEF StateHolds, Knows
<1> QED  BY <1>1, <1>2, <1>3, <1>4 DEF Posted

\* A review that ends with another decision than to post.
LEMMA Decides ==
    ASSUME FinderInv, OthersRest, bot.pc \in Reviewing,
           NEW status \in FindingStatuses \ Undecided,
           SaveAndGo(WithStatus(mem, bot.cand, status), Returns, "failing")
    PROVE  StepHolds
<1> DEFINE r == bot.cand
           m == WithStatus(mem, r, status)
<1>1. /\ r \in Requests /\ ~Posted(r) /\ Status(mem, r) \in {"pending", "dry_run"}
      /\ mem.cands[r].place # "none" /\ \A p \in inflight : p.request # r
  BY UnderReview
<1>2. /\ m \in States /\ m.scan = mem.scan
      /\ \A q \in Requests :
            /\ m.cands[q].place = mem.cands[q].place
            /\ Status(m, q) = IF q = r THEN status ELSE Status(mem, q)
  BY <1>1, WithStatusIs, TypesAre
<1>3. StateHolds(m)
  BY <1>1, StatusHolds, TypesAre
<1>4. Follows(mem, m)
  BY <1>1, StatusFollows, TypesAre DEF Undecided
<1>5. SaveAndGo(m, Returns, "failing")
  OBVIOUS
<1> HIDE DEF m
<1>6. bot.job = "scan" => NonePosting(m)
  BY <1>1, <1>2, TypesAre DEF BotHolds, NonePosting, Undecided
<1>7. Status(m, bot.cand) # "posting"
  BY <1>1, <1>2 DEF Undecided
<1>8. Goto(Returns) /\ mem' = m => BotHolds'
  BY <1>2, <1>6, <1>7, Returned
<1>9. Returns \in Places /\ "failing" \in Places
  BY DEF Returns, Places
<1> QED  BY <1>2, <1>3, <1>4, <1>5, <1>8, <1>9, FinderSaves

LEMMA DeclinedKeeps == FinderInv /\ Declined => StepHolds
<1> SUFFICES ASSUME FinderInv, Declined PROVE StepHolds
  OBVIOUS
<1>1. OthersRest /\ bot.pc = "batch"
  BY DEF Declined, AtStep
<1>2. PICK verdict \in FinderVerdicts :
        SaveAndGo(WithStatus(mem, bot.cand, verdict), Returns, "failing")
  BY DEF Declined
<1>3. verdict \in FindingStatuses \ Undecided
  BY FinderConstants DEF FindingStatuses, Undecided
<1> QED  BY <1>1, <1>2, <1>3, Decides DEF Reviewing

-----------------------------------------------------------------------------
\* A post.

\* The finding is saved as posting, and is sent after that.
LEMMA PostingKeeps ==
    ASSUME FinderInv, OthersRest, bot.pc = "verify", Listing \subseteq bot.read,
           ~(kind = "feature" /\ Carries(bot.cand)), ~bot.dry,
           \/ Saves(WithStatus(mem, bot.cand, "posting"), "post")
           \/ /\ FinderFault /\ Goto("failing") /\ UNCHANGED mem
              /\ saved' \in {saved, WithStatus(mem, bot.cand, "posting")}
    PROVE  StepHolds
<1> DEFINE r == bot.cand
           m == WithStatus(mem, r, "posting")
<1>1. /\ r \in Requests /\ ~Posted(r) /\ Status(mem, r) \in {"pending", "dry_run"}
      /\ Status(mem, r) = bot.prior
      /\ mem.cands[r].place # "none" /\ \A p \in inflight : p.request # r
  BY UnderReview DEF Reviewing
<1>2. ~Copied(r)
  <2>1. CASE kind = "feature"
    BY <2>1 DEF Carries, Copied
  <2>2. CASE kind # "feature"
    <3>1. bot.prior = "pending"
      BY <2>2, TypesAre DEF BotHolds, Reviewing, Bots
    <3> QED  BY <1>1, <3>1, TypesAre DEF StateHolds, Knows
  <2> QED  BY <2>1, <2>2
<1>3. /\ m \in States /\ m.scan = mem.scan /\ m.publication = mem.publication
      /\ \A q \in Requests :
            /\ m.cands[q].place = mem.cands[q].place
            /\ Status(m, q) = IF q = r THEN "posting" ELSE Status(mem, q)
  BY <1>1, WithStatusIs, TypesAre DEF FindingStatuses
<1>4. StateHolds(m)
  BY <1>1, <1>2, StatusHolds, TypesAre DEF FindingStatuses
<1>5. \/ Saves(m, "post")
      \/ /\ FinderFault /\ Goto("failing") /\ UNCHANGED mem /\ saved' \in {saved, m}
  OBVIOUS
<1> HIDE DEF m
<1>6. Behind(m, m) /\ Behind(m, mem) /\ Stays(mem, m)
  <2>1. Status(m, r) = "posting" /\ "posting" \notin Decided /\ Status(mem, r) \notin Decided
    BY <1>1, <1>3 DEF Decided
  <2>2. \A q \in Requests : q # r => Status(m, q) = Status(mem, q)
    BY <1>3
  <2>3. "dry_run" \notin Undecided
    BY DEF Undecided
  <2> QED  BY <2>1, <2>2, <2>3 DEF Behind, Stays
<1>7. CASE Saves(m, "post")
  <2>1. /\ bot' \in Bots /\ bot'.pc = "post" /\ bot'.job = bot.job /\ bot'.cand = r
        /\ bot'.read = bot.read /\ bot'.dry = bot.dry /\ bot'.prior = bot.prior
        /\ mem' = m /\ saved' = m /\ faults' = faults
    BY <1>7, GotoIs, TypesAre DEF Saves, Places
  <2>2. ASSUME NEW i \in DOMAIN filed, filed[i].by = bot.job PROVE filed[i].request \in Seen(bot.read)
    <3>1. <<filed[i].request, 1>> \in bot.read
      BY ListingIs
    <3>2. <<filed[i].request, 1>> # Source
      BY DEF Source
    <3> QED  BY <3>1, <3>2 DEF Seen
  <2>3. ASSUME NEW p \in inflight PROVE p.by # bot.job
    <3>1. p \in InFlights /\ p.request \in Requests
      BY TypesAre DEF InFlights
    <3>2. /\ Status(mem, p.request) = "posting"
          /\ p.by = "scan" => mem.cands[p.request].place = "scan"
          /\ p.by = "publish" => mem.publication = p.request
      BY TypesAre DEF StateHolds, Awaits
    <3>3. bot.job = "scan" => NonePosting(mem)
      BY TypesAre DEF BotHolds, Reviewing
    <3>4. bot.job = "publish" => mem.publication = r
      BY TypesAre DEF BotHolds, Reviewing
    <3>5. CASE p.by = "scan"
      BY <3>1, <3>2, <3>3, <3>5 DEF NonePosting
    <3>6. CASE p.by = "publish"
      BY <1>1, <3>2, <3>4, <3>6
    <3> QED  BY <3>1, <3>5, <3>6 DEF InFlights
  <2>4. filed' = filed /\ inflight' = inflight /\ kind' = kind
    BY DEF OthersRest
  <2>5. /\ (~Posted(bot.cand))' /\ (~Copied(bot.cand))'
    BY <1>1, <1>2, <2>1, <2>4 DEF Posted, Copied, Ours
  <2>6. (Compared(bot.job, Seen(bot.read)))' /\ (\A p \in inflight : p.by # bot.job)'
    BY <2>1, <2>2, <2>3, <2>4 DEF Compared, Seen
  <2>7. bot.job = "scan" =>
           \A q \in Requests : q # r /\ m.cands[q].place = "scan" => Status(m, q) # "posting"
    BY <1>3, TypesAre DEF BotHolds, Reviewing, NonePosting
  <2>8. /\ bot.job = "scan" => /\ m.scan.on /\ m.scan.tries >= 1 /\ bot.prior = "pending"
                               /\ m.cands[r].place = "scan"
        /\ bot.job = "publish" => /\ bot.prior = "dry_run" /\ kind = "feature"
                                  /\ m.publication = r /\ m.cands[r].place = "completed"
    BY <1>1, <1>3, TypesAre DEF BotHolds, Reviewing
  <2>9. Status(m, r) = "posting"
    BY <1>1, <1>3
  <2>10. (Status(mem, bot.cand))' = "posting"
    BY <2>1, <2>9 DEF Status
  <2>11. (\A q \in Requests : q # bot.cand /\ mem.cands[q].place = "scan" =>
                              Status(mem, q) # "posting")' \/ bot'.job # "scan"
    BY <2>1, <2>7 DEF Status
  <2>12. BotHolds'
    BY <1>1, <2>1, <2>4, <2>5, <2>6, <2>8, <2>10, <2>11 DEF BotHolds, Reviewing
  <2> QED  BY <1>3, <1>4, <1>6, <2>1, <2>12, KeepsBoth, TypesAre DEF OthersRest
<1>8. CASE FinderFault /\ Goto("failing") /\ UNCHANGED mem /\ saved' \in {saved, m}
  <2>1. bot' \in Bots /\ BotHolds'
    BY <1>8, GotoIs, TypesAre, FinderIdle DEF Places
  <2>2. faults' \in 0..MaxFaults
    BY <1>8, FaultIs
  <2> QED  BY <1>3, <1>4, <1>6, <1>8, <2>1, <2>2, KeepsBoth, TypesAre DEF OthersRest
<1> QED  BY <1>5, <1>7, <1>8

LEMMA VerifyKeeps == FinderInv /\ Verify => StepHolds
<1> SUFFICES ASSUME FinderInv, Verify PROVE StepHolds
  OBVIOUS
<1>1. OthersRest /\ bot.pc = "verify"
  BY DEF Verify, AtStep
<1>2. CASE Goes("failing")
  <2>1. Goto("failing") => BotHolds'
    BY GotoIs, TypesAre, FinderIdle DEF Places
  <2> QED  BY <1>1, <1>2, <2>1, GoesKeeps DEF Places
<1>3. CASE Goes("review")
  <2>1. ASSUME Goto("review"), mem' = mem PROVE BotHolds'
    <3>1. /\ bot'.pc \in Reviewing /\ bot'.job = bot.job /\ bot'.cand = bot.cand
          /\ bot'.prior = bot.prior /\ bot'.dry = bot.dry
      BY <2>1, GotoIs, TypesAre DEF Places, Reviewing
    <3> QED  BY <1>1, <2>1, <3>1, ReviewContinues DEF OthersRest, Reviewing
  <2> QED  BY <1>1, <1>3, <2>1, GoesKeeps DEF Places
<1>4. CASE \/ SaveAndGo(WithStatus(mem, bot.cand, "duplicate"), Returns, "failing")
           \/ SaveAndGo(WithStatus(mem, bot.cand, "dry_run"), Returns, "failing")
  <2>1. "duplicate" \in FindingStatuses \ Undecided /\ "dry_run" \in FindingStatuses \ Undecided
    BY DEF FindingStatuses, Undecided
  <2> QED  BY <1>1, <1>4, <2>1, Decides DEF Reviewing
<1>5. CASE /\ Listing \subseteq bot.read /\ ~(kind = "feature" /\ Carries(bot.cand)) /\ ~bot.dry
           /\ \/ Saves(WithStatus(mem, bot.cand, "posting"), "post")
              \/ /\ FinderFault /\ Goto("failing") /\ UNCHANGED mem
                 /\ saved' \in {saved, WithStatus(mem, bot.cand, "posting")}
  BY <1>1, <1>5, PostingKeeps
<1> QED  BY <1>2, <1>3, <1>4, <1>5 DEF Verify

\* An issue of a request that had none, and that is no longer in flight.
LEMMA Files ==
    ASSUME FinderInv, NEW r \in Requests, NEW read \in SUBSET Versions,
           NEW by \in {"scan", "publish", "person"}, filed' = Landed(r, read, by),
           \A i \in DOMAIN filed : filed[i].request # r,
           by # "person" => Compared(by, Seen(read)),
           inflight' \in SUBSET inflight, \A p \in inflight' : p.request # r /\ p.by # by
    PROVE  /\ filed' \in Seq(Issues) /\ inflight' \in SUBSET InFlights /\ FiledHolds'
           /\ \A q \in Requests :
                 /\ q # r /\ (Posted(q))' => Posted(q)
                 /\ q # r \/ by # "person" => ((Copied(q))' => Copied(q))
           /\ \A work : by # work => (Compared(work, Seen(bot.read)) =>
                 \A i \in DOMAIN filed' :
                     filed'[i].by = work => filed'[i].request \in Seen(bot.read))
<1> DEFINE x == [request |-> r, by |-> by, seen |-> Seen(read)]
           k == Len(filed) + 1
<1>1. filed' = Append(filed, x)
  BY DEF Landed, Seen
<1>2. Seen(read) \in SUBSET (0..MaxRequests)
  <2>1. ASSUME NEW v \in Versions PROVE v[1] \in 0..MaxRequests
    BY <2>1, FinderNumbers DEF Versions, Source, Requests
  <2> QED  BY <2>1 DEF Seen
<1>3. x \in Issues /\ x.request = r /\ x.by = by /\ x.seen = Seen(read)
  BY <1>2 DEF Issues
<1> HIDE DEF x
<1>4. filed \in Seq(Issues) /\ inflight \in SUBSET InFlights /\ FiledHolds
  BY TypesAre
<1>5. /\ filed' \in Seq(Issues)
      /\ k \in Nat /\ DOMAIN filed' = DOMAIN filed \cup {k} /\ k \notin DOMAIN filed
      /\ filed'[k] = x /\ \A i \in DOMAIN filed : filed'[i] = filed[i]
      /\ \A i \in DOMAIN filed : i \in Nat /\ i < k
  BY <1>1, <1>3, <1>4
<1> HIDE DEF k
<1>6. ASSUME NEW i \in DOMAIN filed', NEW j \in DOMAIN filed',
             filed'[i].request = filed'[j].request
      PROVE  i = j
  BY <1>3, <1>4, <1>5, <1>6 DEF FiledHolds
<1>7. ASSUME NEW i \in DOMAIN filed', NEW j \in DOMAIN filed', i < j,
             filed'[i].by # "person", filed'[i].by = filed'[j].by
      PROVE  filed'[i].request \in filed'[j].seen
  <2>1. i \in DOMAIN filed /\ filed'[i] = filed[i]
    BY <1>5, <1>7
  <2>2. CASE j = k
    BY <1>3, <1>5, <1>7, <2>1, <2>2 DEF Compared
  <2>3. CASE j # k
    BY <1>4, <1>5, <1>7, <2>1, <2>3 DEF FiledHolds, OwnIssuesCompared, Ours
  <2> QED  BY <2>2, <2>3
<1>8. OwnIssuesCompared'
  BY <1>7 DEF OwnIssuesCompared, Ours
<1>9. ASSUME NEW p \in inflight'
      PROVE  /\ \A i \in DOMAIN filed' : filed'[i].request # p.request
             /\ \A q \in inflight' : p.by = q.by \/ p.request = q.request => p = q
             /\ (\A i \in DOMAIN filed' : filed'[i].by = p.by => filed'[i].request \in Seen(p.read))
  BY <1>3, <1>4, <1>5, <1>9 DEF FiledHolds, Compared
<1>10. FiledHolds'
  BY <1>6, <1>8, <1>9 DEF FiledHolds, Compared, Seen
<1>11. ASSUME NEW q \in Requests
       PROVE  /\ q # r /\ (Posted(q))' => Posted(q)
              /\ q # r \/ by # "person" => ((Copied(q))' => Copied(q))
  BY <1>3, <1>5 DEF Posted, Copied, Ours
<1>12. ASSUME NEW work, by # work, Compared(work, Seen(bot.read)), NEW i \in DOMAIN filed',
              filed'[i].by = work
       PROVE  filed'[i].request \in Seen(bot.read)
  BY <1>3, <1>5, <1>12 DEF Compared
<1> QED  BY <1>4, <1>5, <1>10, <1>11, <1>12

\* What the states know of the findings, when GitHub has learnt of one more.
LEMMA KnowsStill ==
    ASSUME FinderInv, NEW m, StateHolds(m), NEW r \in Requests, Status(m, r) \in {"posting", "submitted"},
           \A q \in Requests : /\ q # r /\ (Posted(q))' => Posted(q)
                               /\ (Copied(q))' => Copied(q),
           \A p \in inflight' : p \in inflight
    PROVE  (StateHolds(m))'
<1>1. (Shaped(m))'
  BY DEF StateHolds, Shaped, Status
<1>2. (Knows(m))'
  BY DEF StateHolds, Knows, Status
<1>3. (Awaits(m))'
  BY DEF StateHolds, Awaits, Status
<1> QED  BY <1>1, <1>2, <1>3 DEF StateHolds

LEMMA PostIs ==
    ASSUME FinderInv, bot.pc = "post"
    PROVE  /\ bot.cand \in Requests /\ bot.read \in SUBSET Versions
           /\ bot.job \in {"scan", "publish"} /\ bot.prior \in {"pending", "dry_run"}
           /\ saved = mem /\ Status(mem, bot.cand) = "posting"
           /\ ~Posted(bot.cand) /\ ~Copied(bot.cand)
           /\ Compared(bot.job, Seen(bot.read))
           /\ \A i \in DOMAIN filed : filed[i].request # bot.cand
           /\ \A p \in inflight : p.request # bot.cand /\ p.by # bot.job
           /\ mem.cands[bot.cand].place # "none"
BY TypesAre DEF BotHolds, Bots, Posted, Copied, Ours

\* Saves, from a state where file and copy agree.
LEMMA FromAgreed ==
    ASSUME saved = mem, NEW m, Follows(mem, m), mem' = m, saved' \in {saved, m}
    PROVE  (Behind(saved, mem))' /\ KeepsDecisions
BY DEF Behind, KeepsDecisions, Follows, Undecided, Status

LEMMA FinderCreates == FinderInv /\ Create => StepHolds
<1> SUFFICES ASSUME FinderInv, Create PROVE StepHolds
  OBVIOUS
<1> DEFINE r == bot.cand
           m == WithStatus(mem, r, "submitted")
           n == WithStatus(mem, r, bot.prior)
           x == [request |-> r, read |-> bot.read, by |-> bot.job]
<1>1. /\ r \in Requests /\ bot.read \in SUBSET Versions
      /\ bot.job \in {"scan", "publish"} /\ bot.prior \in {"pending", "dry_run"}
      /\ saved = mem /\ Status(mem, r) = "posting" /\ ~Posted(r) /\ ~Copied(r)
      /\ Compared(bot.job, Seen(bot.read))
      /\ \A i \in DOMAIN filed : filed[i].request # r
      /\ \A p \in inflight : p.request # r /\ p.by # bot.job
      /\ mem.cands[r].place # "none" /\ bot.pc = "post"
  BY PostIs DEF Create
<1>2. kind' = kind /\ head' = head /\ edits' = edits /\ runs' = runs
  BY DEF Create
<1>3. ASSUME filed' = Landed(r, bot.read, bot.job), inflight' = inflight
      PROVE  /\ filed' \in Seq(Issues) /\ inflight' \in SUBSET InFlights /\ FiledHolds'
             /\ \A q \in Requests : /\ q # r /\ (Posted(q))' => Posted(q)
                                    /\ (Copied(q))' => Copied(q)
  <2>1. bot.job \in {"scan", "publish", "person"} /\ bot.job # "person"
    BY <1>1
  <2>2. inflight' \in SUBSET inflight /\ \A p \in inflight' : p.request # r /\ p.by # bot.job
    BY <1>1, <1>3
  <2> QED  BY <1>1, <1>3, <2>1, <2>2, Files
<1>4. CASE /\ filed' = Landed(r, bot.read, bot.job) /\ inflight' = inflight
           /\ SaveAndGo(m, Returns, "failing")
  <2>1. /\ m \in States /\ m.scan = mem.scan
        /\ \A q \in Requests :
              /\ m.cands[q].place = mem.cands[q].place
              /\ Status(m, q) = IF q = r THEN "submitted" ELSE Status(mem, q)
    BY <1>1, WithStatusIs, TypesAre DEF FindingStatuses
  <2>2. StateHolds(m)
    BY <1>1, StatusHolds, TypesAre DEF FindingStatuses
  <2>3. Follows(mem, m)
    BY <1>1, StatusFollows, TypesAre DEF FindingStatuses
  <2>4. \/ Saves(m, Returns)
        \/ SaveFails(m, "failing")
    BY <1>4 DEF SaveAndGo
  <2> HIDE DEF m
  <2>5. StateHolds(mem) /\ Status(m, r) = "submitted"
    BY <1>1, <2>1, TypesAre
  <2>6. ASSUME NEW y, y = m \/ y = mem PROVE (StateHolds(y))'
    <3>1. StateHolds(y) /\ Status(y, r) \in {"posting", "submitted"}
      BY <1>1, <2>2, <2>5, <2>6
    <3> QED  BY <1>1, <1>3, <1>4, <3>1, KnowsStill
  <2>8. mem' = m /\ saved' \in {mem, m}
    BY <1>1, <2>4 DEF Saves, SaveFails
  <2>9. (StateHolds(mem))' /\ (StateHolds(saved))'
    <3>1. ASSUME NEW y, y \in {m, mem} PROVE (StateHolds(y))'
      BY <2>6, <3>1
    <3>2. mem' \in {m, mem} /\ saved' \in {m, mem}
      BY <2>8
    <3> QED  BY <3>1, <3>2 DEF StateHolds, Shaped, Knows, Awaits, Status, Posted, Copied, Ours
  <2>10. (Behind(saved, mem))' /\ KeepsDecisions
    BY <1>1, <2>3, <2>8, FromAgreed
  <2>11. bot' \in Bots /\ BotHolds'
    <3>1. CASE Saves(m, Returns)
      <4>1. Goto(Returns) /\ Returns \in Places
        BY <3>1 DEF Saves, Returns, Places
      <4>2. bot.job = "scan" => NonePosting(m)
        BY <1>1, <2>1, TypesAre DEF BotHolds, NonePosting
      <4>3. Status(m, bot.cand) # "posting"
        BY <1>1, <2>1
      <4> QED  BY <1>1, <2>1, <2>8, <4>1, <4>2, <4>3, Returned, GotoIs, TypesAre
    <3>2. CASE SaveFails(m, "failing")
      BY <3>2, GotoIs, FinderIdle, TypesAre DEF SaveFails, Places
    <3> QED  BY <2>4, <3>1, <3>2
  <2>12. faults' \in 0..MaxFaults
    BY <2>4, FaultIs, TypesAre DEF Saves, SaveFails
  <2>13. FinderTypes'
    BY <1>2, <1>3, <1>4, <2>1, <2>8, <2>11, <2>12, TypesAre DEF FinderTypes
  <2> QED  BY <1>3, <1>4, <2>9, <2>10, <2>11, <2>13 DEF StepHolds, FinderInv
<1>5. CASE FinderFault /\ Goto("failing") /\ saved' = saved
           /\ mem' = n /\ UNCHANGED <<filed, inflight>>
  <2>1. bot.prior \in FindingStatuses
    BY <1>1 DEF FindingStatuses
  <2>2. n \in States
    BY <1>1, <2>1, WithStatusIs, TypesAre
  <2>3. StateHolds(n)
    BY <1>1, <2>1, StatusHolds, TypesAre
  <2>4. Follows(mem, n)
    BY <1>1, <2>1, StatusFollows, TypesAre
  <2> HIDE DEF n
  <2>5. bot' \in Bots /\ BotHolds' /\ faults' \in 0..MaxFaults
    BY <1>5, GotoIs, FinderIdle, FaultIs, TypesAre DEF Places
  <2> QED  BY <1>2, <1>5, <2>2, <2>3, <2>4, <2>5, Keeps, TypesAre
<1>6. CASE FinderFault /\ Goto("failing") /\ saved' = saved
           /\ filed' = Landed(r, bot.read, bot.job) /\ UNCHANGED <<mem, inflight>>
  <2>1. bot' \in Bots /\ BotHolds' /\ faults' \in 0..MaxFaults
    BY <1>6, GotoIs, FinderIdle, FaultIs, TypesAre DEF Places
  <2>2. ASSUME NEW y, y = mem PROVE (StateHolds(y))'
    <3>1. StateHolds(y) /\ Status(y, r) = "posting"
      BY <1>1, <2>2, TypesAre
    <3> QED  BY <1>1, <1>3, <1>6, <3>1, KnowsStill
  <2>3. (StateHolds(mem))' /\ (StateHolds(saved))'
    BY <1>1, <1>6, <2>2 DEF StateHolds, Shaped, Knows, Awaits, Status, Posted, Copied, Ours
  <2>4. (Behind(saved, mem))' /\ KeepsDecisions
    BY <1>1, <1>6 DEF Behind, KeepsDecisions, Undecided, Status
  <2>5. FinderTypes'
    BY <1>2, <1>3, <1>6, <2>1, TypesAre DEF FinderTypes
  <2> QED  BY <1>3, <1>6, <2>1, <2>3, <2>4, <2>5 DEF StepHolds, FinderInv
<1>7. CASE FinderFault /\ Goto("failing") /\ saved' = saved
           /\ inflight' = inflight \cup {x} /\ UNCHANGED <<mem, filed>>
  <2>1. bot' \in Bots /\ BotHolds' /\ faults' \in 0..MaxFaults
    BY <1>7, GotoIs, FinderIdle, FaultIs, TypesAre DEF Places
  <2>2. x \in InFlights /\ x.request = r /\ x.read = bot.read /\ x.by = bot.job
    BY <1>1 DEF InFlights
  <2> HIDE DEF x
  <2>3. FiledHolds'
    <3>1. ASSUME NEW p \in inflight'
          PROVE  /\ \A i \in DOMAIN filed : filed[i].request # p.request
                 /\ \A q \in inflight' : p.by = q.by \/ p.request = q.request => p = q
                 /\ Compared(p.by, Seen(p.read))
      BY <1>1, <1>7, <2>2, TypesAre DEF FiledHolds
    <3>2. /\ \A i, j \in DOMAIN filed' : filed'[i].request = filed'[j].request => i = j
          /\ OwnIssuesCompared'
      BY <1>7, TypesAre DEF FiledHolds, OwnIssuesCompared, Ours
    <3> QED  BY <1>7, <3>1, <3>2 DEF FiledHolds, Compared, Seen
  <2>4. /\ bot.job = "scan" => mem.cands[r].place = "scan"
        /\ bot.job = "publish" => mem.publication = r
    BY <1>1, TypesAre DEF BotHolds
  <2>5. ASSUME NEW y, y = mem PROVE (StateHolds(y))'
    <3>1. StateHolds(y) /\ Status(y, r) = "posting"
      BY <1>1, <2>5, TypesAre
    <3>2. (Shaped(y))'
      BY <3>1 DEF StateHolds, Shaped, Status
    <3>3. (Knows(y))'
      BY <1>7, <2>2, <3>1 DEF StateHolds, Knows, Status, Posted, Copied, Ours
    <3>4. (Awaits(y))'
      BY <1>7, <2>2, <2>4, <2>5, <3>1 DEF StateHolds, Awaits, Status
    <3> QED  BY <3>2, <3>3, <3>4 DEF StateHolds
  <2>6. (StateHolds(mem))' /\ (StateHolds(saved))'
    BY <1>1, <1>7, <2>5 DEF StateHolds, Shaped, Knows, Awaits, Status, Posted, Copied, Ours
  <2>7. (Behind(saved, mem))' /\ KeepsDecisions
    BY <1>1, <1>7 DEF Behind, KeepsDecisions, Undecided, Status
  <2>8. FinderTypes'
    BY <1>2, <1>7, <2>1, <2>2, TypesAre DEF FinderTypes
  <2> QED  BY <2>1, <2>3, <2>6, <2>7, <2>8 DEF StepHolds, FinderInv
<1> QED  BY <1>4, <1>5, <1>6, <1>7 DEF Create

LEMMA PublishedKeeps == FinderInv /\ Published => StepHolds
<1> SUFFICES ASSUME FinderInv, Published PROVE StepHolds
  OBVIOUS
<1> DEFINE m == Closed(mem, bot.cand)
<1>1. /\ OthersRest /\ bot.cand \in Requests /\ Status(mem, bot.cand) # "posting"
      /\ SaveAndGo(m, "off", "off")
  BY TypesAre DEF Published, AtStep, BotHolds, Completes
<1>2. m \in States /\ StateHolds(m) /\ Follows(mem, m)
  BY <1>1, ClosedIs, ClosedHolds, TypesAre
<1> HIDE DEF m
<1>3. Goto("off") => BotHolds'
  BY GotoIs, TypesAre, FinderIdle DEF Places
<1> QED  BY <1>1, <1>2, <1>3, FinderSaves DEF Places

-----------------------------------------------------------------------------
\* The commands.

LEMMA CommandIs ==
    ASSUME FinderInv, Command
    PROVE  /\ UNCHANGED <<kind, filed, inflight>> /\ head' \in 1..MaxMoves
           /\ edits' \in 0..MaxEdits /\ runs' \in 0..MaxRuns
<1>1. runs \in 0..MaxRuns /\ runs < MaxRuns /\ runs' = runs + 1
  BY TypesAre DEF Command
<1>2. runs' \in 0..MaxRuns
  BY <1>1, FinderNumbers
<1> QED  BY <1>2, TypesAre DEF Command

LEMMA CommandSaves ==
    ASSUME FinderInv, Command, NEW m \in States, StateHolds(m), Follows(mem, m),
           SaveAndGo(m, "off", "off")
    PROVE  StepHolds
<1>1. mem' = m /\ saved' \in {saved, m} /\ Goto("off")
  BY DEF SaveAndGo, Saves, SaveFails
<1>2. faults' \in 0..MaxFaults
  BY FaultIs, TypesAre DEF SaveAndGo, Saves, SaveFails
<1>3. bot' \in Bots /\ BotHolds'
  BY <1>1, GotoIs, FinderIdle, TypesAre DEF Places
<1> QED  BY <1>1, <1>2, <1>3, CommandIs, Keeps

LEMMA RetryKeeps == FinderInv /\ Retry => StepHolds
<1> SUFFICES ASSUME FinderInv, Retry PROVE StepHolds
  OBVIOUS
<1> DEFINE k == 0
           m == [mem EXCEPT !.scan.tries = k]
<1>1. Command /\ SaveAndGo(m, "off", "off")
  BY DEF Retry
<1>2. k \in 0..Attempts
  BY FinderNumbers
<1> HIDE DEF k
<1>3. /\ m \in States /\ m.scan.on = mem.scan.on
      /\ m.cands = mem.cands /\ m.publication = mem.publication
      /\ \A r \in Requests : Status(m, r) = Status(mem, r)
  BY <1>2, TriesIs, TypesAre
<1> HIDE DEF m
<1>4. StateHolds(m) /\ Follows(mem, m)
  BY <1>3, SameFindings, TypesAre
<1> QED  BY <1>1, <1>3, <1>4, CommandSaves

LEMMA PublishReconcilesKeeps ==
    ASSUME FinderInv, NEW r \in Requests, PublishReconciles(r) PROVE StepHolds
<1> DEFINE n == WithStatus(mem, r, "submitted")
           m == Closed(n, r)
<1>1. Command /\ SaveAndGo(m, "off", "off") /\ Status(mem, r) = "posting" /\ Carries(r)
      /\ mem.cands[r].place # "none"
  BY DEF PublishReconciles, Completes, Status
<1>2. Posted(r) /\ ~Copied(r) /\ \A p \in inflight : p.request # r
  BY <1>1, PostedIsOurs, TypesAre
<1>3. n \in States /\ Status(n, r) = "submitted"
  BY WithStatusIs, TypesAre DEF FindingStatuses
<1>4. StateHolds(n)
  BY <1>1, <1>2, StatusHolds, TypesAre DEF FindingStatuses
<1>5. Follows(mem, n)
  BY <1>1, StatusFollows, TypesAre DEF FindingStatuses
<1> HIDE DEF n
<1>6. m \in States /\ StateHolds(m) /\ Follows(n, m)
  BY <1>3, <1>4, ClosedIs, ClosedHolds, TypesAre
<1> HIDE DEF m
<1>7. Follows(mem, m)
  BY <1>5, <1>6 DEF Follows, Undecided, Decided
<1> QED  BY <1>1, <1>6, <1>7, CommandSaves

LEMMA PublishResumedKeeps ==
    ASSUME FinderInv, NEW r \in Requests, PublishResumed(r) PROVE StepHolds
<1> DEFINE m == Closed(mem, r)
<1>1. Command /\ SaveAndGo(m, "off", "off") /\ Status(mem, r) # "posting"
  BY DEF PublishResumed, Completes, Status
<1>2. m \in States /\ StateHolds(m) /\ Follows(mem, m)
  BY <1>1, ClosedIs, ClosedHolds, TypesAre
<1> HIDE DEF m
<1> QED  BY <1>1, <1>2, CommandSaves

LEMMA PublishFindingKeeps ==
    ASSUME FinderInv, mem = saved, bot = Off, NEW r \in Requests, PublishFinding(r)
    PROVE  StepHolds
<1> DEFINE m == IF mem.publication = r THEN mem
                ELSE [mem EXCEPT !.publication = r, !.cands[r].checked = {}]
           b == [Off EXCEPT !.pc = "review", !.job = "publish", !.cand = r,
                            !.left = Refreshes, !.prior = "dry_run"]
<1>1. /\ Command /\ kind = "feature" /\ ~UnresolvedChoice(mem)
      /\ mem.cands[r].place = "completed" /\ Status(mem, r) = "dry_run"
      /\ \/ mem' = m /\ saved' = m /\ bot' = b /\ UNCHANGED faults
         \/ FinderFault /\ saved' \in {saved, m} /\ mem' = saved' /\ UNCHANGED bot
  BY DEF PublishFinding, Status
<1>2. /\ m \in States /\ m.scan = mem.scan /\ m.publication = r
      /\ \A q \in Requests : /\ m.cands[q].place = mem.cands[q].place
                             /\ Status(m, q) = Status(mem, q)
  <2>1. CASE mem.publication = r
    BY <2>1, TypesAre
  <2>2. CASE mem.publication # r
    <3> DEFINE n == [mem EXCEPT !.publication = r, !.cands[r].checked = {}]
    <3>1. m = n
      BY <2>2
    <3>2. /\ n \in States /\ n.scan = mem.scan /\ n.publication = r
          /\ \A q \in Requests :
                n.cands[q].place = mem.cands[q].place /\ Status(n, q) = Status(mem, q)
      BY SelectedIs, TypesAre
    <3> HIDE DEF n, m
    <3> QED  BY <3>1, <3>2
  <2> QED  BY <2>1, <2>2
<1>3. ASSUME NEW p \in inflight, p.by = "publish" PROVE FALSE
  <2>1. p.request \in Requests /\ p.request # 0
    BY TypesAre, FinderNumbers DEF InFlights, Requests
  <2>2. mem.publication = p.request /\ Status(mem, p.request) = "posting"
    BY <1>3, TypesAre DEF StateHolds, Awaits
  <2> QED  BY <1>1, <2>1, <2>2 DEF UnresolvedChoice, Status
<1> HIDE DEF m
<1>4. StateHolds(m) /\ Follows(mem, m)
  BY <1>2, <1>3, SameFindings, TypesAre
<1>5. b \in Bots /\ b.pc = "review" /\ b.job = "publish" /\ b.cand = r /\ b.prior = "dry_run"
      /\ b.dry = FALSE
  <2>1. r \in 0..MaxRequests /\ 0 \in 0..MaxMoves /\ Refreshes \in 0..Refreshes
    BY FinderNumbers DEF Requests
  <2>2. Off \in Bots /\ Off.dry = FALSE
    BY OffIs DEF Off
  <2> QED  BY <2>1, <2>2 DEF Bots, Places
<1> HIDE DEF b
<1>6. CASE mem' = m /\ saved' = m /\ bot' = b /\ UNCHANGED faults
  <2>1. kind' = "feature"
    BY <1>1 DEF Command
  <2>2. /\ mem'.publication = r /\ mem'.cands[r].place = "completed"
        /\ mem'.cands[r].status = "dry_run"
    BY <1>1, <1>2, <1>6 DEF Status
  <2>3. BotHolds'
    BY <1>5, <1>6, <2>1, <2>2 DEF BotHolds, Reviewing, Status
  <2> QED  BY <1>1, <1>2, <1>4, <1>5, <1>6, <2>3, CommandIs, Keeps, TypesAre
<1>7. CASE FinderFault /\ saved' \in {saved, m} /\ mem' = saved' /\ UNCHANGED bot
  <2>1. bot' \in Bots /\ BotHolds'
    BY <1>7, OffIs, FinderIdle DEF Off
  <2>2. faults' \in 0..MaxFaults
    BY <1>7, FaultIs
  <2>3. CASE mem' = m
    BY <1>1, <1>2, <1>4, <1>7, <2>1, <2>2, <2>3, CommandIs, Keeps
  <2>4. CASE mem' = mem
    BY <1>1, <1>7, <2>1, <2>2, <2>4, CommandIs, FinderStays, TypesAre
  <2> QED  BY <1>7, <2>3, <2>4
<1> QED  BY <1>1, <1>6, <1>7

LEMMA CommandsKeep == FinderInv /\ Commands => StepHolds
BY RetryKeeps, PublishReconcilesKeeps, PublishResumedKeeps, PublishFindingKeeps DEF Commands

-----------------------------------------------------------------------------
\* Restarts, GitHub and people.

LEMMA ForgetKeeps ==
    ASSUME FinderInv, Forget, faults' \in 0..MaxFaults PROVE StepHolds
<1>1. bot' \in Bots /\ BotHolds'
  BY OffIs, FinderIdle DEF Forget, Off
<1> QED  BY <1>1, Forgets, TypesAre DEF Forget

LEMMA FinderEnds == FinderInv /\ (Exit \/ Crash \/ Settle) => StepHolds
<1> SUFFICES ASSUME FinderInv, Exit \/ Crash \/ Settle PROVE StepHolds
  OBVIOUS
<1>1. Forget /\ faults' \in 0..MaxFaults
  BY FaultIs, TypesAre DEF Exit, Crash, Settle
<1> QED  BY <1>1, ForgetKeeps

\* The file and the copy are left alone.
LEMMA SameFile ==
    ASSUME FinderInv, UNCHANGED <<saved, mem>>
    PROVE  (Behind(saved, mem))' /\ KeepsDecisions
BY TypesAre DEF FinderInv, Behind, KeepsDecisions, Undecided, Status

LEMMA LandsKeeps == FinderInv /\ Lands => StepHolds
<1> SUFFICES ASSUME FinderInv, Lands PROVE StepHolds
  OBVIOUS
<1>1. PICK p \in inflight : /\ filed' = Landed(p.request, p.read, p.by)
                            /\ inflight' = inflight \ {p}
  BY DEF Lands
<1>2. UNCHANGED <<kind, head, edits, saved, mem, bot, faults, runs>>
  BY DEF Lands
<1>3. /\ p \in InFlights /\ p.request \in Requests /\ p.read \in SUBSET Versions
      /\ p.by \in {"scan", "publish"}
  BY TypesAre DEF InFlights
<1>4. /\ \A i \in DOMAIN filed : filed[i].request # p.request
      /\ \A q \in inflight : p.by = q.by \/ p.request = q.request => p = q
      /\ Compared(p.by, Seen(p.read))
  BY TypesAre DEF FiledHolds
<1> DEFINE r == p.request
           by == p.by
           read == p.read
<1>5. /\ inflight' \in SUBSET inflight /\ \A q \in inflight' : q.request # r /\ q.by # by
      /\ by \in {"scan", "publish", "person"} /\ by # "person" /\ r \in Requests
      /\ read \in SUBSET Versions /\ Compared(by, Seen(read))
      /\ \A i \in DOMAIN filed : filed[i].request # r
      /\ filed' = Landed(r, read, by)
  BY <1>1, <1>3, <1>4
<1> HIDE DEF r, by, read
<1>6. /\ filed' \in Seq(Issues) /\ inflight' \in SUBSET InFlights /\ FiledHolds'
      /\ \A q \in Requests :
            /\ q # r /\ (Posted(q))' => Posted(q)
            /\ q # r \/ by # "person" => ((Copied(q))' => Copied(q))
      /\ \A work : by # work => (Compared(work, Seen(bot.read)) =>
            \A i \in DOMAIN filed' :
                filed'[i].by = work => filed'[i].request \in Seen(bot.read))
  BY <1>5, Files
<1>7. Status(mem, r) = "posting" /\ Status(saved, r) = "posting"
  BY TypesAre DEF StateHolds, Awaits, r
<1>8. ASSUME NEW y, y \in {mem, saved} PROVE (StateHolds(y))'
  <2>1. StateHolds(y) /\ Status(y, r) = "posting"
    BY <1>7, <1>8, TypesAre
  <2> QED  BY <1>5, <1>6, <2>1, KnowsStill
<1>9. (StateHolds(mem))' /\ (StateHolds(saved))'
  BY <1>2, <1>8 DEF StateHolds, Shaped, Knows, Awaits, Status, Posted, Copied, Ours
<1>10. FinderTypes'
  BY <1>2, <1>6, TypesAre DEF FinderTypes
<1>11. (Behind(saved, mem))' /\ KeepsDecisions
  BY <1>2, SameFile
<1>12. BotHolds'
  <2>1. CASE bot.pc # "post"
    BY <1>2, <2>1, TypesAre DEF BotHolds, Status, NonePosting
  <2>2. CASE bot.pc = "post"
    <3>1. bot.cand \in Requests /\ ~Posted(bot.cand) /\ ~Copied(bot.cand) /\ bot.cand # r
          /\ by # bot.job /\ Compared(bot.job, Seen(bot.read))
          /\ \A q \in inflight' : q.by # bot.job
      BY <1>5, <2>2, PostIs DEF r, by
    <3>2. ~(Posted(bot.cand))' /\ ~(Copied(bot.cand))'
      <4>1. \A q \in Requests : /\ q # r /\ (Posted(q))' => Posted(q)
                                /\ (Copied(q))' => Copied(q)
        BY <1>5, <1>6
      <4>2. ASSUME NEW c \in Requests, c = bot.cand PROVE ~(Posted(c))' /\ ~(Copied(c))'
        BY <3>1, <4>1, <4>2
      <4> QED  BY <1>2, <3>1, <4>2 DEF Posted, Copied, Ours
    <3>3. (Compared(bot.job, Seen(bot.read)))'
      BY <1>2, <1>6, <3>1 DEF Compared, Seen
    <3> QED  BY <1>2, <2>2, <3>1, <3>2, <3>3, TypesAre DEF BotHolds, Status, Reviewing
  <2> QED  BY <2>1, <2>2
<1> QED  BY <1>6, <1>9, <1>10, <1>11, <1>12 DEF StepHolds, FinderInv

LEMMA CopyBodyKeeps ==
    ASSUME FinderInv, NEW r \in Requests, CopyBody(r) PROVE StepHolds
<1>1. /\ UNCHANGED <<kind, head, inflight, saved, mem, bot, faults, runs>>
      /\ Status(saved, r) = "dry_run" /\ ~Carries(r) /\ filed' = Landed(r, {}, "person")
  BY DEF CopyBody, Status
<1>2. edits' \in 0..MaxEdits
  <2>1. edits \in 0..MaxEdits /\ edits < MaxEdits /\ edits' = edits + 1
    BY TypesAre DEF CopyBody
  <2> QED  BY <2>1, FinderNumbers
<1>3. Status(mem, r) \notin Undecided
  BY <1>1 DEF FinderInv, Behind
<1>4. \A p \in inflight : p.request # r /\ p.by # "person"
  BY <1>1, TypesAre DEF StateHolds, Awaits, InFlights
<1>5. /\ filed' \in Seq(Issues) /\ inflight' \in SUBSET InFlights /\ FiledHolds'
      /\ \A q \in Requests :
            /\ q # r /\ (Posted(q))' => Posted(q)
            /\ q # r => ((Copied(q))' => Copied(q))
      /\ \A work : "person" # work => (Compared(work, Seen(bot.read)) =>
            \A i \in DOMAIN filed' :
                filed'[i].by = work => filed'[i].request \in Seen(bot.read))
  <2>1. \A i \in DOMAIN filed : filed[i].request # r
    BY <1>1 DEF Carries
  <2>2. inflight' \in SUBSET inflight /\ \A p \in inflight' : p.request # r /\ p.by # "person"
    BY <1>1, <1>4
  <2>3. {} \in SUBSET Versions /\ "person" \in {"scan", "publish", "person"}
    OBVIOUS
  <2> QED  BY <1>1, <2>1, <2>2, <2>3, Files
<1>6. ~(Posted(r))'
  <2>1. filed \in Seq(Issues) /\ filed' = Append(filed, [request |-> r, by |-> "person",
                                                         seen |-> Seen({})])
    BY <1>1, TypesAre DEF Landed, Seen
  <2>2. ASSUME NEW i \in DOMAIN filed', filed'[i].request = r PROVE filed'[i].by = "person"
    <3>1. \A j \in DOMAIN filed : filed[j].request # r
      BY <1>1 DEF Carries
    <3> QED  BY <2>1, <2>2, <3>1
  <2> QED  BY <1>1, <1>4, <2>2 DEF Posted, Ours
<1>7. ASSUME NEW y, StateHolds(y), Status(y, r) \notin Undecided PROVE (StateHolds(y))'
  <2>1. (Shaped(y))'
    BY <1>7 DEF StateHolds, Shaped, Status
  <2>2. (Knows(y))'
    BY <1>5, <1>6, <1>7 DEF StateHolds, Knows, Status, Undecided
  <2>3. (Awaits(y))'
    BY <1>1, <1>7 DEF StateHolds, Awaits, Status
  <2> QED  BY <2>1, <2>2, <2>3 DEF StateHolds
<1>8. (StateHolds(mem))' /\ (StateHolds(saved))'
  <2>1. ASSUME NEW y, y \in {mem, saved} PROVE (StateHolds(y))'
    <3>1. StateHolds(y) /\ Status(y, r) \notin Undecided
      BY <1>1, <1>3, <2>1, TypesAre DEF Undecided
    <3> QED  BY <1>7, <3>1
  <2> QED  BY <1>1, <2>1 DEF StateHolds, Shaped, Knows, Awaits, Status, Posted, Copied, Ours
<1>9. FinderTypes'
  BY <1>1, <1>2, <1>5, TypesAre DEF FinderTypes
<1>10. (Behind(saved, mem))' /\ KeepsDecisions
  BY <1>1, SameFile
<1>11. BotHolds'
  <2>1. CASE bot.pc # "post"
    BY <1>1, <2>1, TypesAre DEF BotHolds, Status, NonePosting
  <2>2. CASE bot.pc = "post"
    <3>1. /\ bot.cand \in Requests /\ ~Posted(bot.cand) /\ ~Copied(bot.cand)
          /\ Status(mem, bot.cand) = "posting" /\ bot.job # "person"
          /\ Compared(bot.job, Seen(bot.read)) /\ \A q \in inflight' : q.by # bot.job
      BY <1>1, <2>2, PostIs
    <3>2. bot.cand # r
      BY <1>3, <3>1 DEF Undecided
    <3>3. ~(Posted(bot.cand))' /\ ~(Copied(bot.cand))'
      <4>1. ASSUME NEW c \in Requests, c = bot.cand PROVE ~(Posted(c))' /\ ~(Copied(c))'
        BY <1>5, <3>1, <3>2, <4>1
      <4> QED  BY <1>1, <3>1, <4>1 DEF Posted, Copied, Ours
    <3>4. (Compared(bot.job, Seen(bot.read)))'
      BY <1>1, <1>5, <3>1 DEF Compared, Seen
    <3> QED  BY <1>1, <2>2, <3>1, <3>3, <3>4, TypesAre DEF BotHolds, Status, Reviewing
  <2> QED  BY <2>1, <2>2
<1> QED  BY <1>5, <1>8, <1>9, <1>10, <1>11 DEF StepHolds, FinderInv

\* A step that the bot, its file and its requests have no part in.
LEMMA Elsewhere ==
    ASSUME FinderInv, UNCHANGED <<kind, filed, inflight, saved, mem, bot, faults, runs>>,
           head' \in 1..MaxMoves, edits' \in 0..MaxEdits
    PROVE  StepHolds
<1>1. BotHolds'
  BY TypesAre DEF BotHolds, Status, NonePosting, Posted, Copied, Ours, Compared, Seen
<1> QED  BY <1>1, FinderStays, TypesAre

LEMMA PushKeeps == FinderInv /\ (Push \/ WriteIssue) => StepHolds
<1> SUFFICES ASSUME FinderInv, Push \/ WriteIssue PROVE StepHolds
  OBVIOUS
<1>1. head \in 1..MaxMoves /\ edits \in 0..MaxEdits
  BY TypesAre
<1>2. CASE Push
  <2>1. head' \in 1..MaxMoves
    BY <1>1, <1>2, FinderNumbers DEF Push
  <2> QED  BY <1>1, <1>2, <2>1, Elsewhere DEF Push
<1>3. CASE WriteIssue
  <2>1. edits' \in 0..MaxEdits
    BY <1>1, <1>3, FinderNumbers DEF WriteIssue
  <2> QED  BY <1>1, <1>3, <2>1, Elsewhere DEF WriteIssue
<1> QED  BY <1>2, <1>3

-----------------------------------------------------------------------------
\* The whole.

LEMMA FinderStarts == FinderInit => FinderInv
<1> SUFFICES ASSUME FinderInit PROVE FinderInv
  OBVIOUS
<1>1. NoState \in States
  <2>1. NoFinding \in Candidates
    BY FinderNumbers DEF NoFinding, Candidates, FindingStatuses
  <2>2. NoScan \in Scans /\ NotYet \in [commit : 0..MaxMoves, dry : BOOLEAN]
        /\ 0 \in 0..MaxRequests
    BY FinderNumbers DEF NoScan, Scans, NotYet
  <2> QED  BY <2>1, <2>2 DEF NoState, States
<1>2. FinderTypes
  <2>1. filed \in Seq(Issues) /\ inflight \in SUBSET InFlights
    BY DEF FinderInit
  <2>2. head \in 1..MaxMoves /\ edits \in 0..MaxEdits /\ faults \in 0..MaxFaults
        /\ runs \in 0..MaxRuns
    BY FinderNumbers DEF FinderInit
  <2> QED  BY <1>1, <2>1, <2>2, OffIs DEF FinderInit, FinderTypes
<1>3. FiledHolds
  BY DEF FinderInit, FiledHolds, OwnIssuesCompared
<1>4. StateHolds(mem) /\ StateHolds(saved) /\ Behind(saved, mem)
  BY DEF FinderInit, StateHolds, Shaped, Knows, Awaits, Posted, Copied, Status, NoState,
         NoFinding, Behind, Undecided, Decided
<1>5. BotHolds
  BY DEF FinderInit, BotHolds, Off, Reviewing
<1> QED  BY <1>2, <1>3, <1>4, <1>5 DEF FinderInv

LEMMA FinderSteps == FinderInv /\ [FinderNext]_finderbot => FinderInv' /\ [KeepsDecisions]_finderbot
<1> SUFFICES ASSUME FinderInv, [FinderNext]_finderbot PROVE FinderInv' /\ [KeepsDecisions]_finderbot
  OBVIOUS
<1>1. CASE FinderNext
  <2>1. StepHolds
    BY <1>1, StartKeeps, ReconcileKeeps, FinishDecidedKeeps, LookKeeps, FetchKeeps,
       BugRestsKeeps, NewScanKeeps, CountKeeps, DiscoverKeeps, AgentBreaksKeeps,
       NextFindingKeeps, FinderFails, ReadIssuesKeeps, BugBatchesKeeps, FeatureBatchKeeps,
       DeclinedKeeps, VerifyKeeps, FinderCreates, PublishedKeeps, CommandsKeep, FinderEnds,
       LandsKeeps, PushKeeps, CopyBodyKeeps DEF FinderNext
  <2> QED  BY <2>1 DEF StepHolds
<1>2. CASE UNCHANGED finderbot
  <2>1. UNCHANGED <<kind, filed, inflight, saved, mem, bot, faults, runs>>
        /\ head' = head /\ edits' = edits
    BY <1>2 DEF finderbot
  <2>2. StepHolds
    BY <2>1, Elsewhere, TypesAre
  <2> QED  BY <2>2 DEF StepHolds
<1> QED  BY <1>1, <1>2

LEMMA FinderSaysSo == FinderInv => FinderHolds
<1> SUFFICES ASSUME FinderInv PROVE FinderHolds
  OBVIOUS
<1>1. FinderTypeOK
  <2>1. \A i \in DOMAIN filed : filed[i] \in Issues
    BY TypesAre
  <2>2. /\ bot.pc \in Places /\ bot.cand \in 0..MaxRequests
        /\ bot.read \subseteq Versions /\ bot.left \in 0..Refreshes
    BY TypesAre DEF Bots
  <2> QED  BY <2>1, <2>2, TypesAre DEF FinderTypeOK, Issues
<1>2. OneIssuePerFinding /\ OwnIssuesCompared
  BY TypesAre DEF FiledHolds, OneIssuePerFinding
<1>3. SentIsSaved
  BY TypesAre DEF SentIsSaved, StateHolds, Knows, Posted, Status
<1> QED  BY <1>1, <1>2, <1>3 DEF FinderHolds

THEOREM FindingsAreFiledOnce == FinderSpec => []FinderHolds
<1>1. FinderSpec => []FinderInv
  BY FinderStarts, FinderSteps, PTL DEF FinderSpec
<1> QED  BY <1>1, FinderSaysSo, PTL

THEOREM DecisionsAreKept == FinderSpec => [][KeepsDecisions]_finderbot
<1>1. FinderSpec => []FinderInv
  BY FinderStarts, FinderSteps, PTL DEF FinderSpec
<1> QED  BY <1>1, FinderSteps, PTL DEF FinderSpec

-----------------------------------------------------------------------------
(***************************************************************************)
(* All of them.                                                            *)
(***************************************************************************)

\* A behaviour of MCBots is one of each of these bots, the ones that rest
\* included.
LEMMA BotsAreTheirs ==
    BotsSpec => HealthSpec /\ SimplifierSpec /\ ReleaseSpec /\ FinderSpec /\ GuideSpec
<1>1. BotsInit => HealthInit /\ SimplifierInit /\ ReleaseInit /\ FinderInit /\ GuideInit
  BY DEF BotsInit, ChecksRest, FinderRests, PostsRest
<1>2. [BotsNext]_vars => /\ [HealthNext]_branchhealth /\ [SimplifierNext]_simplifier
                         /\ [ReleaseNext]_releasebot /\ [FinderNext]_finderbot
                         /\ [GuideNext]_guide
  BY DEF BotsNext, vars, checkers, posts
<1> QED
  BY <1>1, <1>2, PTL
     DEF BotsSpec, HealthSpec, SimplifierSpec, ReleaseSpec, FinderSpec, GuideSpec

\* DoneOnce for any bounds: Release Bot publishes a release once and stays
\* within its attempts (resume), Bug and Feature Bot file a finding once
\* (reconcile), Guide answers a question and acts on its proposal once.
THEOREM BotsAreDoneOnce == BotsSpec => []DoneOnce
<1>1. /\ HealthTypeOK /\ SimplifierTypeOK /\ ReleaseHolds /\ FinderHolds /\ GuideHolds
      => DoneOnce
  BY DEF DoneOnce
<1> QED
  BY <1>1, BotsAreTheirs, HealthIsTyped, ScansAreTyped, ReleasesAreMadeOnce,
     FindingsAreFiledOnce, QuestionsAreAnsweredOnce, PTL

\* StepsHold for any bounds: what is recorded as released is, a decision on a
\* finding and an answer that is over stay, and no repair takes a commit away.
THEOREM BotStepsHold == BotsSpec => StepsHold
  BY BotsAreTheirs, RepairsKeepCommits, RecordedReleasesAreReal, DecisionsAreKept,
     AnswersAreFinal, PTL DEF StepsHold, NothingOverwritten
=============================================================================
