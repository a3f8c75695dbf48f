------------------------------ MODULE BotProofs -----------------------------
(***************************************************************************)
(* Theorems about the bots that keep small durable jobs and about the      *)
(* protocol that runs a bot, for any bounds: the branch repairs of Repo Bot *)
(* (BranchHealth), the scans of Simplifier Bot (SimplifierBot), a run over *)
(* the network (BotRun), the sessions of Mjolnir (ManagedRun), the reviews *)
(* of Review Bot (ReviewBot) and the conversation with Guide (Guide).      *)
(***************************************************************************)
EXTENDS BranchHealth, SimplifierBot, BotRun, ManagedRun, ReviewBot, Guide,
        FiniteSetTheorems, TLAPS

-----------------------------------------------------------------------------
\* BranchHealth: the attempts of a failing revision.

WatchPlaces == {"idle", "runs", "statuses", "agent", "push"}

\* The attempt in progress is the one that was saved for its revision.
AttemptsSaved ==
    /\ repairs \in [head : Nat, attempts : 0..MaxRepairs]
    /\ watch \in [pc : WatchPlaces, head : Nat, runs : Reports, attempts : Nat, made : Nat]
    /\ watch.pc \in {"agent", "push"} =>
          repairs = [head |-> watch.head, attempts |-> watch.attempts]

\* The branch is at c, or the run in progress is, and what is remembered of c is
\* nothing, or may be forgotten before the run comes to c: then c still has all
\* it was granted when the branch last came to it.
Watches(c) == watch.pc # "idle" /\ watch.head = c
Unspent(c) ==
    /\ tip = c \/ Watches(c)
    /\ repairs.head # c \/ (watch.pc # "idle" /\ watch.head # c)
GrantsHold ==
    /\ starts \in [1..MaxCommits -> Nat] /\ granted \in [1..MaxCommits -> Nat]
    /\ \A c \in 1..MaxCommits :
          /\ starts[c] <= granted[c]
          /\ repairs.head = c => starts[c] + MaxRepairs <= granted[c] + repairs.attempts
          /\ Unspent(c) => starts[c] + MaxRepairs <= granted[c]

\* The commits: what a commit is made of is made of commits it is made of.
ClosedPast ==
    /\ past \in Seq(Seq(Nat)) /\ Len(past) <= MaxCommits
    /\ tip \in Commits /\ Commits = DOMAIN checks
    /\ checks \in Seq([runs : Reports, statuses : Reports])
    /\ \A c \in Commits : c \in ToSet(past[c]) /\ ToSet(past[c]) \subseteq Commits
    /\ \A c \in Commits : \A b \in ToSet(past[c]) : ToSet(past[b]) \subseteq ToSet(past[c])
    /\ watch.pc # "idle" => watch.head \in Commits
    /\ watch.pc = "push" => watch.made \in Commits

LEMMA HealthStarts == HealthInit => AttemptsSaved /\ ClosedPast /\ GrantsHold
<1> SUFFICES ASSUME HealthInit PROVE AttemptsSaved /\ ClosedPast /\ GrantsHold
  OBVIOUS
<1>1. AttemptsSaved
  BY HealthConstants DEF HealthInit, AttemptsSaved, Forgotten, Quiet, WatchPlaces, Reports
<1>2. past = <<<<1>>>> /\ checks = <<Unsaid>> /\ tip = 1 /\ watch.pc = "idle"
  BY DEF HealthInit, Quiet
<1>3. Commits = {1} /\ DOMAIN checks = {1} /\ ToSet(past[1]) = {1}
  BY <1>2 DEF Commits, ToSet
<1>4. past \in Seq(Seq(Nat)) /\ checks \in Seq([runs : Reports, statuses : Reports])
  BY <1>2 DEF Unsaid, Reports
<1>5. ClosedPast
  BY <1>2, <1>3, <1>4, HealthConstants DEF ClosedPast
<1>6. GrantsHold
  <2>1. /\ starts = [c \in 1..MaxCommits |-> 0] /\ repairs.head = 0 /\ repairs.attempts = 0
        /\ granted = [c \in 1..MaxCommits |-> IF c = 1 THEN MaxRepairs ELSE 0]
    BY <1>2 DEF HealthInit, Forgotten
  <2> QED
    BY <1>2, <2>1, HealthConstants DEF GrantsHold, Unspent, Watches
<1> QED
  BY <1>1, <1>5, <1>6

\* A commit on top of another one.
LEMMA MadeOnTop ==
    ASSUME ClosedPast, NEW base \in Commits, Made(base)
    PROVE  /\ past' \in Seq(Seq(Nat)) /\ Len(past') = Len(past) + 1
           /\ Commits' = Commits \cup {Len(past')} /\ Commits' = DOMAIN checks'
           /\ checks' \in Seq([runs : Reports, statuses : Reports])
           /\ \A c \in Commits : past'[c] = past[c]
           /\ ToSet(past'[Len(past')]) = ToSet(past[base]) \cup {Len(past')}
<1>1. past[base] \in Seq(Nat) /\ Len(past) \in Nat /\ Commits = 1..Len(past)
  BY DEF ClosedPast, Commits
<1> DEFINE new == Append(past[base], Len(past) + 1)
<1>2. new \in Seq(Nat) /\ past' = Append(past, new) /\ Len(past') = Len(past) + 1
  BY <1>1 DEF Made, ClosedPast
<1>3. past'[Len(past')] = new /\ past' \in Seq(Seq(Nat))
      /\ \A c \in Commits : past'[c] = past[c]
  BY <1>1, <1>2 DEF ClosedPast
<1>4. Unsaid \in [runs : Reports, statuses : Reports]
  BY DEF Unsaid, Reports
<1>5. /\ checks' \in Seq([runs : Reports, statuses : Reports])
      /\ Len(checks) = Len(past) /\ Len(checks') = Len(checks) + 1
  <2> DEFINE R == [runs : Reports, statuses : Reports]
  <2>1. checks' = Append(checks, Unsaid) /\ checks \in Seq(R) /\ DOMAIN checks = 1..Len(past)
    BY <1>1 DEF Made, ClosedPast
  <2>2. Unsaid \in R
    BY <1>4
  <2> HIDE DEF R
  <2>3. Len(checks) \in Nat /\ DOMAIN checks = 1..Len(checks)
    BY <2>1
  <2>4. Len(checks) = Len(past)
    BY <1>1, <2>1, <2>3
  <2> QED
    BY <2>1, <2>2, <2>4 DEF R
<1>6. Commits' = Commits \cup {Len(past')} /\ Commits' = DOMAIN checks'
  BY <1>1, <1>2, <1>3, <1>5 DEF Commits
<1>7. ToSet(new) = ToSet(past[base]) \cup {Len(past) + 1}
  BY <1>1 DEF ToSet
<1> QED
  BY <1>2, <1>3, <1>5, <1>6, <1>7

LEMMA MadeKeepsClosed ==
    ASSUME ClosedPast, NEW base \in Commits, Made(base)
    PROVE  /\ \A c \in Commits' : c \in ToSet(past'[c]) /\ ToSet(past'[c]) \subseteq Commits'
           /\ \A c \in Commits' : \A b \in ToSet(past'[c]) : ToSet(past'[b]) \subseteq ToSet(past'[c])
<1> DEFINE n == Len(past')
<1>1. /\ Commits' = Commits \cup {n} /\ \A c \in Commits : past'[c] = past[c]
      /\ ToSet(past'[n]) = ToSet(past[base]) \cup {n}
  BY MadeOnTop
<1>2. /\ \A c \in Commits : c \in ToSet(past[c]) /\ ToSet(past[c]) \subseteq Commits
      /\ \A c \in Commits : \A b \in ToSet(past[c]) : ToSet(past[b]) \subseteq ToSet(past[c])
  BY DEF ClosedPast
<1> HIDE DEF n
<1>3. \A c \in Commits' : c \in ToSet(past'[c]) /\ ToSet(past'[c]) \subseteq Commits'
  BY <1>1, <1>2
<1>4. ASSUME NEW c \in Commits', NEW b \in ToSet(past'[c])
      PROVE  ToSet(past'[b]) \subseteq ToSet(past'[c])
  <2>1. CASE c \in Commits
    BY <1>1, <1>2, <1>4, <2>1
  <2>2. CASE c = n /\ b \in ToSet(past[base])
    BY <1>1, <1>2, <1>4, <2>2
  <2>3. CASE c = n /\ b = n
    BY <2>3
  <2> QED
    BY <1>1, <1>4, <2>1, <2>2, <2>3
<1> QED
  BY <1>3, <1>4

LEMMA TipIsNumber == ClosedPast => tip \in Nat
BY DEF ClosedPast, Commits

LEMMA ChecksAreReports ==
    ASSUME ClosedPast PROVE \A c \in Commits : checks[c].runs \in Reports
<1> DEFINE R == [runs : Reports, statuses : Reports]
<1>1. checks \in Seq(R) /\ Commits = DOMAIN checks
  BY DEF ClosedPast
<1>2. \A r \in R : r.runs \in Reports
  OBVIOUS
<1> HIDE DEF R
<1>3. \A c \in Commits : checks[c] \in R
  BY <1>1
<1> QED
  BY <1>2, <1>3

LEMMA LengthIsNumber ==
    ASSUME ClosedPast, NEW base \in Commits, Made(base) PROVE Len(past') \in Nat
BY MadeOnTop

LEMMA AttemptsStep ==
    ASSUME AttemptsSaved, ClosedPast, [HealthNext]_branchhealth PROVE AttemptsSaved'
<1> USE HealthConstants DEF AttemptsSaved, WatchPlaces
<1>0. ASSUME NEW h \in Nat PROVE Spent(h) \in 0..MaxRepairs
  BY DEF Spent
<1>1. ASSUME PeopleMove \/ CheckReports PROVE AttemptsSaved'
  BY <1>1 DEF PeopleMove, CheckReports, History
<1>2. ASSUME ReadHead PROVE AttemptsSaved'
  BY <1>2, TipIsNumber DEF ReadHead, History, Quiet, Reports
<1>3. ASSUME ReadRuns PROVE AttemptsSaved'
  BY <1>3, ChecksAreReports DEF ReadRuns, History, ClosedPast
<1>4. ASSUME Healthy PROVE AttemptsSaved'
  BY <1>4 DEF Healthy, Aborted, Reported, Quiet, Forgotten, Reports
<1>5. ASSUME Unrepairable PROVE AttemptsSaved'
  BY <1>5 DEF Unrepairable, Reported, Quiet, History, Reports
<1>6. ASSUME Spend PROVE AttemptsSaved'
  <2>1. /\ watch.head \in Nat /\ Spent(watch.head) \in 0..MaxRepairs
        /\ Spent(watch.head) < MaxRepairs
    BY <1>0, <1>6 DEF Spend, Spent
  <2>2. CASE /\ repairs' = [head |-> watch.head, attempts |-> Spent(watch.head) + 1]
             /\ watch' = [watch EXCEPT !.pc = "agent", !.attempts = Spent(watch.head) + 1]
    <3>1. watch' = [pc |-> "agent", head |-> watch.head, runs |-> watch.runs,
                    attempts |-> Spent(watch.head) + 1, made |-> watch.made]
      BY <2>2
    <3> QED
      BY <2>1, <2>2, <3>1
  <2>3. CASE Aborted /\ UNCHANGED repairs
    BY <2>3 DEF Aborted, Quiet, Reports
  <2> QED
    BY <1>6, <2>2, <2>3 DEF Spend
<1>7. ASSUME NoRepair PROVE AttemptsSaved'
  BY <1>7 DEF NoRepair, Ended, Reported, Aborted, Quiet, History, Reports
<1>8. ASSUME CommitRepair PROVE AttemptsSaved'
  BY <1>8, LengthIsNumber DEF CommitRepair, History, ClosedPast
<1>9. ASSUME Publish \/ PublishUnheard \/ PublishRefused PROVE AttemptsSaved'
  BY <1>9 DEF Publish, PublishUnheard, PublishRefused, Ended, Reported, Aborted, Quiet, Reports
<1>10. ASSUME WatchDies PROVE AttemptsSaved'
  BY <1>10 DEF WatchDies, Aborted, Quiet, History, Reports
<1>11. ASSUME UNCHANGED branchhealth PROVE AttemptsSaved'
  BY <1>11 DEF branchhealth
<1> QED
  BY <1>1, <1>2, <1>3, <1>4, <1>5, <1>6, <1>7, <1>8, <1>9, <1>10, <1>11 DEF HealthNext

\* What a step does to the tip, the memory and the run, and so to the grants: the
\* branch comes to a revision, a run begins, an agent starts, a passing branch is
\* forgotten, or a run ends and leaves what it had saved.
LEMMA GrantsCome ==
    ASSUME AttemptsSaved, GrantsHold, NEW c \in 1..MaxCommits, Comes(c), starts' = starts,
           repairs' = repairs, UNCHANGED watch \/ watch'.pc = "idle"
    PROVE  GrantsHold'
<1> USE HealthConstants DEF GrantsHold
<1>1. granted' \in [1..MaxCommits -> Nat] /\ granted'[c] = granted[c] + MaxRepairs
      /\ \A b \in 1..MaxCommits : b # c => granted'[b] = granted[b]
  BY DEF Comes
<1>2. MaxRepairs \in Nat /\ repairs.attempts \in Nat
      /\ \A b \in 1..MaxCommits : starts[b] \in Nat /\ granted[b] \in Nat
  BY DEF AttemptsSaved
<1>3. ASSUME NEW b \in 1..MaxCommits, b # c PROVE Unspent(b)' => Unspent(b)
  BY <1>3 DEF Unspent, Watches, Comes
<1>4. ASSUME NEW b \in 1..MaxCommits
      PROVE  /\ starts[b] <= granted'[b]
             /\ repairs.head = b => starts[b] + MaxRepairs <= granted'[b] + repairs.attempts
             /\ Unspent(b)' => starts[b] + MaxRepairs <= granted'[b]
  <2>1. CASE b = c
    <3> DEFINE s == starts[c]
               g == granted[c]
               k == repairs.attempts
               m == MaxRepairs
    <3>1. s \in Nat /\ g \in Nat /\ k \in Nat /\ m \in Nat /\ s <= g /\ granted'[c] = g + m
      BY <1>1, <1>2
    <3> HIDE DEF s, g, k, m
    <3>2. s <= g + m /\ s + m <= (g + m) + k /\ s + m <= g + m
      BY <3>1
    <3> QED
      BY <2>1, <3>1, <3>2 DEF s, k, m
  <2>2. CASE b # c
    BY <1>1, <1>2, <1>3, <2>2
  <2> QED
    BY <2>1, <2>2
<1> QED
  BY <1>1, <1>4

LEMMA GrantsKept ==
    ASSUME GrantsHold, UNCHANGED <<tip, repairs, starts, granted>>,
           \/ watch'.pc = "idle"
           \/ watch'.pc # "idle" /\ watch'.head = tip
           \/ watch.pc # "idle" /\ watch'.pc # "idle" /\ watch'.head = watch.head
    PROVE  GrantsHold'
<1>1. \A c \in 1..MaxCommits : Unspent(c)' => Unspent(c)
  BY DEF Unspent, Watches
<1> QED
  BY <1>1 DEF GrantsHold

LEMMA GrantsSpend ==
    ASSUME AttemptsSaved, ClosedPast, GrantsHold, Spend
    PROVE  GrantsHold'
<1> USE HealthConstants
<1>1. /\ watch.pc # "idle" /\ watch.head \in 1..MaxCommits /\ tip' = tip
  BY DEF Spend, Branch, ClosedPast, Commits
<1>2. CASE UNCHANGED <<repairs, starts, granted>> /\ watch' = Quiet
  <2>1. watch'.pc = "idle"
    BY <1>2 DEF Quiet
  <2> QED
    BY <1>1, <1>2, <2>1, GrantsKept
<1>3. CASE /\ repairs' = [head |-> watch.head, attempts |-> Spent(watch.head) + 1]
           /\ watch' = [watch EXCEPT !.pc = "agent", !.attempts = Spent(watch.head) + 1]
           /\ Starts
  <2>0. PICK h \in 1..MaxCommits : h = watch.head
    BY <1>1
  <2> DEFINE n == Spent(h) + 1
  <2>1. /\ n \in Nat /\ n <= MaxRepairs /\ repairs'.head = h /\ repairs'.attempts = n
        /\ repairs.head = h => n = repairs.attempts + 1
        /\ repairs.head # h => n = 1
    BY <1>3, <2>0 DEF Spend, Spent, AttemptsSaved
  <2>2. watch'.pc = "agent" /\ watch'.head = h
    BY <1>3, <2>0 DEF AttemptsSaved
  <2>3. /\ starts' \in [1..MaxCommits -> Nat] /\ granted' = granted
        /\ starts'[h] = starts[h] + 1 /\ \A c \in 1..MaxCommits : c # h => starts'[c] = starts[c]
    BY <1>1, <1>3, <2>0 DEF Starts, GrantsHold
  <2>4. repairs.head # h => Unspent(h)
    BY <1>1, <2>0 DEF Unspent, Watches
  <2>5. h \in 1..MaxCommits
    OBVIOUS
  <2>6. /\ ~Unspent(h)'
        /\ \A c \in 1..MaxCommits : c # h /\ Unspent(c)' => Unspent(c)
    BY <1>1, <2>0, <2>1, <2>2 DEF Unspent, Watches
  <2> HIDE DEF n
  <2>7. starts'[h] + MaxRepairs <= granted[h] + n
    <3>1. /\ starts[h] \in Nat /\ granted[h] \in Nat /\ MaxRepairs \in Nat
          /\ repairs.attempts \in Nat
      BY <2>5 DEF GrantsHold, AttemptsSaved
    <3>2. CASE repairs.head = h
      <4>1. starts[h] + MaxRepairs <= granted[h] + repairs.attempts
        BY <2>5, <3>2 DEF GrantsHold
      <4>2. n = repairs.attempts + 1 /\ starts'[h] = starts[h] + 1
        BY <2>1, <2>3, <3>2
      <4> QED
        BY <3>1, <4>1, <4>2
    <3>3. CASE repairs.head # h
      BY <2>1, <2>3, <2>4, <2>5, <3>1, <3>3 DEF GrantsHold
    <3> QED
      BY <3>2, <3>3
  <2>8. starts'[h] <= granted[h]
    <3>1. starts'[h] \in Nat /\ granted[h] \in Nat /\ MaxRepairs \in Nat
      BY <2>3, <2>5 DEF GrantsHold
    <3> QED
      BY <2>1, <2>7, <3>1
  <2>9. ASSUME NEW c \in 1..MaxCommits
        PROVE  /\ starts'[c] <= granted[c]
               /\ repairs'.head = c => starts'[c] + MaxRepairs <= granted[c] + repairs'.attempts
               /\ Unspent(c)' => starts'[c] + MaxRepairs <= granted[c]
    <3>1. CASE c = h
      <4>1. starts'[h] + MaxRepairs <= granted[h] + repairs'.attempts
        BY <2>1, <2>7
      <4> QED
        BY <2>6, <2>8, <3>1, <4>1
    <3>2. CASE c # h
      BY <2>1, <2>3, <2>6, <3>2 DEF GrantsHold
    <3> QED
      BY <3>1, <3>2
  <2> QED
    BY <2>3, <2>9 DEF GrantsHold
<1> QED
  BY <1>2, <1>3 DEF Spend, Aborted

LEMMA GrantsForget ==
    ASSUME AttemptsSaved, ClosedPast, GrantsHold, Healthy
    PROVE  GrantsHold'
<1> USE HealthConstants
<1>1. /\ watch.pc # "idle" /\ watch.head \in 1..MaxCommits /\ tip' = tip /\ watch'.pc = "idle"
  BY DEF Healthy, Branch, ClosedPast, Commits, Reported, Aborted, Quiet
<1>2. CASE UNCHANGED <<repairs, starts, granted>>
  BY <1>1, <1>2, GrantsKept
<1>3. CASE /\ repairs' = Forgotten
           /\ starts' = [starts EXCEPT ![watch.head] = 0]
           /\ granted' = [granted EXCEPT ![watch.head] = MaxRepairs]
  <2>0. PICK h \in 1..MaxCommits : h = watch.head
    BY <1>1
  <2>1. /\ starts' \in [1..MaxCommits -> Nat] /\ granted' \in [1..MaxCommits -> Nat]
        /\ starts'[h] = 0 /\ granted'[h] = MaxRepairs
        /\ \A c \in 1..MaxCommits : c # h => starts'[c] = starts[c] /\ granted'[c] = granted[c]
    BY <1>1, <1>3, <2>0 DEF GrantsHold
  <2>2. repairs'.head = 0
    BY <1>3 DEF Forgotten
  <2>3. \A c \in 1..MaxCommits : c # h /\ Unspent(c)' => Unspent(c)
    BY <1>1, <2>0 DEF Unspent, Watches
  <2>4. ASSUME NEW c \in 1..MaxCommits
        PROVE  /\ starts'[c] <= granted'[c] /\ repairs'.head # c
               /\ Unspent(c)' => starts'[c] + MaxRepairs <= granted'[c]
    <3>1. CASE c = h
      <4>1. 0 <= MaxRepairs /\ 0 + MaxRepairs <= MaxRepairs
        OBVIOUS
      <4> QED
        BY <2>1, <2>2, <3>1, <4>1
    <3>2. CASE c # h
      BY <2>1, <2>2, <2>3, <3>2 DEF GrantsHold
    <3> QED
      BY <3>1, <3>2
  <2> QED
    BY <2>1, <2>4 DEF GrantsHold
<1> QED
  BY <1>2, <1>3 DEF Healthy

LEMMA CommitsAreFew ==
    /\ ClosedPast => Commits \subseteq 1..MaxCommits
    /\ ClosedPast' => Commits' \subseteq 1..MaxCommits
<1>1. ASSUME NEW q \in Seq(Seq(Nat)), Len(q) <= MaxCommits PROVE DOMAIN q \subseteq 1..MaxCommits
  <2>1. DOMAIN q = 1..Len(q) /\ Len(q) \in Nat
    OBVIOUS
  <2> QED
    BY <1>1, <2>1, HealthConstants
<1> QED
  BY <1>1 DEF ClosedPast, Commits

LEMMA GrantsStep ==
    ASSUME AttemptsSaved, ClosedPast, ClosedPast', GrantsHold, [HealthNext]_branchhealth
    PROVE  GrantsHold'
<1>0. tip' \in 1..MaxCommits
  BY CommitsAreFew DEF ClosedPast
<1>1. ASSUME PeopleMove PROVE GrantsHold'
  <2>1. Comes(tip') /\ UNCHANGED <<starts, repairs, watch>>
    BY <1>1 DEF PeopleMove, Comes
  <2> QED
    BY <1>0, <2>1, GrantsCome
<1>2. ASSUME Publish \/ PublishUnheard PROVE GrantsHold'
  <2>1. Comes(tip') /\ starts' = starts /\ watch'.pc = "idle" /\ watch.pc = "push"
    BY <1>2 DEF Publish, PublishUnheard, Comes, Ended, Reported, Aborted, Quiet
  <2>2. repairs' = repairs
    BY <1>2, <2>1 DEF Publish, PublishUnheard, Ended, AttemptsSaved
  <2> QED
    BY <1>0, <2>1, <2>2, GrantsCome
<1>3. ASSUME \/ CheckReports \/ Unrepairable \/ NoRepair \/ PublishRefused \/ WatchDies
             \/ UNCHANGED branchhealth
      PROVE  GrantsHold'
  <2>1. UNCHANGED <<tip, starts, granted>>
    BY <1>3 DEF CheckReports, Unrepairable, NoRepair, PublishRefused, WatchDies, Branch, History,
       branchhealth
  <2>2. repairs' = repairs
    BY <1>3 DEF CheckReports, Unrepairable, NoRepair, PublishRefused, WatchDies, Ended,
       branchhealth, AttemptsSaved
  <2>3. UNCHANGED watch \/ watch'.pc = "idle"
    BY <1>3 DEF CheckReports, Unrepairable, NoRepair, PublishRefused, WatchDies, Ended, Reported,
       Aborted, Quiet, branchhealth
  <2> QED
    BY <2>1, <2>2, <2>3, GrantsKept
<1>4. ASSUME ReadHead \/ ReadRuns \/ CommitRepair PROVE GrantsHold'
  <2>1. UNCHANGED <<tip, repairs, starts, granted>>
    BY <1>4 DEF ReadHead, ReadRuns, CommitRepair, Branch, History
  <2>2. \/ watch'.pc # "idle" /\ watch'.head = tip
        \/ watch.pc # "idle" /\ watch'.pc # "idle" /\ watch'.head = watch.head
    BY <1>4 DEF ReadHead, ReadRuns, CommitRepair, Quiet, AttemptsSaved
  <2> QED
    BY <2>1, <2>2, GrantsKept
<1> QED
  BY <1>1, <1>2, <1>3, <1>4, GrantsSpend, GrantsForget DEF HealthNext

\* What ClosedPast says of the commits, the tip and the run apart.
LEMMA ClosedParts ==
    ClosedPast <=>
    /\ past \in Seq(Seq(Nat)) /\ Len(past) <= MaxCommits /\ Commits = DOMAIN checks
    /\ checks \in Seq([runs : Reports, statuses : Reports])
    /\ \A c \in Commits : c \in ToSet(past[c]) /\ ToSet(past[c]) \subseteq Commits
    /\ \A c \in Commits : \A b \in ToSet(past[c]) : ToSet(past[b]) \subseteq ToSet(past[c])
    /\ tip \in Commits
    /\ watch.pc # "idle" => watch.head \in Commits
    /\ watch.pc = "push" => watch.made \in Commits
BY DEF ClosedPast

LEMMA SamePast ==
    ASSUME ClosedPast, UNCHANGED <<past, checks>>, tip' \in Commits,
           watch'.pc # "idle" => watch'.head \in Commits,
           watch'.pc = "push" => watch'.made \in Commits
    PROVE  ClosedPast'
BY DEF ClosedPast, Commits

LEMMA MorePast ==
    ASSUME ClosedPast, NEW base \in Commits, Made(base), tip' \in Commits',
           watch'.pc # "idle" => watch'.head \in Commits',
           watch'.pc = "push" => watch'.made \in Commits'
    PROVE  ClosedPast'
<1>1. /\ past' \in Seq(Seq(Nat)) /\ Commits' = DOMAIN checks'
      /\ checks' \in Seq([runs : Reports, statuses : Reports])
  BY MadeOnTop
<1>2. /\ \A c \in Commits' : c \in ToSet(past'[c]) /\ ToSet(past'[c]) \subseteq Commits'
      /\ \A c \in Commits' : \A b \in ToSet(past'[c]) : ToSet(past'[b]) \subseteq ToSet(past'[c])
  BY MadeKeepsClosed
<1>3. Len(past') <= MaxCommits
  <2>1. Len(past) \in Nat /\ Len(past') = Len(past) + 1 /\ Len(past) < MaxCommits
    BY MadeOnTop DEF ClosedPast, Made
  <2> QED
    BY <2>1, HealthConstants
<1> QED
  BY <1>1, <1>2, <1>3 DEF ClosedPast

LEMMA ClosedStep ==
    ASSUME AttemptsSaved, ClosedPast, [HealthNext]_branchhealth PROVE ClosedPast'
<1>0. /\ tip \in Commits /\ ToSet(past[tip]) \subseteq Commits
      /\ watch.pc # "idle" => watch.head \in Commits
      /\ watch.pc = "push" => watch.made \in Commits
      /\ watch \in [pc : WatchPlaces, head : Nat, runs : Reports, attempts : Nat, made : Nat]
  BY DEF ClosedPast, AttemptsSaved
<1>1. ASSUME PeopleMove PROVE ClosedPast'
  <2>1. PICK base \in ToSet(past[tip]) :
           \/ Made(base) /\ tip' = Len(past')
           \/ base # tip /\ tip' = base /\ UNCHANGED <<past, checks>>
    BY <1>1 DEF PeopleMove, Comes
  <2>2. base \in Commits /\ watch' = watch
    BY <1>0, <1>1, <2>1 DEF PeopleMove
  <2>3. CASE Made(base) /\ tip' = Len(past')
    BY <1>0, <2>2, <2>3, MadeOnTop, MorePast
  <2>4. CASE tip' = base /\ UNCHANGED <<past, checks>>
    BY <1>0, <2>2, <2>4, SamePast
  <2> QED
    BY <2>1, <2>3, <2>4
<1>2. ASSUME CheckReports PROVE ClosedPast'
  <2> DEFINE R == [runs : Reports, statuses : Reports]
  <2>1. PICK c \in Commits, r \in Reports :
           \/ checks' = [checks EXCEPT ![c] = [checks[c] EXCEPT !.runs = r]]
           \/ checks' = [checks EXCEPT ![c] = [checks[c] EXCEPT !.statuses = r]]
    BY <1>2 DEF CheckReports
  <2>2. checks \in Seq(R) /\ c \in DOMAIN checks
    BY DEF ClosedPast
  <2>3. \A k \in R : [k EXCEPT !.runs = r] \in R /\ [k EXCEPT !.statuses = r] \in R
    OBVIOUS
  <2> HIDE DEF R
  <2>4. PICK k \in R : checks' = [checks EXCEPT ![c] = k]
    <3>1. checks[c] \in R
      BY <2>2
    <3> QED
      BY <2>1, <2>3, <3>1
  <2>6. checks' \in Seq(R) /\ DOMAIN checks' = DOMAIN checks
    BY <2>2, <2>4
  <2>5. UNCHANGED <<past, tip, watch>>
    BY <1>2 DEF CheckReports
  <2> QED
    BY <2>5, <2>6 DEF ClosedPast, Commits, R
<1>3. ASSUME \/ ReadHead \/ ReadRuns \/ Healthy \/ Unrepairable \/ Spend \/ NoRepair
             \/ PublishRefused \/ WatchDies
      PROVE  ClosedPast'
  <2>1. UNCHANGED <<past, checks, tip>>
    BY <1>3 DEF ReadHead, ReadRuns, Healthy, Unrepairable, Spend, NoRepair, PublishRefused,
       WatchDies, Branch
  <2>2. \/ watch'.pc = "idle"
        \/ watch'.pc = "runs" /\ watch'.head = tip
        \/ watch'.pc \in {"statuses", "agent"} /\ watch'.head = watch.head /\ watch.pc # "idle"
    <3>1. CASE ReadHead
      BY <3>1 DEF ReadHead, Quiet
    <3>2. CASE ReadRuns
      BY <1>0, <3>2 DEF ReadRuns
    <3>3. CASE Spend
      <4>1. /\ watch.pc = "statuses"
            /\ \/ watch' = Quiet
               \/ watch' = [watch EXCEPT !.pc = "agent", !.attempts = Spent(watch.head) + 1]
        BY <3>3 DEF Spend, Aborted
      <4>2. CASE watch' = Quiet
        BY <4>2 DEF Quiet
      <4>3. CASE watch' = [watch EXCEPT !.pc = "agent", !.attempts = Spent(watch.head) + 1]
        <5>1. watch'.pc = "agent" /\ watch'.head = watch.head
          BY <1>0, <4>3
        <5> QED
          BY <4>1, <5>1
      <4> QED
        BY <4>1, <4>2, <4>3
    <3>4. CASE Healthy \/ Unrepairable \/ NoRepair \/ PublishRefused \/ WatchDies
      BY <3>4 DEF Healthy, Unrepairable, NoRepair, PublishRefused, WatchDies, Ended, Reported,
         Aborted, Quiet
    <3> QED
      BY <1>3, <3>1, <3>2, <3>3, <3>4
  <2> QED
    BY <1>0, <2>1, <2>2, SamePast
<1>4. ASSUME CommitRepair PROVE ClosedPast'
  <2>1. watch.head \in Commits /\ Made(watch.head) /\ tip' = tip
    BY <1>0, <1>4 DEF CommitRepair
  <2>2. watch'.head = watch.head /\ watch'.made = Len(past')
    BY <1>0, <1>4 DEF CommitRepair
  <2> QED
    BY <1>0, <2>1, <2>2, MadeOnTop, MorePast
<1>5. ASSUME Publish \/ PublishUnheard PROVE ClosedPast'
  <2>1. tip' = watch.made /\ watch.pc = "push" /\ UNCHANGED <<past, checks>> /\ watch'.pc = "idle"
    BY <1>5 DEF Publish, PublishUnheard, Comes, Ended, Reported, Aborted, Quiet
  <2> QED
    BY <1>0, <2>1, SamePast
<1>6. ASSUME UNCHANGED branchhealth PROVE ClosedPast'
  BY <1>0, <1>6, SamePast DEF branchhealth
<1> QED
  BY <1>1, <1>2, <1>3, <1>4, <1>5, <1>6 DEF HealthNext

HealthInv == AttemptsSaved /\ ClosedPast /\ GrantsHold

LEMMA HealthAlways == HealthSpec => []HealthInv
<1>1. HealthInit => HealthInv
  BY HealthStarts DEF HealthInv
<1>2. HealthInv /\ [HealthNext]_branchhealth => HealthInv'
  BY AttemptsStep, ClosedStep, GrantsStep DEF HealthInv
<1> QED
  BY <1>1, <1>2, PTL DEF HealthSpec

\* Whatever crashes or cannot be saved, and wherever the branch was meanwhile, a
\* failing revision starts at most max_repairs agents for each time the branch
\* came to it, until its checks are seen to pass (health.go, assess).
THEOREM RepairsStayInBudget == HealthSpec => []AttemptsAreSpent
<1>1. HealthInv => AttemptsAreSpent
  BY CommitsAreFew DEF HealthInv, GrantsHold, AttemptsAreSpent
<1> QED
  BY <1>1, HealthAlways, PTL

\* A repair never takes a commit off the branch, whoever moved the branch while
\* the agent worked (git.go, publish).
THEOREM RepairsKeepCommits == HealthSpec => NothingOverwritten
<1>1. ASSUME HealthInv, [HealthNext]_branchhealth PROVE KeepsCommits
  <2> SUFFICES ASSUME landed' # landed PROVE ToSet(past[tip]) \subseteq ToSet(past'[tip'])
    BY DEF KeepsCommits
  <2>1. Publish \/ PublishUnheard
    BY <1>1 DEF HealthNext, branchhealth, History, PeopleMove, CheckReports, ReadHead, ReadRuns,
       Healthy, Unrepairable, Spend, NoRepair, CommitRepair, PublishRefused, WatchDies
  <2>2. tip' = watch.made /\ past' = past /\ tip \in ToSet(past[watch.made]) /\ watch.pc = "push"
    BY <2>1 DEF Publish, PublishUnheard, FastForwards, Comes
  <2> QED
    BY <1>1, <2>2 DEF HealthInv, ClosedPast
<1> QED
  BY <1>1, HealthAlways, PTL DEF HealthSpec, NothingOverwritten

LEMMA HealthTypesStart == HealthInit => HealthTypeOK
<1> SUFFICES ASSUME HealthInit PROVE HealthTypeOK
  OBVIOUS
<1>1. past = <<<<1>>>> /\ checks = <<Unsaid>> /\ tip = 1 /\ watch = Quiet /\ repairs = Forgotten
      /\ health = [state |-> "none", head |-> 0] /\ outcomes = {}
  BY DEF HealthInit
<1>2. Commits = {1} /\ DOMAIN checks = {1} /\ Len(past) = 1
  BY <1>1 DEF Commits
<1>3. /\ events \in [moves : 0..MaxBranchMoves, reports : 0..MaxCheckReports]
      /\ reads \in 0..MaxReads /\ healthfaults \in 0..MaxHealthFaults
  BY HealthConstants DEF HealthInit
<1>4. 0 \in 0..MaxCommits /\ 0 \in 0..MaxRepairs /\ 1 <= MaxCommits
  BY HealthConstants
<1> QED
  BY <1>1, <1>2, <1>3, <1>4 DEF HealthTypeOK, Unsaid, Reports, Quiet, Forgotten

LEMMA HealthTypesStep ==
    ASSUME HealthInv, HealthInv', HealthTypeOK, [HealthNext]_branchhealth PROVE HealthTypeOK'
<1> DEFINE NamesCommits ==
        /\ Len(past) <= MaxCommits /\ repairs.head \in 0..MaxCommits
        /\ health.head \in 0..MaxCommits /\ outcomes \subseteq Commits
<1>1. /\ Len(past) \in Nat /\ Commits = 1..Len(past) /\ NamesCommits
      /\ MaxCommits \in Nat \ {0}
  <2>1. past \in Seq(Seq(Nat))
    BY DEF HealthInv, ClosedPast
  <2>2. NamesCommits
    BY DEF HealthTypeOK
  <2> HIDE DEF NamesCommits
  <2>3. Len(past) \in Nat /\ Commits = 1..Len(past)
    BY <2>1 DEF Commits
  <2> QED
    BY <2>2, <2>3, HealthConstants
<1>2. /\ watch.pc # "idle" => watch.head \in 0..MaxCommits
      /\ watch.pc = "push" => watch.made \in Commits
  BY <1>1 DEF HealthInv, ClosedPast
<1>3. /\ events' \in [moves : 0..MaxBranchMoves, reports : 0..MaxCheckReports]
      /\ reads' \in 0..MaxReads
      /\ healthfaults' \in 0..MaxHealthFaults
  <2>1. /\ \/ events' = events
           \/ events.moves < MaxBranchMoves /\ events' = [events EXCEPT !.moves = @ + 1]
           \/ events.reports < MaxCheckReports /\ events' = [events EXCEPT !.reports = @ + 1]
        /\ reads' = reads \/ (reads < MaxReads /\ reads' = reads + 1)
        /\ healthfaults' = healthfaults
              \/ (healthfaults < MaxHealthFaults /\ healthfaults' = healthfaults + 1)
    BY DEF HealthNext, branchhealth, PeopleMove, CheckReports, ReadHead, ReadRuns, Healthy,
       Unrepairable, Spend, NoRepair, CommitRepair, Publish, PublishUnheard, PublishRefused,
       WatchDies, HealthFault, Branch, Ended, Aborted
  <2>2. /\ events \in [moves : 0..MaxBranchMoves, reports : 0..MaxCheckReports]
        /\ reads \in 0..MaxReads
        /\ healthfaults \in 0..MaxHealthFaults
        /\ {MaxBranchMoves, MaxCheckReports, MaxReads, MaxHealthFaults} \subseteq Nat
    BY HealthConstants DEF HealthTypeOK
  <2> QED
    BY <2>1, <2>2
<1>4. NamesCommits'
  <2>1. CASE PeopleMove \/ CommitRepair
    <3>1. UNCHANGED <<repairs, health, outcomes>>
      BY <2>1 DEF PeopleMove, CommitRepair, Town
    <3>2. CASE \E base \in Commits : Made(base)
      <4>1. Len(past) < MaxCommits /\ Len(past') = Len(past) + 1
            /\ Commits' = Commits \cup {Len(past')}
        BY <3>2, MadeOnTop DEF HealthInv, Made
      <4>2. Len(past') <= MaxCommits
        BY <1>1, <4>1
      <4> QED
        BY <1>1, <3>1, <4>1, <4>2
    <3>3. CASE past' = past
      BY <1>1, <3>1, <3>3 DEF Commits
    <3>4. (\E base \in Commits : Made(base)) \/ past' = past
      <4>1. CASE PeopleMove
        <5>1. ToSet(past[tip]) \subseteq Commits
          BY DEF HealthInv, ClosedPast
        <5> QED
          BY <4>1, <5>1 DEF PeopleMove
      <4>2. CASE CommitRepair
        BY <4>2 DEF CommitRepair, HealthInv, ClosedPast
      <4> QED
        BY <2>1, <4>1, <4>2
    <3> QED
      BY <3>2, <3>3, <3>4
  <2>2. CASE ~(PeopleMove \/ CommitRepair)
    <3>1. past' = past
      BY <2>2 DEF HealthNext, branchhealth, CheckReports, ReadHead, ReadRuns, Healthy, Unrepairable,
         Spend, NoRepair, Publish, PublishUnheard, PublishRefused, WatchDies, Branch
    <3>2. repairs' = repairs \/ repairs'.head = 0
          \/ (watch.pc # "idle" /\ repairs'.head = watch.head)
      BY <2>2 DEF HealthNext, branchhealth, CheckReports, ReadHead, ReadRuns, Healthy, Unrepairable,
         Spend, NoRepair, Publish, PublishUnheard, PublishRefused, WatchDies, Ended, Forgotten
    <3>3. health' = health \/ (watch.pc # "idle" /\ health'.head = watch.head)
      BY <2>2 DEF HealthNext, branchhealth, CheckReports, ReadHead, ReadRuns, Healthy, Unrepairable,
         Spend, NoRepair, Publish, PublishUnheard, PublishRefused, WatchDies, Ended, Reported,
         Aborted, Town
    <3>4. outcomes' = outcomes
          \/ (watch.pc = "push" /\ outcomes' = outcomes \cup {watch.made})
      BY <2>2 DEF HealthNext, branchhealth, CheckReports, ReadHead, ReadRuns, Healthy, Unrepairable,
         Spend, NoRepair, Publish, PublishUnheard, PublishRefused, WatchDies, Ended, Reported,
         Aborted, Town
    <3>5. Commits' = Commits /\ Len(past') = Len(past) /\ 0 \in 0..MaxCommits
      BY <1>1, <3>1 DEF Commits
    <3>6. repairs'.head \in 0..MaxCommits /\ health'.head \in 0..MaxCommits
      BY <1>1, <1>2, <3>2, <3>3, <3>5
    <3>7. outcomes' \subseteq Commits'
      BY <1>1, <1>2, <3>4, <3>5
    <3> QED
      BY <1>1, <3>5, <3>6, <3>7
  <2> QED
    BY <2>1, <2>2
<1>5. /\ tip' \in Commits' /\ DOMAIN checks' = Commits'
      /\ \A c \in Commits' : checks'[c].runs \in Reports /\ checks'[c].statuses \in Reports
  <2>1. /\ tip' \in Commits' /\ Commits' = DOMAIN checks'
        /\ checks' \in Seq([runs : Reports, statuses : Reports])
    BY DEF HealthInv, ClosedPast
  <2>2. ASSUME NEW S, NEW f \in Seq(S), NEW c \in DOMAIN f PROVE f[c] \in S
    OBVIOUS
  <2>3. \A c \in Commits' : checks'[c] \in [runs : Reports, statuses : Reports]
    BY <2>1, <2>2
  <2> QED
    BY <2>1, <2>3
<1>6. repairs'.attempts \in 0..MaxRepairs
      /\ watch'.pc \in {"idle", "runs", "statuses", "agent", "push"}
  BY DEF HealthInv, AttemptsSaved, WatchPlaces
<1> QED
  BY <1>3, <1>4, <1>5, <1>6 DEF HealthTypeOK

\* Every record of the watch names commits that exist (health.go, state.go).
THEOREM HealthIsTyped == HealthSpec => []HealthTypeOK
<1>1. HealthInv /\ HealthInv' /\ HealthTypeOK /\ [HealthNext]_branchhealth => HealthTypeOK'
  BY HealthTypesStep
<1> QED
  BY <1>1, HealthAlways, HealthTypesStart, PTL DEF HealthSpec

-----------------------------------------------------------------------------
\* SimplifierBot: one issue for a proposal.

Sent(p) == issues[p].n > 0 \/ p \in unseen
ScanRecords == [last : Nat, status : [Proposals -> Statuses], found : [Proposals -> Nat]]
ScanPlaces == {"idle", "reconcile", "load", "filing", "posting"}

ScanTyped ==
    /\ branch \in Nat /\ unseen \subseteq Proposals
    /\ issues \in [Proposals -> [n : {0, 1}, commit : Nat]]
    /\ state \in ScanRecords /\ memory \in ScanRecords
    /\ scan \in [pc : ScanPlaces, commit : Nat, p : Nat]

\* What a record of the scan says of the requests GitHub has.
Honest(s) ==
    \A p \in Proposals : /\ s.status[p] \in {"none", "pending"} => ~Sent(p)
                         /\ s.status[p] = "submitted" => issues[p].n = 1

\* A request is on its way or listed, not both; what was saved and what is in
\* memory are honest about it; and a creation is sent only after it was saved.
SentAreKnown ==
    /\ \A p \in unseen : issues[p].n = 0
    /\ Honest(state) /\ Honest(memory)
    /\ scan.pc = "posting" =>
          /\ scan.p \in Proposals /\ ~Sent(scan.p)
          /\ state.status[scan.p] = "posting" /\ memory.status[scan.p] = "posting"

ScanInv == ScanTyped /\ SentAreKnown

LEMMA ScanInitially == SimplifierInit => ScanInv
BY SimplifierConstants
   DEF SimplifierInit, ScanInv, ScanTyped, SentAreKnown, Honest, Sent, ScanRecords, ScanPlaces,
       NoScanYet, Idle, Statuses, Proposals

LEMMA MarkedRecord ==
    ASSUME ScanTyped, NEW p \in Proposals, NEW st \in Statuses
    PROVE  /\ Marked(p, st) \in ScanRecords /\ Marked(p, st).status[p] = st
           /\ \A q \in Proposals \ {p} : Marked(p, st).status[q] = memory.status[q]
BY DEF ScanTyped, ScanRecords, Marked

LEMMA ScanStep == ScanInv /\ [SimplifierNext]_simplifier => ScanInv'
<1> SUFFICES ASSUME ScanInv, [SimplifierNext]_simplifier PROVE ScanInv'
  OBVIOUS
<1> USE SimplifierConstants
<1>0. ScanTyped /\ SentAreKnown /\ Idle \in [pc : ScanPlaces, commit : Nat, p : Nat] /\ Idle.pc = "idle"
  BY DEF ScanInv, Idle, ScanPlaces
<1>1. ASSUME Moved \/ AllFiled PROVE ScanInv'
  BY <1>0, <1>1 DEF Moved, AllFiled, Outside, ScanInv, ScanTyped, SentAreKnown, Honest, Sent
<1>2. ASSUME Listed PROVE ScanInv'
  <2>1. PICK p \in unseen : /\ unseen' = unseen \ {p}
                            /\ issues' = [issues EXCEPT ![p] = [n |-> issues[p].n + 1, commit |-> issues[p].commit]]
    BY <1>2 DEF Listed
  <2>2. p \in Proposals /\ issues[p].n = 0 /\ issues'[p].n = 1
        /\ issues' \in [Proposals -> [n : {0, 1}, commit : Nat]]
        /\ \A q \in Proposals \ {p} : issues'[q] = issues[q]
    BY <1>0, <2>1 DEF ScanTyped, SentAreKnown
  <2>3. \A q \in Proposals : Sent(q)' <=> Sent(q)
    BY <1>0, <2>1, <2>2 DEF Sent, ScanTyped
  <2>4. UNCHANGED <<branch, state, memory, scan>>
    BY <1>2 DEF Listed
  <2> QED
    BY <1>0, <2>1, <2>2, <2>3, <2>4 DEF ScanInv, ScanTyped, SentAreKnown, Honest
<1>3. ASSUME ScanStarts PROVE ScanInv'
  <2>1. /\ memory' \in {state, memory} /\ scan'.pc = "reconcile"
        /\ scan' \in [pc : ScanPlaces, commit : Nat, p : Nat]
        /\ UNCHANGED <<branch, issues, unseen, state>>
    BY <1>3 DEF ScanStarts, Outside, Idle, ScanPlaces
  <2> QED
    BY <1>0, <2>1 DEF ScanInv, ScanTyped, SentAreKnown, Honest, Sent
<1>4. ASSUME UNCHANGED <<branch, issues, unseen>>, memory' \in ScanRecords, Honest(memory'),
             scan' \in [pc : ScanPlaces, commit : Nat, p : Nat],
             state' \in {state, memory'},
             scan'.pc = "posting" => /\ scan'.p \in Proposals /\ ~Sent(scan'.p)
                                     /\ state'.status[scan'.p] = "posting"
                                     /\ memory'.status[scan'.p] = "posting"
      PROVE  ScanInv'
  BY <1>0, <1>4 DEF ScanInv, ScanTyped, SentAreKnown, Honest, Sent
<1>5. ASSUME ReconcilePosting PROVE ScanInv'
  <2>1. CASE scan' = Idle /\ UNCHANGED <<state, memory, scanfaults>>
    <3>1. UNCHANGED <<branch, issues, unseen>>
      BY <1>5 DEF ReconcilePosting, Outside
    <3> QED
      BY <1>0, <1>4, <2>1, <3>1 DEF ScanTyped, SentAreKnown
  <2>2. CASE /\ ~\E p \in With("posting") : issues[p].n = 0
             /\ memory' = [memory EXCEPT !.status = [p \in Proposals |->
                   IF memory.status[p] = "posting" THEN "submitted" ELSE memory.status[p]]]
             /\ SaveOr([scan EXCEPT !.pc = "load"])
    <3>1. /\ memory' \in ScanRecords
          /\ \A p \in Proposals : memory'.status[p]
                = IF memory.status[p] = "posting" THEN "submitted" ELSE memory.status[p]
      BY <1>0, <2>2 DEF ScanTyped, ScanRecords, Statuses
    <3>2. \A p \in Proposals : memory.status[p] = "posting" => issues[p].n = 1
      BY <1>0, <2>2 DEF With, ScanTyped
    <3>3. Honest(memory')
      BY <1>0, <3>1, <3>2 DEF Honest, SentAreKnown
    <3>4. /\ scan' \in [pc : ScanPlaces, commit : Nat, p : Nat] /\ scan'.pc # "posting"
          /\ state' \in {state, memory'}
      BY <1>0, <2>2 DEF SaveOr, ScanTyped, ScanPlaces
    <3>5. UNCHANGED <<branch, issues, unseen>>
      BY <1>5 DEF ReconcilePosting, Outside
    <3> QED
      BY <1>4, <3>1, <3>3, <3>4, <3>5
  <2> QED
    BY <1>5, <2>1, <2>2 DEF ReconcilePosting
<1>6. ASSUME NothingToScan PROVE ScanInv'
  <2>1. /\ memory' = memory /\ scan' = Idle /\ state' \in {state, memory'}
        /\ UNCHANGED <<branch, issues, unseen>>
    BY <1>6 DEF NothingToScan, SaveOr, Outside
  <2> QED
    BY <1>0, <1>4, <2>1 DEF ScanTyped, SentAreKnown
<1>7. ASSUME Propose PROVE ScanInv'
  <2>1. PICK new \in SUBSET With("none") :
          memory' = [last |-> branch,
                     status |-> [p \in Proposals |-> IF p \in new THEN "pending" ELSE memory.status[p]],
                     found |-> [p \in Proposals |-> IF p \in new THEN branch ELSE memory.found[p]]]
    BY <1>7 DEF Propose
  <2>2. memory' \in ScanRecords
    BY <1>0, <2>1 DEF ScanTyped, ScanRecords, Statuses
  <2>3. \A p \in Proposals : \/ memory'.status[p] = memory.status[p]
                             \/ memory'.status[p] = "pending" /\ memory.status[p] = "none"
    BY <2>1 DEF With
  <2>4. Honest(memory')
    BY <1>0, <2>3 DEF Honest, SentAreKnown
  <2>5. /\ scan' \in [pc : ScanPlaces, commit : Nat, p : Nat] /\ scan'.pc # "posting"
        /\ state' \in {state, memory'} /\ UNCHANGED <<branch, issues, unseen>>
    BY <1>0, <1>7 DEF Propose, SaveOr, Outside, ScanTyped, ScanPlaces
  <2> QED
    BY <1>4, <2>2, <2>4, <2>5
<1>8. ASSUME MarkPosting PROVE ScanInv'
  <2>1. PICK p \in NextPending :
          memory' = Marked(p, "posting") /\ SaveOr([scan EXCEPT !.pc = "posting", !.p = p])
    BY <1>8 DEF MarkPosting
  <2>2. p \in Proposals /\ p \in Nat /\ memory.status[p] = "pending" /\ ~Sent(p)
    BY <1>0, <2>1 DEF NextPending, With, Honest, SentAreKnown, Proposals
  <2>3. /\ memory' \in ScanRecords /\ memory'.status[p] = "posting"
        /\ \A q \in Proposals \ {p} : memory'.status[q] = memory.status[q]
    BY <1>0, <2>1, <2>2, MarkedRecord DEF Statuses
  <2>4. Honest(memory')
    BY <1>0, <2>2, <2>3 DEF Honest, SentAreKnown
  <2>5. /\ scan' \in [pc : ScanPlaces, commit : Nat, p : Nat]
        /\ \/ scan'.pc = "posting" /\ scan'.p = p /\ state' = memory'
           \/ scan'.pc = "idle" /\ state' = state
    BY <1>0, <2>1, <2>2 DEF SaveOr, ScanTyped, ScanPlaces
  <2>6. UNCHANGED <<branch, issues, unseen>>
    BY <1>8 DEF MarkPosting, Outside
  <2> QED
    BY <1>4, <2>2, <2>3, <2>4, <2>5, <2>6
<1>9. ASSUME CreateIssue PROVE ScanInv'
  <2>1. /\ scan.p \in Proposals /\ ~Sent(scan.p)
        /\ state.status[scan.p] = "posting" /\ memory.status[scan.p] = "posting"
    BY <1>0, <1>9 DEF CreateIssue, SentAreKnown
  <2>2. /\ issues' \in [Proposals -> [n : {0, 1}, commit : Nat]] /\ issues'[scan.p].n = 1
        /\ \A q \in Proposals \ {scan.p} : issues'[q] = issues[q]
        /\ unseen' = unseen /\ branch' = branch
    BY <1>0, <1>9, <2>1 DEF CreateIssue, Created, ScanTyped, Sent
  <2>3. /\ memory' \in ScanRecords /\ memory'.status[scan.p] = "submitted"
        /\ \A q \in Proposals \ {scan.p} : memory'.status[q] = memory.status[q]
    BY <1>0, <1>9, <2>1, MarkedRecord DEF CreateIssue, Statuses
  <2>4. /\ scan' \in [pc : ScanPlaces, commit : Nat, p : Nat] /\ scan'.pc # "posting"
        /\ state' \in {state, memory'}
    <3> DEFINE later == [scan EXCEPT !.pc = "filing", !.p = 0]
    <3>1. scan \in [pc : ScanPlaces, commit : Nat, p : Nat] /\ "filing" \in ScanPlaces
      BY <1>0 DEF ScanTyped, ScanPlaces
    <3>2. later \in [pc : ScanPlaces, commit : Nat, p : Nat] /\ later.pc = "filing"
      BY <3>1
    <3>3. SaveOr(later)
      BY <1>9 DEF CreateIssue
    <3> QED
      BY <1>0, <3>2, <3>3 DEF SaveOr
  <2>5. \A p \in unseen' : issues'[p].n = 0
    BY <1>0, <2>1, <2>2 DEF SentAreKnown, Sent, ScanTyped
  <2>6. \A s \in {state, memory'} : \A q \in Proposals :
           /\ s.status[q] \in {"none", "pending"} => ~(issues'[q].n > 0 \/ q \in unseen')
           /\ s.status[q] = "submitted" => issues'[q].n = 1
    BY <1>0, <2>1, <2>2, <2>3 DEF SentAreKnown, Honest, Sent
  <2> QED
    BY <1>0, <2>2, <2>3, <2>4, <2>5, <2>6 DEF ScanInv, ScanTyped, SentAreKnown, Honest, Sent
<1>10. ASSUME CreateFails PROVE ScanInv'
  <2>1. /\ scan.p \in Proposals /\ ~Sent(scan.p)
        /\ state.status[scan.p] = "posting" /\ memory.status[scan.p] = "posting"
    BY <1>0, <1>10 DEF CreateFails, SentAreKnown
  <2>2. scan' = Idle /\ UNCHANGED <<branch, state, memory>>
    BY <1>10 DEF CreateFails
  <2>3. /\ issues' \in [Proposals -> [n : {0, 1}, commit : Nat]] /\ unseen' \subseteq Proposals
        /\ \A q \in Proposals \ {scan.p} : issues'[q] = issues[q] /\ (q \in unseen' <=> q \in unseen)
        /\ scan.p \in unseen' => issues'[scan.p].n = 0
    <3>1. CASE UNCHANGED <<issues, unseen>>
      BY <1>0, <2>1, <3>1 DEF ScanTyped, Sent
    <3>2. CASE issues' = Created(scan.p) /\ UNCHANGED unseen
      BY <1>0, <2>1, <3>2 DEF ScanTyped, Sent, Created
    <3>3. CASE /\ unseen' = unseen \cup {scan.p}
               /\ issues' = [issues EXCEPT ![scan.p] = [n |-> issues[scan.p].n, commit |-> scan.commit]]
      BY <1>0, <2>1, <3>3 DEF ScanTyped, Sent
    <3> QED
      BY <1>10, <3>1, <3>2, <3>3 DEF CreateFails
  <2>4. \A p \in unseen' : issues'[p].n = 0
    BY <1>0, <2>3 DEF SentAreKnown, ScanTyped
  <2>5. \A s \in {state, memory} : \A q \in Proposals :
           /\ s.status[q] \in {"none", "pending"} => ~(issues'[q].n > 0 \/ q \in unseen')
           /\ s.status[q] = "submitted" => issues'[q].n = 1
    BY <1>0, <2>1, <2>3 DEF SentAreKnown, Honest, Sent
  <2> QED
    BY <1>0, <2>2, <2>3, <2>4, <2>5 DEF ScanInv, ScanTyped, SentAreKnown, Honest, Sent
<1>11. ASSUME ScanFails PROVE ScanInv'
  <2>1. /\ scan' = Idle /\ memory' \in {memory, state} /\ state' = state
        /\ UNCHANGED <<branch, issues, unseen>>
    BY <1>11 DEF ScanFails, Outside
  <2> QED
    BY <1>0, <1>4, <2>1 DEF ScanTyped, SentAreKnown
<1>12. ASSUME UNCHANGED simplifier PROVE ScanInv'
  BY <1>0, <1>12 DEF simplifier, ScanInv, ScanTyped, SentAreKnown, Honest, Sent
<1> QED
  BY <1>1, <1>2, <1>3, <1>5, <1>6, <1>7, <1>8, <1>9, <1>10, <1>11, <1>12 DEF SimplifierNext

\* Whatever answers are lost, however late GitHub lists an issue, and wherever
\* the bot dies, a proposal becomes one issue, and one that counts as submitted
\* has it, for any number of proposals, scans and faults (run.go, scan).
THEOREM ProposalsAreFiledOnce == SimplifierSpec => []FiledOnce
<1>1. ASSUME ScanInv PROVE FiledOnce
  <2> SUFFICES ASSUME NEW p \in Proposals
               PROVE  /\ issues[p].n + Cardinality(unseen \cap {p}) <= 1
                      /\ "submitted" \in {state.status[p], memory.status[p]} => issues[p].n = 1
    BY DEF FiledOnce
  <2>1. issues[p].n \in {0, 1} /\ (p \in unseen => issues[p].n = 0)
    BY <1>1 DEF ScanInv, ScanTyped, SentAreKnown
  <2>2. CASE p \in unseen
    <3>1. unseen \cap {p} = {p}
      BY <2>2
    <3>2. Cardinality({p}) = 1
      BY FS_Singleton
    <3> QED
      BY <1>1, <2>1, <2>2, <3>1, <3>2 DEF ScanInv, SentAreKnown, Honest
  <2>3. CASE p \notin unseen
    <3>1. unseen \cap {p} = {}
      BY <2>3
    <3> QED
      BY <1>1, <2>1, <3>1, FS_EmptySet DEF ScanInv, SentAreKnown, Honest
  <2> QED
    BY <2>2, <2>3
<1> QED
  BY <1>1, ScanInitially, ScanStep, PTL DEF SimplifierSpec

\* A record of the scan, of a branch that has come so far.
ScansOf(n) == [last : 0..n, status : [Proposals -> Statuses], found : [Proposals -> 0..n]]
ScanBounds ==
    /\ branch \in 1..MaxHeads /\ state \in ScansOf(branch) /\ memory \in ScansOf(branch)
    /\ scans \in 0..MaxScans /\ scanfaults \in 0..MaxScanFaults

LEMMA ScanBoundsStep ==
    ASSUME ScanInv, ScanBounds, [SimplifierNext]_simplifier PROVE ScanBounds'
<1>1. /\ branch \in Nat /\ MaxHeads \in Nat /\ branch \in 1..MaxHeads
      /\ state \in ScansOf(branch) /\ memory \in ScansOf(branch)
  BY SimplifierConstants DEF ScanBounds
<1>2. scans' \in 0..MaxScans /\ scanfaults' \in 0..MaxScanFaults
  <2>1. /\ scans' = scans \/ (scans < MaxScans /\ scans' = scans + 1)
        /\ scanfaults' = scanfaults
              \/ (scanfaults < MaxScanFaults /\ scanfaults' = scanfaults + 1)
    BY DEF SimplifierNext, simplifier, Moved, Listed, ScanStarts, ReconcilePosting,
       NothingToScan, Propose, MarkPosting, AllFiled, CreateIssue, CreateFails, ScanFails,
       SaveOr, ScanFault
  <2> QED
    BY <2>1, SimplifierConstants DEF ScanBounds
<1>3. CASE Moved
  <2>1. branch' = branch + 1 /\ branch' \in 1..MaxHeads /\ UNCHANGED <<state, memory>>
    BY <1>1, <1>3 DEF Moved
  <2>2. 0..branch \subseteq 0..(branch + 1)
    BY <1>1
  <2>3. ScansOf(branch) \subseteq ScansOf(branch + 1)
    BY <2>2 DEF ScansOf
  <2> QED
    BY <1>1, <1>2, <2>1, <2>3 DEF ScanBounds, ScansOf
<1>4. ASSUME branch' = branch, memory' \in ScansOf(branch), state' \in {state, memory, memory'}
      PROVE  ScanBounds'
  BY <1>1, <1>2, <1>4 DEF ScanBounds, ScansOf
<1>5. ASSUME NEW p \in Proposals, NEW st \in Statuses PROVE Marked(p, st) \in ScansOf(branch)
  BY <1>1 DEF Marked, ScansOf
<1>6. CASE ReconcilePosting
  <2>1. branch' = branch /\ (state' = state \/ state' = memory')
    BY <1>6 DEF ReconcilePosting, Outside, SaveOr
  <2>2. memory' = memory
        \/ memory' = [memory EXCEPT !.status = [p \in Proposals |->
              IF memory.status[p] = "posting" THEN "submitted" ELSE memory.status[p]]]
    BY <1>6 DEF ReconcilePosting
  <2>3. memory' \in ScansOf(branch)
    BY <1>1, <2>2 DEF ScansOf, Statuses
  <2> QED
    BY <1>4, <2>1, <2>3
<1>7. CASE Propose
  <2>1. branch' = branch /\ (state' = state \/ state' = memory')
    BY <1>7 DEF Propose, Outside, SaveOr
  <2>2. PICK new \in SUBSET With("none") :
          memory' = [last |-> branch,
                     status |-> [p \in Proposals |-> IF p \in new THEN "pending"
                                                     ELSE memory.status[p]],
                     found |-> [p \in Proposals |-> IF p \in new THEN branch
                                                    ELSE memory.found[p]]]
    BY <1>7 DEF Propose
  <2>3. branch \in 0..branch /\ "pending" \in Statuses
    BY <1>1 DEF Statuses
  <2>4. memory' \in ScansOf(branch)
    BY <1>1, <2>2, <2>3 DEF ScansOf
  <2> QED
    BY <1>4, <2>1, <2>4
<1>8. CASE MarkPosting
  <2>1. branch' = branch /\ (state' = state \/ state' = memory')
    BY <1>8 DEF MarkPosting, Outside, SaveOr
  <2>2. PICK p \in NextPending : memory' = Marked(p, "posting")
    BY <1>8 DEF MarkPosting
  <2>3. p \in Proposals /\ "posting" \in Statuses
    BY <2>2 DEF NextPending, With, Statuses
  <2> QED
    BY <1>4, <1>5, <2>1, <2>2, <2>3
<1>9. CASE CreateIssue
  <2>1. /\ branch' = branch /\ (state' = state \/ state' = memory')
        /\ memory' = Marked(scan.p, "submitted") /\ scan.p \in Proposals
        /\ "submitted" \in Statuses
    BY <1>9 DEF CreateIssue, SaveOr, ScanInv, SentAreKnown, Statuses
  <2> QED
    BY <1>4, <1>5, <2>1
<1>10. CASE \/ Listed \/ ScanStarts \/ NothingToScan \/ AllFiled \/ CreateFails \/ ScanFails
            \/ UNCHANGED simplifier
  <2>1. branch' = branch /\ memory' \in {memory, state} /\ state' \in {state, memory'}
    BY <1>10 DEF simplifier, Listed, ScanStarts, NothingToScan, AllFiled, CreateFails, ScanFails,
       Outside, SaveOr
  <2> QED
    BY <1>1, <1>4, <2>1
<1> QED
  BY <1>3, <1>6, <1>7, <1>8, <1>9, <1>10 DEF SimplifierNext

\* What is saved of a scan and what is in memory name commits the branch had.
THEOREM ScansAreTyped == SimplifierSpec => []SimplifierTypeOK
<1>1. SimplifierInit => ScanBounds
  BY SimplifierConstants
     DEF SimplifierInit, ScanBounds, ScansOf, NoScanYet, Statuses, Proposals
<1>2. ScanInv /\ ScanBounds /\ [SimplifierNext]_simplifier => ScanBounds'
  BY ScanBoundsStep
<1>3. ScanInv /\ ScanBounds => SimplifierTypeOK
  BY DEF ScanInv, ScanTyped, ScanBounds, ScansOf, ScanPlaces, SimplifierTypeOK
<1> QED
  BY <1>1, <1>2, <1>3, ScanInitially, ScanStep, PTL DEF SimplifierSpec

Frames  == [seq : Nat, kind : Kinds, uncertain : BOOLEAN]
Clients == [pc : {"idle", "dial", "headers", "stream", "over"}, next : Nat, verdict : Verdicts]
Servers == [pc : {"none", "running", "returned", "over", "dead"}, cause : Causes,
            seq : Nat, sends : 0..MaxSends, broken : BOOLEAN, done : BOOLEAN, cut : BOOLEAN]

RunTypes ==
    /\ client \in Clients /\ server \in Servers /\ frames \in Seq(Frames)
    /\ ended \in BOOLEAN /\ up \in BOOLEAN
    /\ cancels \in [left : 0..CancelTries, flying : BOOLEAN, taken : BOOLEAN]
    /\ request \in {"none", "flying", "taken", "lost"}
    /\ netfaults \in 0..MaxNetFaults
    /\ seen \in [sent : SUBSET Nat, heard : SUBSET Nat]

\* How far the client, the request, the connection and the bot are.
RunPlaces ==
    /\ client.pc \in {"idle", "dial"} => request = "none"
    /\ client.pc = "over" => ~up /\ frames = <<>>
    /\ request = "none" => ~up
    /\ request = "taken" <=> server.pc # "none"
    /\ server.pc = "none" => server.cause = "none" /\ ~server.cut /\ server.sends = 0
    /\ server.done <=> server.pc = "over"
    /\ server.seq = server.sends + (IF server.pc = "none" THEN 0 ELSE 1)
                                 + (IF server.pc = "over" THEN 1 ELSE 0)

\* Who canceled the run, and whether that cut its handler short.
RunCauses ==
    /\ cancels.flying => ended
    /\ server.cause = "canceled" => ended
    /\ server.cut /\ server.pc # "dead" => server.cause # "none"

\* The frames on their way are numbered as the client expects them, and the
\* terminal one, the last that is written, says how the run ended.
Numbered(f, i) ==
    /\ f.seq = client.next + i - 1
    /\ f.kind = Hello <=> f.seq = 0
    /\ f.kind = "event" <=> f.seq \in seen.sent
    /\ f.kind = "done" =>
          /\ server.pc = "over" /\ f.seq + 1 = server.seq
          /\ f.uncertain \/ server.cause \in {"none", "canceled"}
          /\ f.uncertain => netfaults > 0 \/ ended
FramesHold ==
    /\ client.next + Len(frames) <= server.seq
    /\ up => client.next + Len(frames) = server.seq
    /\ \A i \in 1..Len(frames) : Numbered(frames[i], i)

\* Until Town's context ends, every event that was read was relayed.
Relayed ==
    /\ \A n \in seen.sent : n < server.seq
    /\ ~ended => seen.heard = {n \in seen.sent : n < client.next}

\* What an answer says of the bot.
Answered ==
    client.pc = "over" =>
        /\ client.verdict # "none"
        /\ client.verdict = "unavailable" => request \in {"none", "lost"}
        /\ client.verdict = "result" =>
              /\ server.pc = "over"
              /\ ~ended => ~server.cut /\ seen.heard = seen.sent

\* Without a fault and a cancel the stream stands until its last frame is read.
Undisturbed ==
    netfaults = 0 /\ ~ended =>
        /\ client.pc \in {"headers", "stream"} => up /\ server.cause = "none"
        /\ client.pc = "over" => client.verdict = "result"

RunInv ==
    RunTypes /\ RunPlaces /\ RunCauses /\ FramesHold /\ Relayed /\ Answered /\ Undisturbed

-----------------------------------------------------------------------------
(***************************************************************************)
(* The operators of the model.                                              *)
(***************************************************************************)

LEMMA ReturnsWithSets ==
    ASSUME RunTypes, NEW v \in Verdicts, ReturnsWith(v)
    PROVE  /\ client' \in Clients /\ client'.pc = "over" /\ client'.verdict = v
           /\ client'.next = client.next
           /\ up' = FALSE /\ frames' = <<>> /\ frames' \in Seq(Frames) /\ Len(frames') = 0
<1>1. client' \in Clients /\ client'.pc = "over" /\ client'.verdict = v
      /\ client'.next = client.next
  BY DEF RunTypes, ReturnsWith, Clients
<1> QED
  BY <1>1 DEF ReturnsWith

LEMMA CanceledBySets ==
    ASSUME NEW s \in Servers, NEW c \in Causes
    PROVE  LET t == CanceledBy(s, c) IN
           /\ t \in Servers
           /\ t.pc = s.pc /\ t.seq = s.seq /\ t.sends = s.sends /\ t.done = s.done /\ t.cut = s.cut
           /\ t.cause = IF s.cause = "none" THEN c ELSE s.cause
BY DEF CanceledBy, Servers

\* A frame is written to a stream that stands, or its number is spent.

LEMMA NumberSets ==
    ASSUME NEW s \in Servers, NEW n \in Nat
    PROVE  LET t == [s EXCEPT !.seq = n, !.broken = TRUE]
               u == [s EXCEPT !.seq = n] IN
           /\ t \in Servers /\ t.seq = n /\ t.pc = s.pc /\ t.sends = s.sends
           /\ t.done = s.done /\ t.cut = s.cut /\ t.cause = s.cause
           /\ u \in Servers /\ u.seq = n /\ u.pc = s.pc /\ u.sends = s.sends
           /\ u.done = s.done /\ u.cut = s.cut /\ u.cause = s.cause
BY DEF Servers

\* A frame is written to a stream that stands, or its number is spent.
LEMMA WriteSets ==
    ASSUME RunTypes, NEW s \in Servers, NEW f \in Frames, Write(s, f)
    PROVE  /\ server' \in Servers /\ server'.seq = s.seq + 1
           /\ server'.pc = s.pc /\ server'.sends = s.sends
           /\ server'.done = s.done /\ server'.cut = s.cut
           /\ frames' \in Seq(Frames)
           /\ \/ /\ up /\ server'.cause = s.cause
                 /\ Len(frames') = Len(frames) + 1 /\ frames'[Len(frames) + 1] = f
                 /\ \A i \in 1..Len(frames) : frames'[i] = frames[i]
              \/ /\ ~up /\ frames' = frames
                 /\ server'.cause = IF s.cause = "none" THEN "gone" ELSE s.cause
<1> DEFINE n == s.seq + 1
<1>0. n \in Nat
  BY DEF Servers
<1>1. CASE up
  <2>1. server' = [s EXCEPT !.seq = n] /\ frames' = Append(frames, f)
    BY <1>1 DEF Write
  <2>2. /\ frames' \in Seq(Frames)
        /\ Len(frames') = Len(frames) + 1 /\ frames'[Len(frames) + 1] = f
        /\ \A i \in 1..Len(frames) : frames'[i] = frames[i]
    BY <2>1 DEF RunTypes
  <2> HIDE DEF n
  <2>3. /\ server' \in Servers /\ server'.seq = n /\ server'.pc = s.pc
        /\ server'.sends = s.sends /\ server'.done = s.done /\ server'.cut = s.cut
        /\ server'.cause = s.cause
    BY <1>0, <2>1, NumberSets
  <2> QED
    BY <1>1, <2>2, <2>3 DEF n
<1>2. CASE ~up
  <2> DEFINE t == [s EXCEPT !.seq = n, !.broken = TRUE]
  <2>1. server' = CanceledBy(t, "gone") /\ frames' = frames
    BY <1>2 DEF Write
  <2> HIDE DEF n
  <2>2. t \in Servers /\ t.seq = n /\ t.pc = s.pc /\ t.sends = s.sends
        /\ t.done = s.done /\ t.cut = s.cut /\ t.cause = s.cause
    BY <1>0, NumberSets
  <2> HIDE DEF t
  <2>3. /\ server' \in Servers /\ server'.seq = n /\ server'.pc = s.pc
        /\ server'.sends = s.sends /\ server'.done = s.done /\ server'.cut = s.cut
        /\ server'.cause = IF s.cause = "none" THEN "gone" ELSE s.cause
    BY <2>1, <2>2, CanceledBySets DEF Causes
  <2> QED
    BY <1>2, <2>1, <2>3 DEF RunTypes, n
<1> QED
  BY <1>1, <1>2 DEF RunTypes

LEMMA FrameOfType ==
    ASSUME RunTypes, NEW k \in Kinds, NEW u \in BOOLEAN
    PROVE  /\ FrameOf(k, u) \in Frames
           /\ FrameOf(k, u).seq = server.seq /\ FrameOf(k, u).kind = k
           /\ FrameOf(k, u).uncertain = u
BY DEF RunTypes, FrameOf, Frames, Servers

\* What is left of the frames when the connection ends.
LEMMA CutSets ==
    ASSUME RunTypes, NEW n \in 0..Len(frames)
    PROVE  LET g == SubSeq(frames, 1, n) IN
           /\ g \in Seq(Frames) /\ Len(g) = n
           /\ \A i \in 1..n : g[i] = frames[i]
BY DEF RunTypes

LEMMA ReadSets ==
    ASSUME RunTypes, frames # <<>>
    PROVE  /\ Len(frames) \in Nat \ {0} /\ Head(frames) = frames[1] /\ Head(frames) \in Frames
           /\ Tail(frames) \in Seq(Frames) /\ Len(Tail(frames)) = Len(frames) - 1
           /\ \A i \in 1..(Len(frames) - 1) : Tail(frames)[i] = frames[i + 1]
BY DEF RunTypes

-----------------------------------------------------------------------------
(***************************************************************************)
(* A run over the network: its invariant.                                   *)
(***************************************************************************)

LEMMA RunFields ==
    ASSUME RunTypes
    PROVE  /\ client.pc \in {"idle", "dial", "headers", "stream", "over"}
           /\ client.next \in Nat /\ client.verdict \in Verdicts
           /\ server.pc \in {"none", "running", "returned", "over", "dead"}
           /\ server.cause \in Causes /\ server.seq \in Nat /\ server.sends \in 0..MaxSends
           /\ server.done \in BOOLEAN /\ server.cut \in BOOLEAN
           /\ Len(frames) \in Nat /\ \A i \in 1..Len(frames) : frames[i] \in Frames
           /\ netfaults \in Nat /\ seen.sent \subseteq Nat /\ seen.heard \subseteq Nat
BY RunConstants DEF RunTypes, Clients, Servers

LEMMA RunInvInit == ASSUME RunInit PROVE RunInv
<1>1. RunTypes
  <2>1. client \in Clients /\ server \in Servers
    BY RunConstants DEF RunInit, Clients, Servers, Verdicts, Causes
  <2>2. cancels \in [left : 0..CancelTries, flying : BOOLEAN, taken : BOOLEAN]
    BY DEF RunInit, CancelTries
  <2>3. frames \in Seq(Frames) /\ seen \in [sent : SUBSET Nat, heard : SUBSET Nat]
    BY DEF RunInit
  <2>4. ended \in BOOLEAN /\ up \in BOOLEAN /\ request \in {"none", "flying", "taken", "lost"}
    BY DEF RunInit
  <2>5. netfaults \in 0..MaxNetFaults
    BY RunConstants DEF RunInit
  <2> QED
    BY <2>1, <2>2, <2>3, <2>4, <2>5 DEF RunTypes
<1>2. RunPlaces /\ RunCauses /\ Relayed /\ Answered /\ Undisturbed
  BY DEF RunInit, RunPlaces, RunCauses, Relayed, Answered, Undisturbed
<1>3. FramesHold
  BY DEF RunInit, FramesHold
<1> QED
  BY <1>1, <1>2, <1>3 DEF RunInv

\* Run returns: what its answer says must be so.
LEMMA ReturnKeeps ==
    ASSUME RunInv, NEW v \in Verdicts \ {"none"}, ReturnsWith(v),
           client.pc # "over", UNCHANGED <<ended, cancels, server, seen>>,
           request' = request \/ (request = "flying" /\ request' = "lost"),
           netfaults' \in {netfaults, netfaults + 1}, netfaults' \in 0..MaxNetFaults,
           v = "unavailable" => request' \in {"none", "lost"},
           v = "result" => /\ server.pc = "over"
                           /\ ~ended => ~server.cut /\ seen.heard = seen.sent,
           netfaults' = 0 => ended \/ v = "result"
    PROVE  RunInv'
<1>0. RunTypes
  BY DEF RunInv
<1>1. /\ client' \in Clients /\ client'.pc = "over" /\ client'.verdict = v
      /\ client'.next = client.next
      /\ up' = FALSE /\ frames' = <<>> /\ frames' \in Seq(Frames) /\ Len(frames') = 0
  BY <1>0, ReturnsWithSets
<1>2. RunTypes'
  BY <1>0, <1>1 DEF RunTypes
<1>3. RunPlaces' /\ RunCauses'
  BY <1>1 DEF RunInv, RunPlaces, RunCauses
<1>4. FramesHold' /\ Relayed'
  <2>2. Len(frames') = 0 /\ client'.next <= server'.seq
    BY <1>0, <1>1, RunFields DEF RunInv, FramesHold
  <2> QED
    BY <1>0, <1>1, <2>2, RunFields DEF RunInv, FramesHold, Relayed
<1>5. Answered' /\ Undisturbed'
  BY <1>1 DEF Answered, Undisturbed
<1> QED
  BY <1>2, <1>3, <1>4, <1>5 DEF RunInv

\* The bot writes its next frame.
LEMMA WriteKeeps ==
    ASSUME RunInv, NEW s \in Servers, NEW f \in Frames, Write(s, f),
           server.pc \in {"none", "running", "returned"}, client' = client, up' = up, ended' = ended, cancels' = cancels,
           netfaults' \in {netfaults, netfaults + 1}, netfaults' \in 0..MaxNetFaults,
           request' = request \/ (request = "flying" /\ request' = "taken"),
           request' = "taken", s.pc # "none",
           s.seq = server.seq, s.cause = server.cause, s.cut = server.cut,
           s.done <=> s.pc = "over", s.pc # "dead",
           s.seq + 1 = s.sends + 1 + (IF s.pc = "over" THEN 1 ELSE 0),
           f.seq = server.seq, f.kind = Hello <=> f.seq = 0,
           f.kind = "done" <=> s.pc = "over",
           f.kind = "done" /\ ~f.uncertain => s.cause \in {"none", "canceled"},
           f.kind = "done" /\ f.uncertain =>
               netfaults' > 0 \/ server.cause \notin {"none", "canceled"},
           seen' \in [sent : SUBSET Nat, heard : SUBSET Nat], seen'.heard = seen.heard,
           seen'.sent = IF f.kind = "event" THEN seen.sent \cup {f.seq} ELSE seen.sent
    PROVE  RunInv'
<1>0. RunTypes
  BY DEF RunInv
<1>1. /\ server' \in Servers /\ server'.seq = s.seq + 1
      /\ server'.pc = s.pc /\ server'.sends = s.sends
      /\ server'.done = s.done /\ server'.cut = s.cut
      /\ frames' \in Seq(Frames)
  BY <1>0, WriteSets
<1>2. \/ /\ up /\ server'.cause = s.cause
         /\ Len(frames') = Len(frames) + 1 /\ frames'[Len(frames) + 1] = f
         /\ \A i \in 1..Len(frames) : frames'[i] = frames[i]
      \/ /\ ~up /\ frames' = frames
         /\ server'.cause = IF s.cause = "none" THEN "gone" ELSE s.cause
  BY <1>0, WriteSets
<1>3. RunTypes'
  BY <1>0, <1>1 DEF RunTypes
<1>4. RunPlaces'
  BY <1>0, <1>1, <1>2, RunFields DEF RunInv, RunPlaces
<1>5. RunCauses'
  BY <1>0, <1>1, <1>2, RunFields DEF RunInv, RunCauses
<1>6. FramesHold'
  <2>1. Len(frames) \in Nat /\ client.next \in Nat /\ server.seq \in Nat
    BY <1>0, RunFields
  <2>2. ASSUME NEW i \in 1..Len(frames)
        PROVE  Numbered(frames[i], i)'
    <3>1. frames[i] \in Frames /\ frames'[i] = frames[i]
      BY <1>0, <1>2 DEF RunTypes
    <3>2. Numbered(frames[i], i)
      BY DEF RunInv, FramesHold
    <3>3. frames[i].seq < server.seq /\ frames[i].kind # "done"
      <4>1. frames[i].seq = client.next + i - 1 /\ client.next + Len(frames) <= server.seq
        BY <3>2 DEF RunInv, FramesHold, Numbered
      <4> QED
        BY <2>1, <3>2, <4>1 DEF Numbered
    <3> QED
      BY <2>1, <3>1, <3>2, <3>3 DEF Numbered, Frames
  <2>3. CASE up
    <3>0. /\ server'.cause = s.cause
          /\ Len(frames') = Len(frames) + 1 /\ frames'[Len(frames) + 1] = f
      BY <1>2, <2>3
    <3>1. client'.next + Len(frames') = server'.seq
      <4>1. client.next + Len(frames) = server.seq
        BY <2>3 DEF RunInv, FramesHold
      <4> QED
        BY <1>1, <2>1, <3>0, <4>1
    <3> PICK n \in Nat : n = Len(frames) + 1
      BY <2>1
    <3>2. Numbered(f, n)'
      <4>1. f.seq = client'.next + n - 1
        BY <2>1, <2>3 DEF RunInv, FramesHold
      <4>2. f.kind = "event" <=> f.seq \in seen'.sent
        BY <2>1 DEF RunInv, Relayed
      <4>3. f.kind = "done" /\ f.uncertain => netfaults' > 0 \/ ended
        BY <1>0, <2>3, RunFields DEF RunInv, RunPlaces, Undisturbed, Causes
      <4> QED
        BY <1>1, <2>1, <3>0, <4>1, <4>2, <4>3 DEF Numbered
    <3> QED
      <4>1. ASSUME NEW i \in 1..Len(frames')
            PROVE  Numbered(frames[i], i)'
        <5>1. CASE i = n
          BY <3>0, <3>2, <5>1 DEF Numbered
        <5>2. CASE i # n
          BY <2>1, <2>2, <3>0, <5>2
        <5> QED
          BY <5>1, <5>2
      <4> QED
        BY <1>1, <2>1, <3>0, <3>1, <4>1 DEF FramesHold
  <2>4. CASE ~up
    BY <1>1, <1>2, <2>1, <2>2, <2>4 DEF RunInv, FramesHold
  <2> QED
    BY <2>3, <2>4
<1>7. Relayed'
  <2>1. client.next <= server.seq /\ client.next \in Nat /\ server.seq \in Nat
    BY <1>0, RunFields DEF RunInv, FramesHold
  <2> QED
    BY <1>0, <1>1, <2>1, RunFields DEF RunInv, Relayed
<1>8. Answered'
  BY <1>0, <1>1 DEF RunInv, RunPlaces, Answered
<1>9. Undisturbed'
  BY <1>0, <1>1, <1>2, RunFields DEF RunInv, RunPlaces, Undisturbed
<1> QED
  BY <1>3, <1>4, <1>5, <1>6, <1>7, <1>8, <1>9 DEF RunInv

\* The connection ends, by itself or with the bot.
LEMMA CutKeeps ==
    ASSUME RunInv, NEW n \in 0..Len(frames), frames' = SubSeq(frames, 1, n), up' = FALSE,
           netfaults' = netfaults + 1, netfaults' \in 0..MaxNetFaults,
           client' = client, ended' = ended, cancels' = cancels, seen' = seen,
           \/ server' = server /\ (request' = request \/ (request = "flying" /\ request' = "lost"))
           \/ /\ server.pc \in {"running", "returned"} /\ request' = request
              /\ server' = [server EXCEPT !.pc = "dead", !.cut = TRUE]
    PROVE  RunInv'
<1>0. RunTypes
  BY DEF RunInv
<1>1. /\ server' \in Servers /\ server'.seq = server.seq /\ server'.cause = server.cause
      /\ server'.sends = server.sends /\ server'.done = server.done
      /\ \/ server'.pc = server.pc /\ server'.cut = server.cut
         \/ server.pc \in {"running", "returned"} /\ server'.pc = "dead"
  BY <1>0 DEF RunTypes, Servers
<1>2. /\ frames' \in Seq(Frames) /\ Len(frames') = n
      /\ \A i \in 1..n : frames'[i] = frames[i]
  BY <1>0, CutSets
<1>3. RunTypes'
  BY <1>0, <1>1, <1>2 DEF RunTypes
<1>4. RunPlaces' /\ RunCauses'
  BY <1>0, <1>1, <1>2, RunFields DEF RunInv, RunPlaces, RunCauses
<1>5. FramesHold'
  <2>1. n \in Nat /\ n <= Len(frames) /\ Len(frames) \in Nat /\ client.next \in Nat /\ server.seq \in Nat
    BY <1>0, RunFields
  <2>2. ASSUME NEW i \in 1..Len(frames')
        PROVE  Numbered(frames[i], i)'
    <3>1. i \in 1..Len(frames) /\ frames'[i] = frames[i]
      BY <1>2, <2>1
    <3>2. Numbered(frames[i], i)
      BY <3>1 DEF RunInv, FramesHold
    <3>3. frames[i].kind = "done" => server'.pc = "over" /\ netfaults' > 0
      BY <1>0, <1>1, <3>2, RunFields DEF Numbered
    <3> QED
      BY <1>1, <3>1, <3>2, <3>3 DEF Numbered
  <2> QED
    BY <1>1, <1>2, <2>1, <2>2 DEF RunInv, FramesHold
<1>6. Relayed'
  BY <1>1 DEF RunInv, Relayed
<1>7. Answered'
  BY <1>0, <1>1 DEF RunInv, RunPlaces, Answered
<1>8. Undisturbed'
  BY <1>0, RunFields DEF Undisturbed
<1> QED
  BY <1>3, <1>4, <1>5, <1>6, <1>7, <1>8 DEF RunInv

\* The frame that is next is the one the client expects, and the terminal one
\* is the last.
LEMMA NextFrame ==
    ASSUME RunInv, frames # <<>>
    PROVE  /\ Numbered(frames[1], 1) /\ Legal(Head(frames))
           /\ Head(frames).kind = "done" =>
                 Len(frames) = 1 /\ (~ended => ~server.cut \/ Head(frames).uncertain)
                 /\ (~ended => seen.heard = seen.sent)
<1>0. RunTypes
  BY DEF RunInv
<1>1. Len(frames) \in Nat \ {0} /\ Head(frames) = frames[1] /\ Head(frames) \in Frames
  BY <1>0, ReadSets
<1>2. Numbered(frames[1], 1)
  BY <1>1 DEF RunInv, FramesHold
<1>3. Legal(Head(frames))
  BY <1>0, <1>1, <1>2, RunFields DEF Legal, Numbered
<1>4. ASSUME Head(frames).kind = "done"
      PROVE  Len(frames) = 1 /\ (~ended => ~server.cut \/ Head(frames).uncertain)
             /\ (~ended => seen.heard = seen.sent)
  <2>1. frames[1].seq = client.next /\ frames[1].seq + 1 = server.seq /\ server.pc = "over"
        /\ frames[1].seq \notin seen.sent
        /\ (frames[1].uncertain \/ server.cause \in {"none", "canceled"})
    BY <1>0, <1>1, <1>2, <1>4, RunFields DEF Numbered
  <2>2. Len(frames) = 1
    <3>1. client.next + Len(frames) <= server.seq
      BY DEF RunInv, FramesHold
    <3>2. client.next \in Nat /\ server.seq = client.next + 1
      BY <1>0, <2>1, RunFields
    <3>3. Len(frames) \in Nat /\ Len(frames) # 0
      BY <1>1
    <3> DEFINE n == Len(frames)
               m == client.next
               k == server.seq
    <3>4. n \in Nat /\ n # 0 /\ m \in Nat /\ k = m + 1 /\ m + n <= k
      BY <3>1, <3>2, <3>3
    <3> HIDE DEF n, m, k
    <3>5. n = 1
      BY <3>4
    <3> QED
      BY <3>5 DEF n
  <2>3. ~ended => ~server.cut \/ frames[1].uncertain
    BY <2>1 DEF RunInv, RunCauses
  <2>4. ~ended => seen.heard = seen.sent
    <3>1. \A m \in seen.sent : m < client.next
      BY <1>0, <2>1, RunFields DEF RunInv, Relayed
    <3> QED
      BY <3>1 DEF RunInv, Relayed
  <2> QED
    BY <1>1, <2>2, <2>3, <2>4
<1> QED
  BY <1>2, <1>3, <1>4

\* A frame that is not the last is read.
LEMMA ReadKeeps ==
    ASSUME RunInv, client.pc \in {"headers", "stream"}, frames # <<>>,
           Head(frames).kind # "done",
           client' = [client EXCEPT !.pc = "stream", !.next = @ + 1],
           frames' = Tail(frames), up' = up,
           seen' = IF Head(frames).kind = "event" /\ ~ended
                   THEN [seen EXCEPT !.heard = @ \cup {Head(frames).seq}] ELSE seen,
           UNCHANGED <<ended, cancels, request, server, netfaults>>
    PROVE  RunInv'
<1>0. RunTypes
  BY DEF RunInv
<1> DEFINE f == Head(frames)
<1>1. /\ Len(frames) \in Nat \ {0} /\ f = frames[1] /\ f \in Frames
      /\ frames' \in Seq(Frames) /\ Len(frames') = Len(frames) - 1
      /\ \A i \in 1..(Len(frames) - 1) : frames'[i] = frames[i + 1]
  BY <1>0, ReadSets
<1>2. /\ client' \in Clients /\ client'.pc = "stream" /\ client'.next = client.next + 1
      /\ client'.verdict = client.verdict
  <2>1. client.next + 1 \in Nat
    BY <1>0, RunFields
  <2> DEFINE n == client.next + 1
  <2>2. client' = [client EXCEPT !.pc = "stream", !.next = n]
    OBVIOUS
  <2>3. n \in Nat
    BY <2>1
  <2> HIDE DEF n
  <2>4. client' \in Clients /\ client'.pc = "stream" /\ client'.next = n
        /\ client'.verdict = client.verdict
    BY <1>0, <2>2, <2>3 DEF RunTypes, Clients
  <2> QED
    BY <2>4 DEF n
<1>3. f.seq \in Nat /\ f.seq = client.next /\ (f.kind = "event" <=> f.seq \in seen.sent)
  BY <1>0, <1>1, NextFrame, RunFields DEF Numbered, Frames
<1>4. /\ seen' \in [sent : SUBSET Nat, heard : SUBSET Nat] /\ seen'.sent = seen.sent
      /\ seen'.heard = IF f.kind = "event" /\ ~ended THEN seen.heard \cup {f.seq} ELSE seen.heard
  BY <1>0, <1>3 DEF RunTypes
<1>5. RunTypes'
  BY <1>0, <1>1, <1>2, <1>4 DEF RunTypes
<1>6. RunPlaces' /\ RunCauses'
  BY <1>0, <1>1, <1>2, RunFields DEF RunInv, RunPlaces, RunCauses
<1>7. FramesHold'
  <2>1. client.next \in Nat /\ server.seq \in Nat
    BY <1>0, RunFields
  <2>2. ASSUME NEW i \in 1..Len(frames')
        PROVE  Numbered(frames[i], i)'
    <3>1. i \in Nat /\ i + 1 \in 1..Len(frames) /\ frames'[i] = frames[i + 1]
      BY <1>1, <2>2
    <3>2. Numbered(frames[i + 1], i + 1)
      BY <3>1 DEF RunInv, FramesHold
    <3>3. frames[i + 1].seq = client.next + 1 + i - 1
      <4>1. frames[i + 1].seq = client.next + (i + 1) - 1
        BY <3>2 DEF Numbered
      <4> QED
        BY <2>1, <3>1, <4>1
    <3> QED
      BY <1>2, <1>4, <3>1, <3>2, <3>3 DEF Numbered
  <2>3. client'.next + Len(frames') = client.next + Len(frames)
    BY <1>1, <1>2, <2>1
  <2> QED
    BY <1>1, <2>1, <2>2, <2>3 DEF RunInv, FramesHold
<1>8. Relayed'
  <2>1. client.next \in Nat /\ seen.sent \subseteq Nat
    BY <1>0, RunFields
  <2>2. \A m \in seen.sent : m < client.next + 1 <=> m < client.next \/ m = f.seq
    BY <1>3, <2>1
  <2> QED
    BY <1>2, <1>3, <1>4, <2>1, <2>2 DEF RunInv, Relayed
<1>9. Answered' /\ Undisturbed'
  BY <1>2 DEF RunInv, Answered, Undisturbed
<1> QED
  BY <1>5, <1>6, <1>7, <1>8, <1>9 DEF RunInv

\* The actions in which Run returns.
LEMMA ReturningSteps ==
    ASSUME RunInv,
           \/ Call /\ ended
           \/ DialFails \/ Refused \/ GatewayFails \/ ReadBreak \/ GoesSilent \/ GraceEnds
           \/ ReadFrame /\ (Legal(Head(frames)) => Head(frames).kind = "done")
    PROVE  RunInv'
<1>0. RunTypes
  BY DEF RunInv
<1>1. netfaults \in Nat /\ (NetFault => netfaults' \in 0..MaxNetFaults /\ netfaults' # 0)
  BY <1>0, RunConstants, RunFields DEF NetFault
<1> USE DEF Verdicts
<1>2. CASE Call /\ ended
  BY <1>0, <1>2, ReturnKeeps DEF Call, RunTypes, RunInv, RunPlaces
<1>3. CASE DialFails
  <2>1. request = "none" /\ client.pc = "dial"
    BY <1>3 DEF DialFails, RunInv, RunPlaces
  <2> QED
    BY <1>1, <1>3, <2>1, ReturnKeeps DEF DialFails, NetFault
<1>4. CASE Refused
  BY <1>1, <1>4, ReturnKeeps DEF Refused, NetFault
<1>5. CASE GatewayFails
  BY <1>1, <1>5, ReturnKeeps DEF GatewayFails, NetFault, Uncertain
<1>6. CASE ReadBreak
  BY <1>0, <1>6, ReturnKeeps DEF ReadBreak, Uncertain, RunInv, RunTypes, Undisturbed
<1>7. CASE GoesSilent
  BY <1>1, <1>7, ReturnKeeps DEF GoesSilent, NetFault, Uncertain
<1>8. CASE GraceEnds
  BY <1>0, <1>8, ReturnKeeps DEF GraceEnds, Uncertain, InCall, RunTypes
<1>9. CASE ReadFrame /\ (Legal(Head(frames)) => Head(frames).kind = "done")
  <2> DEFINE f == Head(frames)
             v == IF f.uncertain \/ Len(frames) > 1 THEN "uncertain" ELSE "result"
  <2>1. /\ client.pc \in {"headers", "stream"} /\ frames # <<>>
        /\ UNCHANGED <<ended, cancels, request, server, netfaults>>
    BY <1>9 DEF ReadFrame
  <2>2. /\ Legal(f) /\ f.kind = "done" /\ Len(frames) = 1 /\ f = frames[1] /\ f.uncertain \in BOOLEAN
        /\ (~ended => ~server.cut \/ f.uncertain) /\ (~ended => seen.heard = seen.sent)
        /\ Numbered(f, 1)
    BY <1>0, <1>9, <2>1, NextFrame, ReadSets DEF Frames
  <2>3. ReturnsWith(v) /\ seen' = seen
    BY <1>9, <2>2 DEF ReadFrame
  <2>4. v = IF f.uncertain THEN "uncertain" ELSE "result"
    BY <2>2
  <2>5. server.pc = "over" /\ (f.uncertain => netfaults > 0 \/ ended)
    BY <2>2 DEF Numbered
  <2> HIDE DEF v
  <2>6. /\ v \in Verdicts \ {"none"} /\ v # "unavailable"
        /\ v = "result" => server.pc = "over" /\ (~ended => ~server.cut /\ seen.heard = seen.sent)
        /\ netfaults' = 0 => ended \/ v = "result"
    BY <1>1, <2>1, <2>2, <2>4, <2>5
  <2>7. netfaults' \in 0..MaxNetFaults /\ netfaults' = netfaults
    BY <1>0, <2>1 DEF RunTypes
  <2> QED
    BY <2>1, <2>3, <2>6, <2>7, ReturnKeeps
<1> QED
  BY <1>2, <1>3, <1>4, <1>5, <1>6, <1>7, <1>8, <1>9

\* The actions in which the bot writes a frame.
LEMMA WritingSteps ==
    ASSUME RunInv, Accept \/ Heartbeat \/ Emit \/ Finish
    PROVE  RunInv'
<1>0. RunTypes
  BY DEF RunInv
<1>1. netfaults \in 0..MaxNetFaults /\ netfaults \in Nat /\ (NetFault => netfaults' \in 0..MaxNetFaults)
  BY <1>0, RunConstants, RunFields DEF NetFault, RunTypes
<1>2. server \in Servers /\ server.seq \in Nat /\ server.sends \in 0..MaxSends
  BY <1>0, RunFields DEF RunTypes
<1>3. seen \in [sent : SUBSET Nat, heard : SUBSET Nat]
  BY <1>0 DEF RunTypes
<1>4. server.seq = server.sends + (IF server.pc = "none" THEN 0 ELSE 1)
                                + (IF server.pc = "over" THEN 1 ELSE 0)
      /\ (server.done <=> server.pc = "over") /\ (request = "taken" <=> server.pc # "none")
      /\ (server.pc = "none" => server.sends = 0)
  BY DEF RunInv, RunPlaces
<1> USE DEF Kinds, Hello, Beat
<1>5. CASE Accept
  <2> DEFINE s == [server EXCEPT !.pc = "running"]
             f == FrameOf(Hello, FALSE)
  <2>1. server.pc = "none" /\ server.seq = 0
    BY <1>2, <1>4, <1>5 DEF Accept
  <2>2. /\ s \in Servers /\ s.pc = "running" /\ s.seq = server.seq /\ s.cause = server.cause
        /\ s.cut = server.cut /\ s.done = server.done /\ s.sends = server.sends
    BY <1>2 DEF Servers
  <2>3. f \in Frames /\ f.seq = server.seq /\ f.kind = Hello
    BY <1>0, FrameOfType
  <2>4. Write(s, f) /\ request = "flying" /\ request' = "taken"
        /\ UNCHANGED <<client, ended, cancels, up, netfaults, seen>>
    BY <1>5 DEF Accept
  <2> HIDE DEF s, f
  <2> QED
    BY <1>1, <1>2, <1>3, <1>4, <2>1, <2>2, <2>3, <2>4, WriteKeeps
<1>6. CASE Heartbeat \/ Emit
  <2> PICK k \in {Beat, "event"} :
        /\ server.pc = "running" /\ Sending
        /\ Write([server EXCEPT !.sends = @ + 1], FrameOf(k, FALSE))
        /\ seen' = IF k = "event" THEN [seen EXCEPT !.sent = @ \cup {server.seq}] ELSE seen
        /\ UNCHANGED <<client, ended, cancels, request, up, netfaults>>
    BY <1>6 DEF Heartbeat, Emit
  <2> DEFINE n == server.sends + 1
             s == [server EXCEPT !.sends = n]
             f == FrameOf(k, FALSE)
  <2>1. n \in 0..MaxSends /\ server.seq # 0
    BY <1>2, <1>4, RunConstants DEF Sending
  <2>2. seen' \in [sent : SUBSET Nat, heard : SUBSET Nat] /\ seen'.heard = seen.heard
        /\ seen'.sent = IF k = "event" THEN seen.sent \cup {server.seq} ELSE seen.sent
    BY <1>2, <1>3
  <2>3. f \in Frames /\ f.seq = server.seq /\ f.kind = k
    BY <1>0, FrameOfType
  <2> HIDE DEF n
  <2>4. /\ s \in Servers /\ s.pc = server.pc /\ s.seq = server.seq /\ s.cause = server.cause
        /\ s.cut = server.cut /\ s.done = server.done /\ s.sends = n
    BY <1>2, <2>1 DEF Servers
  <2>5. Write(s, f)
    BY DEF n
  <2>6. s.seq + 1 = s.sends + 1 + 0
    BY <1>2, <1>4, <2>4 DEF n
  <2> HIDE DEF s, f
  <2> QED
    BY <1>1, <1>2, <1>4, <2>1, <2>2, <2>3, <2>4, <2>5, <2>6, WriteKeeps
<1>7. CASE Finish
  <2> PICK tooLarge \in BOOLEAN :
        /\ IF tooLarge THEN NetFault ELSE UNCHANGED netfaults
        /\ Write([server EXCEPT !.pc = "over", !.done = TRUE],
                 FrameOf("done", tooLarge \/ server.cause \notin {"none", "canceled"}))
    BY <1>7 DEF Finish
  <2> DEFINE s == [server EXCEPT !.pc = "over", !.done = TRUE]
             u == tooLarge \/ server.cause \notin {"none", "canceled"}
             f == FrameOf("done", u)
  <2>1. server.pc = "returned" /\ UNCHANGED <<client, ended, cancels, request, up, seen>>
    BY <1>7 DEF Finish
  <2>2. /\ s \in Servers /\ s.pc = "over" /\ s.seq = server.seq /\ s.cause = server.cause
        /\ s.cut = server.cut /\ s.done = TRUE /\ s.sends = server.sends
    BY <1>2 DEF Servers
  <2>3. f \in Frames /\ f.seq = server.seq /\ f.kind = "done" /\ f.uncertain = u
    BY <1>0, FrameOfType
  <2>4. netfaults' \in {netfaults, netfaults + 1} /\ netfaults' \in 0..MaxNetFaults
        /\ (tooLarge => netfaults' > 0)
    BY <1>1 DEF NetFault
  <2>5. Write(s, f)
    OBVIOUS
  <2>6. server.seq # 0 /\ server.seq + 1 = server.sends + 1 + 1
    BY <1>2, <1>4, <2>1
  <2> HIDE DEF s, f
  <2> QED
    BY <1>1, <1>2, <1>3, <1>4, <2>1, <2>2, <2>3, <2>4, <2>5, <2>6, WriteKeeps
<1> QED
  BY <1>5, <1>6, <1>7

\* A step that leaves the frames and their numbers alone keeps what is said of
\* them, as long as the run's causes of ending do not change under a frame.
LEMMA FramesStay ==
    ASSUME RunTypes, FramesHold, UNCHANGED <<frames, seen>>,
           client'.next = client.next, server'.seq = server.seq,
           up' => client.next + Len(frames) = server.seq,
           netfaults' \in {netfaults, netfaults + 1}, ended => ended',
           \/ server' = server
           \/ server.pc # "over"
    PROVE  FramesHold'
<1>1. Len(frames) \in Nat /\ client.next \in Nat /\ server.seq \in Nat /\ netfaults \in Nat
  BY RunFields
<1>2. ASSUME NEW i \in 1..Len(frames')
      PROVE  Numbered(frames[i], i)'
  <2>1. Numbered(frames[i], i)
    BY DEF FramesHold
  <2>2. frames[i].kind = "done" => /\ server'.pc = "over" /\ server'.cause = server.cause
                                   /\ netfaults > 0 \/ ended => netfaults' > 0 \/ ended'
    BY <1>1, <2>1 DEF Numbered
  <2> QED
    BY <2>1, <2>2 DEF Numbered
<1> QED
  BY <1>1, <1>2 DEF FramesHold

\* The bot's context ends, or its handler returns.
LEMMA ServerKeeps ==
    ASSUME RunInv, server.pc \in {"running", "returned"}, server' \in Servers,
           UNCHANGED <<client, ended, request, frames, up, seen>>,
           server'.seq = server.seq, server'.sends = server.sends, server'.done = server.done,
           server'.pc \in {"running", "returned"},
           server'.cut => server'.cause # "none",
           server'.cause = "canceled" => ended,
           server'.cause = server.cause \/ ended \/ ~up \/ netfaults' > 0,
           cancels' \in [left : 0..CancelTries, flying : BOOLEAN, taken : BOOLEAN],
           cancels'.flying => ended,
           netfaults' \in {netfaults, netfaults + 1}, netfaults' \in 0..MaxNetFaults
    PROVE  RunInv'
<1>0. RunTypes
  BY DEF RunInv
<1>1. RunTypes'
  BY <1>0 DEF RunTypes
<1>2. RunPlaces' /\ RunCauses'
  BY <1>0, RunFields DEF RunInv, RunPlaces, RunCauses
<1>3. FramesHold'
  BY <1>0, FramesStay DEF RunInv, FramesHold
<1>4. Relayed' /\ Answered'
  BY DEF RunInv, Relayed, Answered
<1>5. Undisturbed'
  BY <1>0, RunFields DEF RunInv, Undisturbed
<1> QED
  BY <1>1, <1>2, <1>3, <1>4, <1>5 DEF RunInv

\* Steps of the client and of its cancel requests in which it does not return.
LEMMA ClientKeeps ==
    ASSUME RunInv, client' \in Clients, UNCHANGED <<frames, server, seen>>,
           client'.next = client.next, client.pc # "over" => client'.pc # "over",
           client.pc = "over" => client' = client,
           ended' \in BOOLEAN, ended => ended', netfaults' \in {netfaults, netfaults + 1},
           netfaults' \in 0..MaxNetFaults,
           cancels' \in [left : 0..CancelTries, flying : BOOLEAN, taken : BOOLEAN],
           cancels'.flying => ended',
           \/ UNCHANGED <<request, up>> /\ (client'.pc \in {"idle", "dial"} => request = "none")
              /\ (client'.pc \in {"headers", "stream"} => client' = client)
           \/ client.pc = "dial" /\ client'.pc = "headers" /\ request' = "flying" /\ up' = TRUE
    PROVE  RunInv'
<1>0. RunTypes
  BY DEF RunInv
<1>1. RunTypes'
  BY <1>0 DEF RunTypes
<1>2. client.pc = "dial" => request = "none" /\ ~up /\ server.pc = "none" /\ server.cause = "none"
                            /\ server.seq = 0
  <2>1. client.pc = "dial" => request = "none" /\ ~up /\ server.pc = "none" /\ server.cause = "none"
                              /\ server.sends = 0
    BY DEF RunInv, RunPlaces
  <2>2. server.seq = server.sends + (IF server.pc = "none" THEN 0 ELSE 1)
                                  + (IF server.pc = "over" THEN 1 ELSE 0)
    BY DEF RunInv, RunPlaces
  <2> QED
    BY <2>1, <2>2
<1>3. RunPlaces' /\ RunCauses'
  BY <1>0, <1>2, RunFields DEF RunInv, RunPlaces, RunCauses
<1>4. FramesHold'
  <2>1. client.pc = "dial" => client.next + Len(frames) = server.seq
    BY <1>0, <1>2, RunFields DEF RunInv, FramesHold
  <2> QED
    BY <1>0, <2>1, FramesStay DEF RunInv, FramesHold
<1>5. Relayed' /\ Answered'
  BY DEF RunInv, Relayed, Answered
<1>6. Undisturbed'
  BY <1>0, <1>2, RunFields DEF RunInv, Undisturbed
<1> QED
  BY <1>1, <1>3, <1>4, <1>5, <1>6 DEF RunInv

LEMMA RunInvStep == RunInv /\ [RunNext]_botrun => RunInv'
<1> SUFFICES ASSUME RunInv, [RunNext]_botrun PROVE RunInv'
  OBVIOUS
<1>0. RunTypes
  BY DEF RunInv
<1>1. /\ client \in Clients /\ server \in Servers /\ netfaults \in Nat
      /\ netfaults \in 0..MaxNetFaults /\ ended \in BOOLEAN
      /\ cancels \in [left : 0..CancelTries, flying : BOOLEAN, taken : BOOLEAN]
      /\ NetFault => netfaults' = netfaults + 1 /\ netfaults' \in 0..MaxNetFaults /\ netfaults' > 0
  BY <1>0, RunConstants, RunFields DEF RunTypes, NetFault
<1>2. (cancels.flying => ended) /\ (server.cause = "canceled" => ended)
      /\ (server.cut /\ server.pc # "dead" => server.cause # "none")
  BY DEF RunInv, RunCauses
<1>3. CASE Call /\ ~ended
  <2>1. client.pc = "idle" /\ client' = [client EXCEPT !.pc = "dial"]
        /\ UNCHANGED <<up, frames, ended, cancels, request, server, netfaults, seen>>
    BY <1>3 DEF Call
  <2>2. client' \in Clients /\ client'.pc = "dial" /\ client'.next = client.next
    BY <1>1, <2>1 DEF Clients
  <2>3. request = "none"
    BY <2>1 DEF RunInv, RunPlaces
  <2> QED
    BY <1>1, <1>2, <2>1, <2>2, <2>3, ClientKeeps
<1>4. CASE CtxEnds
  <2>1. client.pc # "over" /\ ended' = TRUE
        /\ UNCHANGED <<client, cancels, request, frames, up, server, netfaults, seen>>
        /\ (client.pc \in {"idle", "dial"} => request = "none")
    BY <1>4 DEF CtxEnds, RunInv, RunPlaces
  <2> QED
    BY <1>1, <2>1, ClientKeeps
<1>5. CASE SendRequest
  <2>1. client.pc = "dial" /\ client' = [client EXCEPT !.pc = "headers"]
        /\ request' = "flying" /\ up' = TRUE
        /\ UNCHANGED <<ended, cancels, frames, server, netfaults, seen>>
    BY <1>5 DEF SendRequest
  <2>2. client' \in Clients /\ client'.pc = "headers" /\ client'.next = client.next
    BY <1>1, <2>1 DEF Clients
  <2> QED
    BY <1>1, <1>2, <2>1, <2>2, ClientKeeps
<1>6. CASE SendCancel
  <2>1. client.pc \in {"dial", "headers", "stream"} /\ ended /\ cancels.left > 0
        /\ cancels' = [cancels EXCEPT !.left = @ - 1, !.flying = TRUE]
        /\ UNCHANGED <<client, ended, request, frames, up, server, netfaults, seen>>
        /\ (client.pc = "dial" => request = "none")
    BY <1>6 DEF SendCancel, InCall, RunInv, RunPlaces
  <2>2. cancels.left - 1 \in 0..CancelTries
    BY <1>1, <2>1 DEF CancelTries
  <2>3. cancels' \in [left : 0..CancelTries, flying : BOOLEAN, taken : BOOLEAN]
    BY <1>1, <2>1, <2>2
  <2> QED
    BY <1>1, <2>1, <2>3, ClientKeeps
<1>7. CASE CancelMisses
  <2>1. cancels.flying /\ cancels' = [cancels EXCEPT !.flying = FALSE]
        /\ UNCHANGED <<client, ended, request, frames, up, server, seen>>
        /\ (NetFault \/ UNCHANGED netfaults)
        /\ (client.pc \in {"idle", "dial"} => request = "none")
    BY <1>7 DEF CancelMisses, RunInv, RunPlaces
  <2>2. cancels' \in [left : 0..CancelTries, flying : BOOLEAN, taken : BOOLEAN]
    BY <1>1, <2>1
  <2> QED
    BY <1>1, <1>2, <2>1, <2>2, ClientKeeps
<1>8. CASE ReadFrame /\ Legal(Head(frames)) /\ Head(frames).kind # "done"
  <2> DEFINE f == Head(frames)
             client2 == [client EXCEPT !.pc = "stream", !.next = @ + 1]
             seen2 == [seen EXCEPT !.heard = @ \cup {f.seq}]
  <2>1. /\ client.pc \in {"headers", "stream"} /\ frames # <<>>
        /\ IF ~Legal(f) THEN Uncertain /\ UNCHANGED seen
           ELSE IF f.kind = "done" THEN
                /\ ReturnsWith(IF f.uncertain \/ Len(frames) > 1 THEN "uncertain" ELSE "result")
                /\ UNCHANGED seen
           ELSE /\ client' = client2 /\ frames' = Tail(frames) /\ UNCHANGED up
                /\ seen' = IF f.kind = "event" /\ ~ended THEN seen2 ELSE seen
        /\ UNCHANGED <<ended, cancels, request, server, netfaults>>
    BY <1>8 DEF ReadFrame
  <2> HIDE DEF client2, seen2
  <2>2. /\ client' = client2 /\ frames' = Tail(frames) /\ up' = up
        /\ seen' = IF f.kind = "event" /\ ~ended THEN seen2 ELSE seen
    BY <1>8, <2>1
  <2> USE DEF client2, seen2
  <2>3. client' = [client EXCEPT !.pc = "stream", !.next = @ + 1]
    BY <2>2
  <2>4. seen' = IF f.kind = "event" /\ ~ended THEN [seen EXCEPT !.heard = @ \cup {f.seq}] ELSE seen
    BY <2>2
  <2> HIDE DEF client2, seen2
  <2> QED
    BY <1>8, <2>1, <2>2, <2>3, <2>4, ReadKeeps
<1>9. CASE Disconnect
  <2> PICK n \in 0..Len(frames) : frames' = SubSeq(frames, 1, n)
    BY <1>9 DEF Disconnect
  <2> QED
    BY <1>1, <1>9, CutKeeps DEF Disconnect
<1>10. CASE Die
  <2> PICK n \in 0..Len(frames) : frames' = SubSeq(frames, 1, n)
    BY <1>10 DEF Die
  <2> QED
    BY <1>1, <1>10, CutKeeps DEF Die, Active
<1>11. CASE Return
  <2> PICK c \in {FALSE, server.cause # "none"} :
         server' = [server EXCEPT !.pc = "returned", !.cut = c]
    BY <1>11 DEF Return
  <2>1. server.pc = "running" /\ UNCHANGED <<client, ended, cancels, request, frames, up, netfaults, seen>>
    BY <1>11 DEF Return
  <2>2. c \in BOOLEAN /\ (c => server.cause # "none")
    OBVIOUS
  <2>3. /\ server' \in Servers /\ server'.pc = "returned" /\ server'.cut = c
        /\ server'.seq = server.seq /\ server'.sends = server.sends /\ server'.done = server.done
        /\ server'.cause = server.cause
    BY <1>1, <2>2 DEF Servers
  <2> QED
    BY <1>1, <1>2, <2>1, <2>2, <2>3, ServerKeeps
<1>12. CASE ServiceGone \/ CancelArrives \/ Shutdown
  <2> PICK cause \in {"gone", "canceled", "shutdown"} :
        /\ server.pc \in {"running", "returned"} /\ server' = CanceledBy(server, cause)
        /\ cause = "gone" => ~up
        /\ cause = "canceled" => cancels.flying
        /\ IF cause = "shutdown" THEN NetFault ELSE UNCHANGED netfaults
        /\ cancels' = IF cause = "canceled" THEN [cancels EXCEPT !.flying = FALSE, !.taken = TRUE]
                      ELSE cancels
        /\ UNCHANGED <<client, ended, request, frames, up, seen>>
    <3>1. CASE ServiceGone
      BY <3>1 DEF ServiceGone, Active
    <3>2. CASE CancelArrives
      BY <3>2 DEF CancelArrives, Active
    <3>3. CASE Shutdown
      BY <3>3 DEF Shutdown, Active
    <3> QED
      BY <1>12, <3>1, <3>2, <3>3
  <2>1. /\ server' \in Servers /\ server'.pc = server.pc /\ server'.cut = server.cut
        /\ server'.seq = server.seq /\ server'.sends = server.sends /\ server'.done = server.done
        /\ server'.cause = IF server.cause = "none" THEN cause ELSE server.cause
    BY <1>1, CanceledBySets DEF Causes
  <2>2. cancels' \in [left : 0..CancelTries, flying : BOOLEAN, taken : BOOLEAN]
        /\ (cancels'.flying => cancels.flying)
    BY <1>1
  <2>3. netfaults' \in {netfaults, netfaults + 1} /\ netfaults' \in 0..MaxNetFaults
        /\ (cause = "shutdown" => netfaults' > 0)
    BY <1>1
  <2> QED
    BY <1>2, <2>1, <2>2, <2>3, ServerKeeps
<1>13. CASE UNCHANGED botrun
  BY <1>13 DEF botrun, RunInv, RunTypes, RunPlaces, RunCauses, FramesHold, Numbered, Relayed,
               Answered, Undisturbed
<1>14. QED
  BY <1>3, <1>4, <1>5, <1>6, <1>7, <1>8, <1>9, <1>10, <1>11, <1>12, <1>13,
     ReturningSteps, WritingSteps DEF RunNext

LEMMA RunInvHolds == RunInv => RunHolds
<1> SUFFICES ASSUME RunInv PROVE RunHolds
  OBVIOUS
<1>0. RunTypes
  BY DEF RunInv
<1>1. RunTypeOK
  <2>1. server.seq \in 0..(MaxSends + 2) /\ client.next \in 0..(MaxSends + 2)
    <3>1. server.seq <= MaxSends + 2
      BY <1>0, RunConstants, RunFields DEF RunInv, RunPlaces
    <3>2. client.next <= server.seq
      BY <1>0, RunFields DEF RunInv, FramesHold
    <3> QED
      BY <1>0, <3>1, <3>2, RunConstants, RunFields
  <2>2. cancels.left \in 0..CancelTries
    BY <1>0 DEF RunTypes
  <2>3. \A i \in DOMAIN frames : frames[i].kind \in Kinds
    <3>1. DOMAIN frames = 1..Len(frames)
      BY <1>0 DEF RunTypes
    <3> QED
      BY <1>0, <3>1, RunFields DEF Frames
  <2> QED
    BY <1>0, <2>1, <2>2, <2>3, RunFields DEF RunTypes, RunTypeOK
<1>2. SettledIsSettled
  BY <1>0, RunFields DEF RunInv, RunPlaces, Answered, SettledIsSettled, Interrupted, Verdicts
<1>3. NoFalseAlarm
  BY DEF RunInv, Undisturbed, NoFalseAlarm
<1> QED
  BY <1>1, <1>2, <1>3 DEF RunHolds

(* A run over the network ends with an answer that is true of the bot: Town   *)
(* sends the work again only if the bot never began and applies only a whole  *)
(* result, and without a fault or a cancel it has one to apply; for any       *)
(* number of frames, faults and crashes (Client.Run, frameWriter).            *)
THEOREM RunsAnswerTruly == RunSpec => []RunHolds
<1>1. RunInit => RunInv
  BY RunInvInit
<1> QED
  BY <1>1, RunInvStep, RunInvHolds, PTL DEF RunSpec

-----------------------------------------------------------------------------
(***************************************************************************)
(* The sessions of Mjolnir: the invariant.                                  *)
(***************************************************************************)

Records  == {"absent", "destroyed"} \cup Unresolved
Kepts    == [complete : BOOLEAN, head : Nat, bundle : Nat, seq : Nat]
Sessions == [life : {"none", "live", "stopped", "ending", "gone"}, by : Nat, base : Nat,
             head : Nat, dirty : BOOLEAN, seq : Nat, last : {"none", "town", "other"},
             busy : BOOLEAN, ordinal : {0, 1}, late : BOOLEAN]

\* The steps of one run, and those from the first reading of its diff to the
\* saving of its evidence.
Seconds == {"transcript", "clean", "export", "recheck", "end", "save"}
Before  == {"create", "ready?", "configure", "mark", "prompt", "turn", "idle?", "collect"}
             \cup Seconds
Steps   == Before \cup {"import", "destroy", "post", "poll"}
Between == {"off", "bot", "finish"}

Jobs == [pc : Between \cup Steps, n : Nat, repair : BOOLEAN, runs : SUBSET Runs,
                cur : Runs \cup {0}, failed : BOOLEAN, head : Nat, seq : Nat, bundle : Nat]

ManagedTypes ==
    /\ record \in [Runs -> Records] /\ held \in [Runs -> Records]
    /\ kept \in [Runs -> Kepts] /\ session \in [Runs -> Sessions]
    /\ dispatch \in Jobs
    /\ checkout \in Nat /\ touches \in 0..MaxTouches /\ mfaults \in 0..MaxManagedFaults

Started == {r \in Runs : record[r] # "absent"}

\* A run without a record has no session, and one that is destroyed none any more.
FreshRuns ==
    \A r \in Runs :
        /\ record[r] = "absent" => session[r].by = 0 /\ ~kept[r].complete
        /\ record[r] = "destroyed" => session[r].life = "gone"

\* Only the dispatch that is in progress, or was the last, has sessions.
Dispatches ==
    /\ ~At("off") => dispatch.n # 0
    /\ dispatch.n <= Cardinality(Started) + 1
    /\ Cardinality(dispatch.runs) <= DispatchLimit
    /\ dispatch.runs \subseteq Started
    /\ \A r \in Runs : /\ session[r].by <= dispatch.n
                       /\ session[r].by # dispatch.n => session[r].by = 0 \/ session[r].life = "gone"

\* What each step of a run finds on disk and in the session.
AtWork ==
    /\ dispatch.pc \in Steps => cur \in dispatch.runs
    /\ dispatch.pc \in Steps \ {"destroy"} => record[cur] # "destroyed"
    /\ dispatch.pc \in Before => ~kept[cur].complete
    /\ dispatch.pc \in {"idle?", "collect"} \cup Seconds => ~mine.busy
    /\ At("import") => record[cur] = "evidence" /\ kept[cur].complete
                       /\ kept[cur].bundle = dispatch.bundle /\ dispatch.repair
    /\ dispatch.pc \in {"post", "poll"} => kept[cur].complete
    /\ At("post") => mine.life \in {"live", "stopped"}

\* What was read of the session, and how the session may have moved since.
Gathered ==
    /\ ~dispatch.repair => dispatch.bundle = None /\ dispatch.pc \notin {"clean", "export"}
    /\ dispatch.pc \in Seconds => dispatch.head <= mine.head
    /\ dispatch.pc \in Seconds \ {"transcript"} => dispatch.seq <= mine.seq
    /\ At("recheck") /\ dispatch.repair =>
          dispatch.head <= dispatch.bundle /\ dispatch.bundle <= mine.head
    /\ dispatch.pc \in {"end", "save"} /\ dispatch.repair => dispatch.bundle = dispatch.head
    /\ At("end") /\ ~mine.late /\ mine.seq = dispatch.seq => Untouched(mine)
    /\ At("save") /\ ~mine.late => Untouched(mine) /\ mine.seq = dispatch.seq

\* EvidenceIsTheWork, and that a session whose evidence is kept works no more.
Proven(r) ==
    /\ kept[r].complete => ~session[r].busy
    /\ kept[r].complete /\ ~session[r].late =>
          /\ Clean(session[r], kept[r].head) /\ session[r].seq = kept[r].seq
          /\ kept[r].bundle \in {None, kept[r].head}
    /\ session[r].life \in {"ending", "gone"} => kept[r].complete

ManagedInv ==
    /\ ManagedTypes /\ FreshRuns /\ Dispatches /\ AtWork /\ Gathered
    /\ (\A r \in Runs : Proven(r)) /\ CheckoutIsEvidenced

-----------------------------------------------------------------------------
(***************************************************************************)
(* The operators of the model.                                              *)
(***************************************************************************)

LEMMA ManagedNumbers ==
    /\ MaxSessions \in Nat /\ DispatchLimit \in Nat /\ MaxWork \in Nat
    /\ MaxTouches \in Nat /\ MaxManagedFaults \in Nat
    /\ None \in Nat /\ Runs \subseteq Nat \ {0} /\ IsFiniteSet(Runs)
<1>1. MaxSessions \in Nat
  BY ManagedConstants
<1>2. IsFiniteSet(Runs)
  BY <1>1, FS_Interval DEF Runs
<1> QED
  BY <1>1, <1>2, ManagedConstants DEF None, Runs

LEMMA FaultSets ==
    ASSUME ManagedTypes, Fault \/ UNCHANGED mfaults
    PROVE  mfaults' \in 0..MaxManagedFaults
BY ManagedNumbers DEF ManagedTypes, Fault

LEMMA SaveSets ==
    ASSUME ManagedTypes, NEW r \in Runs, NEW s \in Records, Saved(r, s) \/ Unsaved(r, s)
    PROVE  /\ record' \in [Runs -> Records] /\ held' \in [Runs -> Records]
           /\ \A q \in Runs : q # r => record'[q] = record[q]
           /\ record'[r] \in {record[r], s}
           /\ Saved(r, s) => record'[r] = s
BY DEF ManagedTypes, Saved, Unsaved

LEMMA ChangeSets ==
    ASSUME ManagedTypes, NEW r \in Runs, NEW w \in Sessions, session' = [session EXCEPT ![r] = w]
    PROVE  /\ session' \in [Runs -> Sessions] /\ session'[r] = w
           /\ \A q \in Runs : q # r => session'[q] = session[q]
BY DEF ManagedTypes

LEMMA KeptSets ==
    ASSUME ManagedTypes, NEW r \in Runs, NEW k \in Kepts, kept' = [kept EXCEPT ![r] = k]
    PROVE  /\ kept' \in [Runs -> Kepts] /\ kept'[r] = k
           /\ \A q \in Runs : q # r => kept'[q] = kept[q]
BY DEF ManagedTypes

LEMMA GoSets ==
    ASSUME ManagedTypes, NEW p \in Between \cup Steps
    PROVE  LET d == Go(p) IN
           /\ d \in Jobs /\ d.pc = p /\ d.n = dispatch.n /\ d.repair = dispatch.repair
           /\ d.runs = dispatch.runs /\ d.cur = cur /\ d.failed = dispatch.failed
           /\ d.head = dispatch.head /\ d.seq = dispatch.seq /\ d.bundle = dispatch.bundle
BY DEF ManagedTypes, Go, Jobs, cur

LEMMA JobSets ==
    ASSUME NEW d \in Jobs, NEW h \in Nat
    PROVE  /\ LET e == [d EXCEPT !.head = h] IN
              /\ e \in Jobs /\ e.pc = d.pc /\ e.n = d.n /\ e.repair = d.repair /\ e.runs = d.runs
              /\ e.cur = d.cur /\ e.seq = d.seq /\ e.bundle = d.bundle /\ e.head = h
           /\ LET e == [d EXCEPT !.seq = h] IN
              /\ e \in Jobs /\ e.pc = d.pc /\ e.n = d.n /\ e.repair = d.repair /\ e.runs = d.runs
              /\ e.cur = d.cur /\ e.head = d.head /\ e.bundle = d.bundle /\ e.seq = h
           /\ LET e == [d EXCEPT !.bundle = h] IN
              /\ e \in Jobs /\ e.pc = d.pc /\ e.n = d.n /\ e.repair = d.repair /\ e.runs = d.runs
              /\ e.cur = d.cur /\ e.head = d.head /\ e.seq = d.seq /\ e.bundle = h
<1>1. LET e == [d EXCEPT !.head = h] IN
              /\ e \in Jobs /\ e.pc = d.pc /\ e.n = d.n /\ e.repair = d.repair /\ e.runs = d.runs
              /\ e.cur = d.cur /\ e.seq = d.seq /\ e.bundle = d.bundle /\ e.head = h
  BY DEF Jobs
<1>2. LET e == [d EXCEPT !.seq = h] IN
              /\ e \in Jobs /\ e.pc = d.pc /\ e.n = d.n /\ e.repair = d.repair /\ e.runs = d.runs
              /\ e.cur = d.cur /\ e.head = d.head /\ e.bundle = d.bundle /\ e.seq = h
  BY DEF Jobs
<1>3. LET e == [d EXCEPT !.bundle = h] IN
              /\ e \in Jobs /\ e.pc = d.pc /\ e.n = d.n /\ e.repair = d.repair /\ e.runs = d.runs
              /\ e.cur = d.cur /\ e.head = d.head /\ e.seq = d.seq /\ e.bundle = h
  BY DEF Jobs
<1> QED
  BY <1>1, <1>2, <1>3

LEMMA StepFailsSets ==
    ASSUME ManagedTypes, NEW p \in Between \cup Steps, StepFails(p)
    PROVE  /\ dispatch' \in Jobs /\ dispatch'.pc = p /\ dispatch'.n = dispatch.n
           /\ dispatch'.repair = dispatch.repair /\ dispatch'.runs = dispatch.runs
           /\ dispatch'.cur = cur /\ dispatch'.bundle = dispatch.bundle
BY DEF ManagedTypes, StepFails, Jobs, cur

\* The fields that the steps below read.
LEMMA ManagedFields ==
    ASSUME ManagedTypes
    PROVE  /\ dispatch.pc \in Between \cup Steps /\ dispatch.n \in Nat /\ dispatch.repair \in BOOLEAN
           /\ dispatch.runs \subseteq Runs /\ cur \in Runs \cup {0}
           /\ dispatch.head \in Nat /\ dispatch.seq \in Nat /\ dispatch.bundle \in Nat
           /\ \A r \in Runs :
                 /\ record[r] \in Records /\ session[r] \in Sessions /\ kept[r] \in Kepts
                 /\ session[r].life \in {"none", "live", "stopped", "ending", "gone"}
                 /\ session[r].by \in Nat /\ session[r].head \in Nat /\ session[r].seq \in Nat
                 /\ session[r].dirty \in BOOLEAN /\ session[r].busy \in BOOLEAN
                 /\ session[r].late \in BOOLEAN
                 /\ kept[r].complete \in BOOLEAN /\ kept[r].head \in Nat
                 /\ kept[r].bundle \in Nat /\ kept[r].seq \in Nat
<1>1. ASSUME NEW r \in Runs
      PROVE  /\ session[r] \in Sessions /\ kept[r] \in Kepts /\ record[r] \in Records
  BY DEF ManagedTypes
<1>2. \A s \in Sessions : /\ s.life \in {"none", "live", "stopped", "ending", "gone"}
                          /\ s.by \in Nat /\ s.head \in Nat /\ s.seq \in Nat
                          /\ s.dirty \in BOOLEAN /\ s.busy \in BOOLEAN /\ s.late \in BOOLEAN
  BY DEF Sessions
<1>3. \A k \in Kepts : /\ k.complete \in BOOLEAN /\ k.head \in Nat
                       /\ k.bundle \in Nat /\ k.seq \in Nat
  BY DEF Kepts
<1>4. /\ dispatch.pc \in Between \cup Steps /\ dispatch.n \in Nat /\ dispatch.repair \in BOOLEAN
      /\ dispatch.runs \subseteq Runs /\ cur \in Runs \cup {0}
      /\ dispatch.head \in Nat /\ dispatch.seq \in Nat /\ dispatch.bundle \in Nat
  BY DEF ManagedTypes, Jobs, cur
<1> QED
  BY <1>1, <1>2, <1>3, <1>4

\* Work in a session adds to it; nothing else of it changes.
LEMMA WorkedSets ==
    ASSUME NEW s \in Sessions, NEW w \in Worked(s)
    PROVE  /\ w \in Sessions /\ w.life = s.life /\ w.by = s.by /\ w.seq = s.seq
           /\ w.busy = s.busy /\ w.late = s.late /\ s.head <= w.head
<1>1. s.head \in Nat /\ s.head + 1 \in Nat
  BY DEF Sessions
<1>2. CASE w = [s EXCEPT !.dirty = TRUE]
  <2>1. w \in Sessions /\ w.life = s.life /\ w.by = s.by /\ w.seq = s.seq
        /\ w.busy = s.busy /\ w.late = s.late /\ w.head = s.head
    BY <1>2 DEF Sessions
  <2> QED
    BY <1>1, <2>1
<1>3. CASE w = [s EXCEPT !.head = @ + 1, !.dirty = FALSE]
  <2> DEFINE n == s.head + 1
  <2>1. w = [s EXCEPT !.head = n, !.dirty = FALSE]
    BY <1>3
  <2>2. n \in Nat /\ s.head <= n
    BY <1>1
  <2> HIDE DEF n
  <2> QED
    BY <2>1, <2>2 DEF Sessions
<1> QED
  BY <1>2, <1>3 DEF Worked

-----------------------------------------------------------------------------
\* The steps leave most of the invariant alone: what they change of a run, and
\* of which.
Footprint ==
    /\ dispatch'.n = dispatch.n /\ dispatch'.runs = dispatch.runs /\ checkout' = checkout
    /\ At("off") => dispatch'.pc = "off"
    /\ \A r \in Runs :
          /\ \/ record'[r] = record[r]
             \/ /\ r = cur /\ dispatch.pc \in Steps /\ record'[r] # "absent"
                /\ record'[r] = "destroyed" => session'[r].life = "gone"
                /\ record[r] \in Given /\ kept[r].complete => record'[r] \in Given
          /\ kept'[r] = kept[r] \/ (r = cur /\ dispatch.pc \in Steps /\ ~kept[r].complete)
          /\ \/ /\ session'[r].by = session[r].by
                /\ session[r].life = "gone" => session'[r].life = "gone"
             \/ r = cur /\ At("create") /\ session'[r].by = dispatch.n

LEMMA FootprintKeeps ==
    ASSUME ManagedInv, ManagedTypes', Footprint
    PROVE  FreshRuns' /\ Dispatches' /\ CheckoutIsEvidenced'
<1>0. ManagedTypes
  BY DEF ManagedInv
<1>1. /\ dispatch.pc \in Steps => cur \in Runs /\ record[cur] # "absent"
      /\ At("create") => record[cur] # "destroyed"
  BY <1>0, ManagedFields DEF ManagedInv, AtWork, Dispatches, Started, At, Steps, Before
<1>2. Started' = Started
  BY <1>1 DEF Started, Footprint
<1>3. FreshRuns'
  <2> SUFFICES ASSUME NEW r \in Runs
               PROVE  /\ record'[r] = "absent" => session'[r].by = 0 /\ ~kept'[r].complete
                      /\ record'[r] = "destroyed" => session'[r].life = "gone"
    BY DEF FreshRuns
  <2>1. /\ record[r] = "absent" => session[r].by = 0 /\ ~kept[r].complete
        /\ record[r] = "destroyed" => session[r].life = "gone"
    BY DEF ManagedInv, FreshRuns
  <2> QED
    BY <1>1, <2>1 DEF Footprint, At, Steps, Before
<1>4. Dispatches'
  BY <1>0, <1>2, ManagedFields DEF ManagedInv, Dispatches, Footprint, At
<1>5. CheckoutIsEvidenced'
  <2> SUFFICES ASSUME checkout' # 0
               PROVE  \E r \in Runs : record'[r] \in Given /\ kept'[r].complete
                                      /\ kept'[r].bundle = checkout'
    BY DEF CheckoutIsEvidenced
  <2> PICK r \in Runs : record[r] \in Given /\ kept[r].complete /\ kept[r].bundle = checkout
    BY DEF ManagedInv, CheckoutIsEvidenced, Footprint
  <2> QED
    BY DEF Footprint
<1> QED
  BY <1>3, <1>4, <1>5

\* Between the steps of one run nothing is said of it.
LEMMA BetweenHolds ==
    ASSUME ManagedInv, dispatch'.pc \in Between, dispatch'.repair = dispatch.repair,
           dispatch'.bundle = dispatch.bundle
    PROVE  AtWork' /\ Gathered'
BY DEF ManagedInv, AtWork, Gathered, Between, Before, Seconds, Steps, At

LEMMA ProvenStays ==
    ASSUME ManagedInv, UNCHANGED <<session, kept>>
    PROVE  \A r \in Runs : Proven(r)'
BY DEF ManagedInv, Proven

\* The work of a run ends here, well or not: its record moves.
LEMMA EndKeeps ==
    ASSUME ManagedInv, UNCHANGED <<session, kept, checkout>>,
           dispatch' \in Jobs, dispatch'.pc \in Between, dispatch'.n = dispatch.n,
           dispatch'.repair = dispatch.repair, dispatch'.runs = dispatch.runs,
           dispatch'.bundle = dispatch.bundle, At("off") => dispatch'.pc = "off",
           touches' \in 0..MaxTouches, Fault \/ UNCHANGED mfaults,
           \/ UNCHANGED <<record, held>>
           \/ /\ dispatch.pc \in Steps
              /\ \E s \in Records \ {"absent"} :
                    /\ Saved(cur, s) \/ Unsaved(cur, s)
                    /\ s = "destroyed" => mine.life = "gone"
                    /\ kept[cur].complete /\ record[cur] \in Given => s \in Given
    PROVE  ManagedInv'
<1>0. ManagedTypes
  BY DEF ManagedInv
<1>1. /\ record' \in [Runs -> Records] /\ held' \in [Runs -> Records]
      /\ \A r \in Runs :
            \/ record'[r] = record[r]
            \/ /\ r = cur /\ dispatch.pc \in Steps /\ record'[r] # "absent"
               /\ record'[r] = "destroyed" => session'[r].life = "gone"
               /\ record[r] \in Given /\ kept[r].complete => record'[r] \in Given
  <2>1. CASE UNCHANGED <<record, held>>
    BY <1>0, <2>1 DEF ManagedTypes
  <2>2. CASE /\ dispatch.pc \in Steps
             /\ \E s \in Records \ {"absent"} :
                    /\ Saved(cur, s) \/ Unsaved(cur, s)
                    /\ s = "destroyed" => mine.life = "gone"
                    /\ kept[cur].complete /\ record[cur] \in Given => s \in Given
    <3> PICK s \in Records \ {"absent"} :
                    /\ Saved(cur, s) \/ Unsaved(cur, s)
                    /\ s = "destroyed" => mine.life = "gone"
                    /\ kept[cur].complete /\ record[cur] \in Given => s \in Given
      BY <2>2
    <3>1. cur \in Runs
      BY <1>0, <2>2, ManagedFields DEF ManagedInv, AtWork
    <3>2. /\ record' \in [Runs -> Records] /\ held' \in [Runs -> Records]
          /\ \A q \in Runs : q # cur => record'[q] = record[q]
          /\ record'[cur] \in {record[cur], s}
      BY <1>0, <3>1, SaveSets
    <3> QED
      BY <2>2, <3>1, <3>2 DEF mine
  <2> QED
    BY <2>1, <2>2
<1>2. ManagedTypes'
  BY <1>0, <1>1, FaultSets DEF ManagedTypes
<1>3. Footprint
  BY <1>1 DEF Footprint
<1> QED
  BY <1>2, <1>3, FootprintKeeps, BetweenHolds, ProvenStays DEF ManagedInv

\* A step fails: the run keeps the record it has, or one of giving up.
LEMMA FailKeeps ==
    ASSUME ManagedInv, StepFails("bot"), dispatch.pc \in Steps,
           UNCHANGED <<kept, session, checkout, touches>>, Fault \/ UNCHANGED mfaults,
           \/ UNCHANGED <<record, held>>
           \/ /\ dispatch.pc \in Before
              /\ \E s \in Unresolved : Saved(cur, s) \/ Unsaved(cur, s)
    PROVE  ManagedInv'
<1>0. ManagedTypes
  BY DEF ManagedInv
<1>1. /\ dispatch' \in Jobs /\ dispatch'.pc = "bot" /\ dispatch'.n = dispatch.n
      /\ dispatch'.repair = dispatch.repair /\ dispatch'.runs = dispatch.runs
      /\ dispatch'.bundle = dispatch.bundle
  BY <1>0, StepFailsSets DEF Between
<1>2. \/ UNCHANGED <<record, held>>
      \/ \E s \in Records \ {"absent"} :
                    /\ Saved(cur, s) \/ Unsaved(cur, s)
                    /\ s = "destroyed" => mine.life = "gone"
                    /\ kept[cur].complete /\ record[cur] \in Given => s \in Given
  <2>1. dispatch.pc \in Before => ~kept[cur].complete
    BY DEF ManagedInv, AtWork
  <2> QED
    BY <2>1 DEF Records, Unresolved
<1>3. touches' \in 0..MaxTouches
  BY <1>0 DEF ManagedTypes
<1> QED
  BY <1>1, <1>2, <1>3, EndKeeps DEF At, Between, Steps, Before, Seconds

\* A step goes on to another one of the same run, whose record it may move.
LEMMA GoKeeps ==
    ASSUME ManagedInv, dispatch.pc \in Before, dispatch' \in Jobs, dispatch'.pc \in Steps,
           dispatch'.n = dispatch.n, dispatch'.runs = dispatch.runs,
           UNCHANGED <<kept, session, checkout, touches>>, Fault \/ UNCHANGED mfaults,
           UNCHANGED <<record, held>> \/ \E s \in Unresolved : Saved(cur, s),
           AtWork', Gathered'
    PROVE  ManagedInv'
<1>0. ManagedTypes
  BY DEF ManagedInv
<1>1. cur \in Runs /\ ~kept[cur].complete /\ dispatch.pc \in Steps /\ ~At("off")
  BY <1>0, ManagedFields DEF ManagedInv, AtWork, Steps, At, Before, Seconds
<1>2. /\ record' \in [Runs -> Records] /\ held' \in [Runs -> Records]
      /\ \A r \in Runs : \/ record'[r] = record[r]
                         \/ r = cur /\ record'[r] \in Unresolved
  <2>1. CASE UNCHANGED <<record, held>>
    BY <1>0, <2>1 DEF ManagedTypes
  <2>2. CASE \E s \in Unresolved : Saved(cur, s)
    <3> PICK s \in Unresolved : Saved(cur, s)
      BY <2>2
    <3>1. s \in Records
      BY DEF Records
    <3> QED
      BY <1>0, <1>1, <3>1, SaveSets
  <2> QED
    BY <2>1, <2>2
<1>3. ManagedTypes'
  BY <1>0, <1>2, FaultSets DEF ManagedTypes
<1>4. Footprint
  BY <1>1, <1>2 DEF Footprint, Unresolved
<1> QED
  BY <1>3, <1>4, FootprintKeeps, ProvenStays DEF ManagedInv

-----------------------------------------------------------------------------
(***************************************************************************)
(* The steps of a dispatch.                                                 *)
(***************************************************************************)

LEMMA SavingSteps ==
    ASSUME ManagedInv, Receipt \/ ReceiptFails \/ MarkPrompting \/ CheckClean
    PROVE  ManagedInv'
<1>0. ManagedTypes
  BY DEF ManagedInv
<1>1. /\ dispatch.pc \in {"ready?", "mark", "clean"} /\ UNCHANGED <<kept, session, checkout, touches>>
      /\ dispatch.pc \in Before /\ dispatch.pc \in Steps /\ cur \in Runs
  BY <1>0, ManagedFields DEF Receipt, ReceiptFails, MarkPrompting, CheckClean, At, Before, Seconds,
     Steps, ManagedInv, AtWork
<1>2. CASE StepFails("bot")
  <2>1. /\ Fault \/ UNCHANGED mfaults
        /\ UNCHANGED <<record, held>> \/ \E s \in Unresolved : Saved(cur, s) \/ Unsaved(cur, s)
    <3>1. CASE Receipt
      <4>1. GiveUp("held") \/ SaveThen("ready", "configure")
        BY <3>1 DEF Receipt
      <4> QED
        BY <4>1 DEF GiveUp, SaveThen, Unresolved
    <3>2. CASE ReceiptFails
      BY <3>2 DEF ReceiptFails, Unresolved
    <3>3. CASE MarkPrompting
      BY <3>3 DEF MarkPrompting, SaveThen, Unresolved
    <3>4. CASE CheckClean
      BY <3>4 DEF CheckClean, SaveThen, Fails, Unresolved
    <3> QED
      BY <3>1, <3>2, <3>3, <3>4
  <2> QED
    BY <1>1, <1>2, <2>1, FailKeeps
<1>3. CASE ~StepFails("bot")
  <2>1. \E p \in {"configure", "prompt", "export"} :
            /\ dispatch' = Go(p) /\ UNCHANGED mfaults /\ (p = "export" => At("clean") /\ Untouched(mine))
            /\ \E s \in {"ready", "prompting", "exporting"} : Saved(cur, s)
    <3>1. CASE Receipt
      <4>1. GiveUp("held") \/ SaveThen("ready", "configure")
        BY <3>1 DEF Receipt
      <4> QED
        BY <1>3, <4>1 DEF GiveUp, SaveThen, Go
    <3>2. CASE ReceiptFails
      BY <1>3, <3>2 DEF ReceiptFails
    <3>3. CASE MarkPrompting
      BY <1>3, <3>3 DEF MarkPrompting, SaveThen, Go
    <3>4. CASE CheckClean
      BY <1>3, <3>4 DEF CheckClean, SaveThen, Go
    <3> QED
      BY <3>1, <3>2, <3>3, <3>4
  <2> PICK p \in {"configure", "prompt", "export"} :
            /\ dispatch' = Go(p) /\ UNCHANGED mfaults /\ (p = "export" => At("clean") /\ Untouched(mine))
            /\ \E s \in {"ready", "prompting", "exporting"} : Saved(cur, s)
    BY <2>1
  <2>2. /\ dispatch' \in Jobs /\ dispatch'.pc = p /\ dispatch'.n = dispatch.n
        /\ dispatch'.repair = dispatch.repair /\ dispatch'.runs = dispatch.runs /\ dispatch'.cur = cur
        /\ dispatch'.head = dispatch.head /\ dispatch'.seq = dispatch.seq
        /\ dispatch'.bundle = dispatch.bundle
    BY <1>0, GoSets DEF Steps, Before, Seconds
  <2> PICK s \in {"ready", "prompting", "exporting"} : Saved(cur, s)
    OBVIOUS
  <2>3. s \in Unresolved /\ s \in Records
    BY DEF Unresolved, Records
  <2>4. record'[cur] = s
    BY <1>0, <1>1, <2>3, SaveSets
  <2>5. AtWork'
    BY <1>1, <2>2, <2>4 DEF ManagedInv, AtWork, Steps, Before, Seconds, At, mine, cur
  <2>6. Gathered'
    BY <1>1, <2>2 DEF ManagedInv, Gathered, Seconds, At, mine, cur
  <2>7. dispatch'.pc \in Steps
    BY <2>2 DEF Steps, Before, Seconds
  <2> QED
    BY <1>1, <2>2, <2>3, <2>5, <2>6, <2>7, GoKeeps
<1> QED
  BY <1>2, <1>3

LEMMA CheckingSteps ==
    ASSUME ManagedInv,
           Configure \/ AwaitIdle \/ Collect \/ ReadTranscript \/ Recheck \/ CheckTranscript
    PROVE  ManagedInv'
<1>0. ManagedTypes
  BY DEF ManagedInv
<1>1. /\ dispatch.pc \in {"configure", "idle?", "collect", "transcript", "recheck", "end"}
      /\ UNCHANGED <<record, kept, held, session, checkout, touches>> /\ (Fault \/ UNCHANGED mfaults)
      /\ dispatch.pc \in Before /\ dispatch.pc \in Steps /\ cur \in Runs
  <2>1. /\ dispatch.pc \in {"configure", "idle?", "collect", "transcript", "recheck", "end"}
        /\ UNCHANGED <<record, kept, held, session, checkout, touches>> /\ (Fault \/ UNCHANGED mfaults)
    BY DEF Configure, AwaitIdle, Collect, ReadTranscript, Recheck, CheckTranscript, Check, Fails, At
  <2> QED
    BY <1>0, <2>1, ManagedFields DEF Before, Seconds, Steps, ManagedInv, AtWork
<1>2. CASE StepFails("bot")
  BY <1>1, <1>2, FailKeeps
<1>3. CASE ~StepFails("bot")
  <2> DEFINE n == Go("transcript")
             m == IF dispatch.repair THEN "clean" ELSE "recheck"
  <2>1. \/ At("configure") /\ dispatch' = Go("mark")
        \/ At("idle?") /\ dispatch' = Go("collect")
        \/ At("collect") /\ dispatch' = [n EXCEPT !.head = mine.head]
        \/ At("transcript") /\ dispatch' = [Go(m) EXCEPT !.seq = mine.seq]
        \/ At("recheck") /\ Untouched(mine) /\ dispatch' = Go("end")
        \/ At("end") /\ mine.seq = dispatch.seq /\ dispatch' = Go("save")
    BY <1>3 DEF Configure, AwaitIdle, Collect, ReadTranscript, Recheck, CheckTranscript, Check
  <2>3. mine.head \in Nat /\ mine.seq \in Nat /\ dispatch.repair \in BOOLEAN
    BY <1>0, <1>1, ManagedFields DEF mine
  <2>4. /\ dispatch' \in Jobs /\ dispatch'.n = dispatch.n /\ dispatch'.repair = dispatch.repair
        /\ dispatch'.runs = dispatch.runs /\ dispatch'.cur = cur /\ dispatch'.bundle = dispatch.bundle
        /\ \/ At("configure") /\ dispatch'.pc = "mark"
           \/ At("idle?") /\ dispatch'.pc = "collect"
           \/ At("collect") /\ dispatch'.pc = "transcript" /\ dispatch'.head = mine.head
           \/ At("transcript") /\ dispatch'.pc = m /\ dispatch'.seq = mine.seq
                /\ dispatch'.head = dispatch.head
           \/ At("recheck") /\ Untouched(mine) /\ dispatch'.pc = "end"
                /\ dispatch'.seq = dispatch.seq /\ dispatch'.head = dispatch.head
           \/ At("end") /\ mine.seq = dispatch.seq /\ dispatch'.pc = "save"
                /\ dispatch'.seq = dispatch.seq /\ dispatch'.head = dispatch.head
    <3>1. {"mark", "collect", "transcript", "end", "save"} \cup {m} \subseteq Between \cup Steps
      BY <2>3 DEF Steps, Before, Seconds
    <3> HIDE DEF m
    <3>2. ASSUME NEW p \in {"mark", "collect", "end", "save"}, dispatch' = Go(p)
          PROVE  /\ dispatch' \in Jobs /\ dispatch'.n = dispatch.n /\ dispatch'.repair = dispatch.repair
                 /\ dispatch'.runs = dispatch.runs /\ dispatch'.cur = cur
                 /\ dispatch'.bundle = dispatch.bundle /\ dispatch'.pc = p
                 /\ dispatch'.seq = dispatch.seq /\ dispatch'.head = dispatch.head
      BY <1>0, <3>1, <3>2, GoSets
    <3>3. CASE At("collect") /\ dispatch' = [n EXCEPT !.head = mine.head]
      <4>1. /\ n \in Jobs /\ n.pc = "transcript" /\ n.n = dispatch.n /\ n.repair = dispatch.repair
            /\ n.runs = dispatch.runs /\ n.cur = cur /\ n.bundle = dispatch.bundle
        BY <1>0, GoSets DEF Steps, Before, Seconds
      <4> HIDE DEF n
      <4> QED
        BY <2>3, <3>3, <4>1, JobSets
    <3>4. CASE At("transcript") /\ dispatch' = [Go(m) EXCEPT !.seq = mine.seq]
      <4> DEFINE g == Go(m)
      <4>1. /\ g \in Jobs /\ g.pc = m /\ g.n = dispatch.n /\ g.repair = dispatch.repair
            /\ g.runs = dispatch.runs /\ g.cur = cur /\ g.bundle = dispatch.bundle
            /\ g.head = dispatch.head
        BY <1>0, <3>1, GoSets
      <4>2. dispatch' = [g EXCEPT !.seq = mine.seq]
        BY <3>4
      <4> HIDE DEF g
      <4>3. /\ dispatch' \in Jobs /\ dispatch'.pc = g.pc /\ dispatch'.n = g.n
            /\ dispatch'.repair = g.repair /\ dispatch'.runs = g.runs /\ dispatch'.cur = g.cur
            /\ dispatch'.bundle = g.bundle /\ dispatch'.head = g.head /\ dispatch'.seq = mine.seq
        BY <2>3, <4>1, <4>2, JobSets
      <4> QED
        BY <3>4, <4>1, <4>3
    <3> QED
      BY <2>1, <3>2, <3>3, <3>4
  <2>5. AtWork'
    BY <1>1, <2>3, <2>4 DEF ManagedInv, AtWork, Steps, Before, Seconds, At, mine, cur
  <2>6. Gathered'
    <3>1. mine' = mine
      BY <1>1, <2>4 DEF mine, cur
    <3>2. dispatch.seq \in Nat /\ dispatch.head \in Nat /\ dispatch.bundle \in Nat
      BY <1>0, ManagedFields
    <3>3. At("recheck") /\ Untouched(mine) /\ dispatch.repair => dispatch.bundle = dispatch.head
      BY <2>3, <3>2 DEF ManagedInv, Gathered, Untouched
    <3> QED
      BY <1>1, <2>3, <2>4, <3>1, <3>2, <3>3 DEF ManagedInv, Gathered, Seconds, At, Untouched
  <2>7. dispatch'.pc \in Steps
    BY <2>3, <2>4 DEF Steps, Before, Seconds
  <2> QED
    BY <1>1, <2>4, <2>5, <2>6, <2>7, GoKeeps
<1> QED
  BY <1>2, <1>3

\* The steps that end the work of a run, and those between two runs.
LEMMA EndingSteps ==
    ASSUME ManagedInv, PromptLost \/ ExportGone \/ BotEnds \/ (FinishNext /\ Left = {}) \/ PollDestroyed
    PROVE  ManagedInv'
<1>0. ManagedTypes
  BY DEF ManagedInv
<1>1. touches \in 0..MaxTouches
  BY <1>0 DEF ManagedTypes
<1>2. \A p \in Between :
         LET d == Go(p) IN
           /\ d \in Jobs /\ d.pc = p /\ d.n = dispatch.n /\ d.repair = dispatch.repair
           /\ d.runs = dispatch.runs /\ d.bundle = dispatch.bundle
  BY <1>0, GoSets
<1>3. CASE PromptLost
  BY <1>3, FailKeeps DEF PromptLost, At, Steps, Before, Seconds
<1>4. CASE ExportGone
  BY <1>4, FailKeeps DEF ExportGone, At, Steps, Before, Seconds
<1>5. CASE BotEnds \/ (FinishNext /\ Left = {})
  <2> PICK p \in {"off", "finish"} : dispatch' = Go(p)
    BY <1>5 DEF BotEnds, FinishNext
  <2>1. p \in Between
    BY DEF Between
  <2>2. ~At("off") /\ UNCHANGED <<record, kept, held, session, checkout, touches, mfaults>>
    BY <1>5 DEF BotEnds, FinishNext, At
  <2> QED
    BY <1>1, <1>2, <2>1, <2>2, EndKeeps
<1>6. CASE PollDestroyed
  <2> PICK p \in {"off", "finish"}, s \in {"destroyed", "uncertain_cleanup"} :
        /\ dispatch' = Go(p) /\ (Saved(cur, s) \/ Unsaved(cur, s))
        /\ s = "destroyed" => mine.life = "gone"
        /\ Fault \/ UNCHANGED mfaults
    BY <1>6 DEF PollDestroyed, CleanupOpen
  <2>1. p \in Between /\ s \in Records \ {"absent"} /\ s \in Given
    BY DEF Between, Records, Unresolved, Given
  <2>2. ~At("off") /\ dispatch.pc \in Steps /\ UNCHANGED <<kept, session, checkout, touches>>
    BY <1>6 DEF PollDestroyed, At, Steps
  <2>3. \E x \in Records \ {"absent"} :
           /\ Saved(cur, x) \/ Unsaved(cur, x)
           /\ x = "destroyed" => mine.life = "gone"
           /\ kept[cur].complete /\ record[cur] \in Given => x \in Given
    BY <2>1
  <2> QED
    BY <1>1, <1>2, <2>1, <2>2, <2>3, EndKeeps
<1> QED
  BY <1>3, <1>4, <1>5, <1>6

\* The next session to destroy is chosen.
LEMMA FinishKeeps ==
    ASSUME ManagedInv, FinishNext, Left # {}
    PROVE  ManagedInv'
<1>0. ManagedTypes
  BY DEF ManagedInv
<1> PICK r \in Left : dispatch' = [Go("destroy") EXCEPT !.cur = r]
  BY DEF FinishNext
<1>1. r \in dispatch.runs /\ r \in Runs
  BY <1>0, ManagedFields DEF Left
<1>2. At("finish") /\ UNCHANGED <<record, kept, held, session, checkout, touches, mfaults>>
  BY DEF FinishNext
<1> DEFINE g == Go("destroy")
<1>3. /\ g \in Jobs /\ g.pc = "destroy" /\ g.n = dispatch.n /\ g.repair = dispatch.repair
      /\ g.runs = dispatch.runs /\ g.bundle = dispatch.bundle
  BY <1>0, GoSets DEF Steps
<1>4. dispatch' = [g EXCEPT !.cur = r]
  OBVIOUS
<1> HIDE DEF g
<1>5. /\ dispatch' \in Jobs /\ dispatch'.pc = g.pc /\ dispatch'.n = g.n /\ dispatch'.repair = g.repair
      /\ dispatch'.runs = g.runs /\ dispatch'.bundle = g.bundle /\ dispatch'.cur = r
  BY <1>1, <1>3, <1>4 DEF Jobs
<1>6. ManagedTypes'
  BY <1>0, <1>2, <1>5 DEF ManagedTypes
<1>7. Footprint
  BY <1>2, <1>3, <1>5 DEF Footprint, At
<1>8. AtWork' /\ Gathered'
  BY <1>1, <1>3, <1>5 DEF ManagedInv, AtWork, Gathered, Steps, Before, Seconds, At, cur
<1> QED
  BY <1>2, <1>6, <1>7, <1>8, FootprintKeeps, ProvenStays DEF ManagedInv

\* A session is destroyed once what is kept of it is complete.
LEMMA DestroyKeeps ==
    ASSUME ManagedInv, DestroyMarked
    PROVE  ManagedInv'
<1>0. ManagedTypes
  BY DEF ManagedInv
<1>1. /\ At("destroy") /\ UNCHANGED <<kept, session, checkout, touches>>
      /\ dispatch.pc \in Steps /\ ~At("off") /\ touches \in 0..MaxTouches
  BY <1>0 DEF DestroyMarked, At, Steps, ManagedTypes
<1>2. cur \in Runs
  BY <1>0, <1>1, ManagedFields DEF ManagedInv, AtWork
<1>3. "destroying" \in Records \ {"absent"} /\ "destroying" \in Given
  BY DEF Records, Unresolved, Given
<1>4. CASE dispatch' = Go("off")
  <2>1. /\ dispatch' \in Jobs /\ dispatch'.pc = "off" /\ dispatch'.n = dispatch.n
        /\ dispatch'.repair = dispatch.repair /\ dispatch'.runs = dispatch.runs
        /\ dispatch'.bundle = dispatch.bundle
    BY <1>0, <1>4, GoSets DEF Between
  <2>2. Go("post").pc = "post"
    BY <1>0, GoSets DEF Steps
  <2>3. /\ Fault \/ UNCHANGED mfaults
        /\ UNCHANGED <<record, held>> \/ Unsaved(cur, "destroying")
    BY <2>1, <2>2 DEF DestroyMarked
  <2> QED
    BY <1>1, <1>3, <2>1, <2>3, EndKeeps DEF Between
<1>5. CASE dispatch' # Go("off")
  <2>1. /\ kept[cur].complete /\ Current(mine) /\ Saved(cur, "destroying")
        /\ dispatch' = Go("post") /\ UNCHANGED mfaults
    BY <1>5 DEF DestroyMarked
  <2>2. /\ dispatch' \in Jobs /\ dispatch'.pc = "post" /\ dispatch'.n = dispatch.n
        /\ dispatch'.repair = dispatch.repair /\ dispatch'.runs = dispatch.runs
        /\ dispatch'.cur = cur /\ dispatch'.bundle = dispatch.bundle
    BY <1>0, <2>1, GoSets DEF Steps
  <2>3. /\ record' \in [Runs -> Records] /\ held' \in [Runs -> Records]
        /\ \A q \in Runs : q # cur => record'[q] = record[q]
        /\ record'[cur] = "destroying"
    BY <1>0, <1>2, <1>3, <2>1, SaveSets
  <2>4. ManagedTypes'
    BY <1>0, <1>1, <2>1, <2>2, <2>3 DEF ManagedTypes
  <2>5. Footprint
    BY <1>1, <1>3, <2>2, <2>3 DEF Footprint
  <2>6. AtWork' /\ Gathered'
    BY <1>1, <2>1, <2>2, <2>3
       DEF ManagedInv, AtWork, Gathered, Steps, Before, Seconds, At, cur, mine, Current, Ready
  <2> QED
    BY <1>1, <2>4, <2>5, <2>6, FootprintKeeps, ProvenStays DEF ManagedInv
<1> QED
  BY <1>4, <1>5

LEMMA OpenedSets ==
    ASSUME NEW n \in Nat, NEW c \in Nat
    PROVE  LET w == [NoSession EXCEPT !.life = "live", !.by = n, !.base = c, !.head = c] IN
           /\ w \in Sessions /\ w.life = "live" /\ w.by = n
BY DEF NoSession, Sessions

\* The one session/new: its answer arrives, or it does not.
LEMMA CreateKeeps ==
    ASSUME ManagedInv, CreateAnswered \/ CreateLost
    PROVE  ManagedInv'
<1>0. ManagedTypes
  BY DEF ManagedInv
<1>1. /\ At("create") /\ UNCHANGED <<kept, checkout, touches>> /\ (Opened \/ UNCHANGED session)
      /\ \E s \in {"preparing", "uncertain"} : Saved(cur, s) \/ Unsaved(cur, s)
      /\ Fault \/ UNCHANGED mfaults
      /\ (dispatch' = Go("ready?") /\ Saved(cur, "preparing")) \/ StepFails("bot")
  BY DEF CreateAnswered, CreateLost, SaveThen, Go, Fault
<1>2. /\ cur \in Runs /\ ~kept[cur].complete /\ record[cur] # "destroyed" /\ dispatch.pc \in Steps
      /\ ~At("off") /\ checkout \in Nat /\ dispatch.n \in Nat
  BY <1>0, <1>1, ManagedFields DEF ManagedInv, AtWork, At, Steps, Before, ManagedTypes
<1>3. /\ session' \in [Runs -> Sessions]
      /\ \A r \in Runs : \/ session'[r] = session[r]
                         \/ r = cur /\ session'[r].life = "live" /\ session'[r].by = dispatch.n
  <2>1. CASE Opened
    <3> DEFINE w == [NoSession EXCEPT !.life = "live", !.by = dispatch.n,
                                      !.base = checkout, !.head = checkout]
    <3>1. w \in Sessions /\ w.life = "live" /\ w.by = dispatch.n
      BY <1>2, OpenedSets
    <3>2. session' = [session EXCEPT ![cur] = w]
      BY <2>1 DEF Opened
    <3> HIDE DEF w
    <3> QED
      BY <1>0, <1>2, <3>1, <3>2, ChangeSets
  <2>2. CASE UNCHANGED session
    BY <1>0, <2>2 DEF ManagedTypes
  <2> QED
    BY <1>1, <2>1, <2>2
<1>4. /\ record' \in [Runs -> Records] /\ held' \in [Runs -> Records]
      /\ \A q \in Runs : q # cur => record'[q] = record[q]
      /\ record'[cur] \in {record[cur], "preparing", "uncertain"}
      /\ Saved(cur, "preparing") => record'[cur] = "preparing"
  <2> PICK s \in {"preparing", "uncertain"} : Saved(cur, s) \/ Unsaved(cur, s)
    BY <1>1
  <2>1. s \in Records /\ "preparing" \in Records
    BY DEF Records, Unresolved
  <2> QED
    BY <1>0, <1>2, <2>1, SaveSets
<1>5. /\ dispatch' \in Jobs /\ dispatch'.n = dispatch.n /\ dispatch'.repair = dispatch.repair
      /\ dispatch'.runs = dispatch.runs /\ dispatch'.bundle = dispatch.bundle /\ dispatch'.cur = cur
      /\ \/ dispatch'.pc = "ready?" /\ record'[cur] = "preparing"
         \/ dispatch'.pc = "bot"
  <2>1. CASE dispatch' = Go("ready?") /\ Saved(cur, "preparing")
    BY <1>0, <1>4, <2>1, GoSets DEF Steps, Before
  <2>2. CASE StepFails("bot")
    BY <1>0, <2>2, StepFailsSets DEF Between
  <2> QED
    BY <1>1, <2>1, <2>2
<1>6. ManagedTypes'
  BY <1>0, <1>1, <1>3, <1>4, <1>5, FaultSets DEF ManagedTypes
<1>7. Footprint
  BY <1>1, <1>2, <1>3, <1>4, <1>5 DEF Footprint, At, ManagedInv, FreshRuns
<1>8. AtWork' /\ Gathered'
  BY <1>1, <1>2, <1>5 DEF ManagedInv, AtWork, Gathered, Steps, Before, Seconds, At, cur
<1>9. \A r \in Runs : Proven(r)'
  BY <1>1, <1>2, <1>3 DEF ManagedInv, Proven
<1> QED
  BY <1>6, <1>7, <1>8, <1>9, FootprintKeeps DEF ManagedInv

\* The single prompt.
LEMMA PromptKeeps ==
    ASSUME ManagedInv, Prompt
    PROVE  ManagedInv'
<1>0. ManagedTypes
  BY DEF ManagedInv
<1>1. /\ At("prompt") /\ dispatch.pc \in Steps /\ dispatch.pc \in Before /\ cur \in Runs
      /\ ~kept[cur].complete /\ record[cur] # "destroyed"
      /\ UNCHANGED <<record, kept, held, checkout, touches, mfaults>>
  BY <1>0, ManagedFields DEF Prompt, ManagedInv, AtWork, At, Steps, Before
<1>2. CASE ~Current(mine) /\ StepFails("bot") /\ UNCHANGED session
  BY <1>1, <1>2, FailKeeps
<1>3. CASE Current(mine) /\ session' = [session EXCEPT ![cur].busy = TRUE] /\ dispatch' = Go("turn")
  <2> DEFINE w == [session[cur] EXCEPT !.busy = TRUE]
  <2>1. w \in Sessions /\ w.life = session[cur].life /\ w.by = session[cur].by
    BY <1>0, <1>1, ManagedFields DEF Sessions
  <2>2. session' = [session EXCEPT ![cur] = w]
    BY <1>3
  <2> HIDE DEF w
  <2>3. /\ session' \in [Runs -> Sessions] /\ session'[cur] = w
        /\ \A q \in Runs : q # cur => session'[q] = session[q]
    BY <1>0, <1>1, <2>1, <2>2, ChangeSets
  <2>4. /\ dispatch' \in Jobs /\ dispatch'.pc = "turn" /\ dispatch'.n = dispatch.n
        /\ dispatch'.repair = dispatch.repair /\ dispatch'.runs = dispatch.runs
        /\ dispatch'.cur = cur /\ dispatch'.bundle = dispatch.bundle
    BY <1>0, <1>3, GoSets DEF Steps, Before
  <2>5. ManagedTypes'
    BY <1>0, <1>1, <2>3, <2>4 DEF ManagedTypes
  <2>6. Footprint
    BY <1>1, <2>1, <2>3, <2>4 DEF Footprint, At
  <2>7. AtWork' /\ Gathered'
    BY <1>1, <2>4 DEF ManagedInv, AtWork, Gathered, Steps, Before, Seconds, At, cur
  <2>8. \A r \in Runs : Proven(r)'
    BY <1>1, <1>3, <2>1, <2>3 DEF ManagedInv, Proven, Current, Ready, mine
  <2> QED
    BY <2>5, <2>6, <2>7, <2>8, FootprintKeeps DEF ManagedInv
<1> QED
  BY <1>2, <1>3 DEF Prompt

\* The bundle of a repair is imported into the private checkout.
LEMMA ImportKeeps ==
    ASSUME ManagedInv, ImportRepair
    PROVE  ManagedInv'
<1>0. ManagedTypes
  BY DEF ManagedInv
<1>1. /\ At("import") /\ dispatch.pc \in Steps /\ cur \in Runs
      /\ record[cur] = "evidence" /\ kept[cur].complete /\ kept[cur].bundle = dispatch.bundle
      /\ UNCHANGED <<record, kept, held, session, touches>>
  BY <1>0, ManagedFields DEF ImportRepair, ManagedInv, AtWork, At, Steps
<1>2. CASE StepFails("bot") /\ UNCHANGED checkout /\ (Fault \/ UNCHANGED mfaults)
  BY <1>1, <1>2, FailKeeps
<1>3. CASE dispatch.bundle = dispatch.head /\ dispatch' = Go("bot") /\ checkout' = dispatch.head
           /\ UNCHANGED mfaults
  <2>1. /\ dispatch' \in Jobs /\ dispatch'.pc = "bot" /\ dispatch'.n = dispatch.n
        /\ dispatch'.repair = dispatch.repair /\ dispatch'.runs = dispatch.runs
        /\ dispatch'.bundle = dispatch.bundle /\ dispatch.head \in Nat
    BY <1>0, <1>3, GoSets, ManagedFields DEF Between
  <2>2. ManagedTypes'
    BY <1>0, <1>1, <1>3, <2>1 DEF ManagedTypes
  <2>3. FreshRuns' /\ Dispatches'
    <3>1. Started' = Started
      BY <1>1 DEF Started
    <3> QED
      BY <1>1, <2>1, <3>1 DEF ManagedInv, FreshRuns, Dispatches, At
  <2>4. CheckoutIsEvidenced'
    BY <1>1, <1>3 DEF CheckoutIsEvidenced, Given
  <2> QED
    BY <1>1, <2>1, <2>2, <2>3, <2>4, BetweenHolds, ProvenStays DEF ManagedInv, Between
<1> QED
  BY <1>2, <1>3 DEF ImportRepair

\* The one request to destroy, and whatever becomes of it.
LEMMA SubmitKeeps ==
    ASSUME ManagedInv, SubmitDestroy
    PROVE  ManagedInv'
<1>0. ManagedTypes
  BY DEF ManagedInv
<1>1. /\ At("post") /\ dispatch.pc \in Steps /\ cur \in Runs /\ ~At("off")
      /\ kept[cur].complete /\ mine.life \in {"live", "stopped"} /\ record[cur] # "destroyed"
      /\ cur \in dispatch.runs /\ UNCHANGED <<kept, checkout, touches>>
  BY <1>0, ManagedFields DEF SubmitDestroy, ManagedInv, AtWork, At, Steps
<1>2. "uncertain_cleanup" \in Records \ {"absent", "destroyed"} /\ "uncertain_cleanup" \in Given
  BY DEF Records, Unresolved, Given
<1> DEFINE w == [session[cur] EXCEPT !.life = "ending"]
<1>3. /\ session' = session \/ session' = [session EXCEPT ![cur] = w]
      /\ \/ /\ dispatch' = Go("poll") /\ UNCHANGED <<record, held, mfaults>>
         \/ /\ dispatch' = Go("off") /\ Fault
            /\ Saved(cur, "uncertain_cleanup") \/ Unsaved(cur, "uncertain_cleanup")
  BY DEF SubmitDestroy, CleanupOpen
<1>4. /\ w \in Sessions /\ w.life = "ending" /\ w.by = session[cur].by /\ w.busy = session[cur].busy
      /\ w.late = session[cur].late /\ w.head = session[cur].head /\ w.dirty = session[cur].dirty
      /\ w.seq = session[cur].seq
  BY <1>0, <1>1, ManagedFields DEF Sessions
<1> HIDE DEF w
<1>5. /\ session' \in [Runs -> Sessions]
      /\ \A q \in Runs : session'[q] = session[q] \/ (q = cur /\ session'[q] = w)
  <2>1. CASE session' = session
    BY <1>0, <2>1 DEF ManagedTypes
  <2>2. CASE session' = [session EXCEPT ![cur] = w]
    BY <1>0, <1>1, <1>4, <2>2, ChangeSets
  <2> QED
    BY <1>3, <2>1, <2>2
<1>6. /\ record' \in [Runs -> Records] /\ held' \in [Runs -> Records]
      /\ \A q \in Runs : \/ record'[q] = record[q]
                         \/ q = cur /\ record'[q] = "uncertain_cleanup"
  <2>1. CASE UNCHANGED <<record, held>>
    BY <1>0, <2>1 DEF ManagedTypes
  <2>2. CASE Saved(cur, "uncertain_cleanup") \/ Unsaved(cur, "uncertain_cleanup")
    BY <1>0, <1>1, <1>2, <2>2, SaveSets
  <2> QED
    BY <1>3, <2>1, <2>2
<1>7. /\ dispatch' \in Jobs /\ dispatch'.pc \in {"poll", "off"} /\ dispatch'.n = dispatch.n
      /\ dispatch'.repair = dispatch.repair /\ dispatch'.runs = dispatch.runs
      /\ dispatch'.cur = cur /\ dispatch'.bundle = dispatch.bundle
  BY <1>0, <1>3, GoSets DEF Steps, Between
<1>8. ManagedTypes'
  BY <1>0, <1>1, <1>3, <1>5, <1>6, <1>7, FaultSets DEF ManagedTypes
<1>9. Footprint
  BY <1>1, <1>2, <1>4, <1>5, <1>6, <1>7 DEF Footprint, At, mine
<1>10. AtWork' /\ Gathered'
  <2>1. record'[cur] # "destroyed"
    BY <1>1, <1>2, <1>6
  <2> QED
    BY <1>1, <1>7, <2>1 DEF ManagedInv, AtWork, Gathered, Steps, Before, Seconds, At, cur
<1>11. \A r \in Runs : Proven(r)'
  BY <1>1, <1>4, <1>5 DEF ManagedInv, Proven, Clean
<1> QED
  BY <1>8, <1>9, <1>10, <1>11, FootprintKeeps DEF ManagedInv

\* The service dies with its dispatch.
LEMMA DiesKeeps ==
    ASSUME ManagedInv, ServiceDies
    PROVE  ManagedInv'
<1>0. ManagedTypes
  BY DEF ManagedInv
<1>1. /\ dispatch' = [NoDispatch EXCEPT !.n = dispatch.n] /\ Fault
      /\ held' = [r \in Runs |-> "absent"] /\ UNCHANGED <<record, kept, session, checkout, touches>>
  BY DEF ServiceDies
<1>2. /\ dispatch' \in Jobs /\ dispatch'.pc = "off" /\ dispatch'.n = dispatch.n
      /\ dispatch'.runs = {} /\ dispatch'.repair = FALSE /\ dispatch'.bundle = None
  BY <1>0, <1>1, ManagedNumbers, ManagedFields DEF NoDispatch, Jobs, Between
<1>3. ManagedTypes'
  BY <1>0, <1>1, <1>2, FaultSets DEF ManagedTypes, Records
<1>4. Started' = Started /\ Cardinality({}) = 0
  BY <1>1, FS_EmptySet DEF Started
<1>5. FreshRuns' /\ Dispatches'
  <2>1. FreshRuns'
    BY <1>1 DEF ManagedInv, FreshRuns
  <2>2. Cardinality(dispatch'.runs) <= DispatchLimit /\ dispatch'.runs \subseteq Started'
    BY <1>2, <1>4, ManagedNumbers
  <2>3. dispatch'.n <= Cardinality(Started') + 1
    BY <1>2, <1>4 DEF ManagedInv, Dispatches
  <2> QED
    BY <1>1, <1>2, <2>1, <2>2, <2>3 DEF ManagedInv, Dispatches, At
<1>6. AtWork' /\ Gathered'
  BY <1>2 DEF AtWork, Gathered, Steps, Before, Seconds, At
<1>7. CheckoutIsEvidenced'
  BY <1>1 DEF ManagedInv, CheckoutIsEvidenced
<1> QED
  BY <1>1, <1>3, <1>5, <1>6, <1>7, ProvenStays DEF ManagedInv

\* A repair is exported, which may checkpoint the workspace.
LEMMA ExportKeeps ==
    ASSUME ManagedInv, Export
    PROVE  ManagedInv'
<1>0. ManagedTypes
  BY DEF ManagedInv
<1>1. /\ At("export") /\ dispatch.pc \in Steps /\ dispatch.pc \in Seconds \ {"transcript"}
      /\ dispatch.pc \in Before /\ cur \in Runs /\ ~At("off") /\ cur \in dispatch.runs
      /\ ~kept[cur].complete /\ ~mine.busy /\ mine.life = "live" /\ record[cur] # "destroyed"
      /\ dispatch.repair /\ UNCHANGED <<record, held, checkout, touches>>
  BY <1>0, ManagedFields DEF Export, ManagedInv, AtWork, Gathered, At, Steps, Before, Seconds
<1>2. /\ mine.head \in Nat /\ mine.seq \in Nat /\ dispatch.head \in Nat /\ dispatch.seq \in Nat
      /\ dispatch.head <= mine.head /\ dispatch.seq <= mine.seq
  BY <1>0, <1>1, ManagedFields DEF ManagedInv, Gathered, mine
<1> DEFINE h == IF mine.dirty THEN mine.head + 1 ELSE mine.head
           w == [session[cur] EXCEPT !.head = h, !.dirty = FALSE]
           k == [kept[cur] EXCEPT !.bundle = h]
<1>3. h \in Nat /\ mine.head <= h
  BY <1>2
<1>4. session' = [session EXCEPT ![cur] = w]
  BY DEF Export, Checkpointed, mine
<1> HIDE DEF h
<1>5. /\ w \in Sessions /\ w.life = mine.life /\ w.by = mine.by /\ w.busy = mine.busy
      /\ w.head = h /\ w.seq = mine.seq
  BY <1>0, <1>1, <1>3, ManagedFields DEF Sessions, mine
<1>6. k \in Kepts /\ k.complete = kept[cur].complete
  BY <1>0, <1>1, <1>3, ManagedFields DEF Kepts
<1>7. Checkpointed.head = h
  <2>1. mine \in Sessions
    BY <1>0, <1>1, ManagedFields DEF mine
  <2> QED
    BY <2>1 DEF Checkpointed, h, Sessions
<1>8. /\ kept' = kept \/ kept' = [kept EXCEPT ![cur] = k]
      /\ \/ dispatch' = [Go("recheck") EXCEPT !.bundle = h] /\ UNCHANGED mfaults
         \/ StepFails("bot") /\ Fault
  BY <1>7 DEF Export
<1> HIDE DEF w, k
<1>9. /\ session' \in [Runs -> Sessions] /\ session'[cur] = w
      /\ \A q \in Runs : q # cur => session'[q] = session[q]
  BY <1>0, <1>1, <1>4, <1>5, ChangeSets
<1>10. /\ kept' \in [Runs -> Kepts]
       /\ \A q \in Runs : kept'[q] = kept[q] \/ (q = cur /\ kept'[q] = k)
  <2>1. CASE kept' = kept
    BY <1>0, <2>1 DEF ManagedTypes
  <2>2. CASE kept' = [kept EXCEPT ![cur] = k]
    BY <1>0, <1>1, <1>6, <2>2, KeptSets
  <2> QED
    BY <1>8, <2>1, <2>2
<1>11. /\ dispatch' \in Jobs /\ dispatch'.n = dispatch.n /\ dispatch'.repair = dispatch.repair
       /\ dispatch'.runs = dispatch.runs /\ dispatch'.cur = cur
       /\ \/ dispatch'.pc = "bot" /\ dispatch'.bundle = dispatch.bundle
          \/ /\ dispatch'.pc = "recheck" /\ dispatch'.bundle = h
             /\ dispatch'.head = dispatch.head /\ dispatch'.seq = dispatch.seq
  <2>1. CASE dispatch' = [Go("recheck") EXCEPT !.bundle = h]
    <3> DEFINE g == Go("recheck")
    <3>1. /\ g \in Jobs /\ g.pc = "recheck" /\ g.n = dispatch.n /\ g.repair = dispatch.repair
          /\ g.runs = dispatch.runs /\ g.cur = cur
          /\ g.head = dispatch.head /\ g.seq = dispatch.seq
      BY <1>0, GoSets DEF Steps, Before, Seconds
    <3>2. dispatch' = [g EXCEPT !.bundle = h]
      BY <2>1
    <3> HIDE DEF g
    <3>3. /\ dispatch' \in Jobs /\ dispatch'.pc = g.pc /\ dispatch'.n = g.n
          /\ dispatch'.repair = g.repair /\ dispatch'.runs = g.runs /\ dispatch'.cur = g.cur
          /\ dispatch'.head = g.head /\ dispatch'.seq = g.seq /\ dispatch'.bundle = h
      BY <1>3, <3>1, <3>2, JobSets
    <3> QED
      BY <3>1, <3>3
  <2>2. CASE StepFails("bot")
    BY <1>0, <2>2, StepFailsSets DEF Between
  <2> QED
    BY <1>8, <2>1, <2>2
<1>12. ManagedTypes'
  BY <1>0, <1>1, <1>8, <1>9, <1>10, <1>11, FaultSets DEF ManagedTypes
<1>13. Footprint
  BY <1>1, <1>5, <1>9, <1>10, <1>11 DEF Footprint, mine
<1>14. AtWork'
  <2>1. ~kept'[cur].complete
    BY <1>1, <1>6, <1>10
  <2> QED
    BY <1>1, <1>5, <1>9, <1>11, <2>1 DEF AtWork, Steps, Before, Seconds, At, cur, mine
<1>15. Gathered'
  <2>1. mine' = w
    BY <1>9, <1>11 DEF mine, cur
  <2>2. dispatch.head <= h
    BY <1>2, <1>3
  <2> QED
    BY <1>1, <1>2, <1>3, <1>5, <1>11, <2>1, <2>2 DEF Gathered, Seconds, At
<1>16. \A r \in Runs : Proven(r)'
  <2> SUFFICES ASSUME NEW r \in Runs PROVE Proven(r)'
    OBVIOUS
  <2>1. CASE r = cur
    BY <1>1, <1>5, <1>6, <1>9, <1>10, <2>1 DEF Proven
  <2>2. CASE r # cur
    BY <1>9, <1>10, <2>2 DEF ManagedInv, Proven
  <2> QED
    BY <2>1, <2>2
<1> QED
  BY <1>12, <1>13, <1>14, <1>15, <1>16, FootprintKeeps DEF ManagedInv

\* The evidence is saved, or it is not known whether it was.
LEMMA SaveKeeps ==
    ASSUME ManagedInv, SaveEvidence
    PROVE  ManagedInv'
<1>0. ManagedTypes
  BY DEF ManagedInv
<1>1. /\ At("save") /\ dispatch.pc \in Steps /\ dispatch.pc \in Before /\ cur \in Runs /\ ~At("off")
      /\ cur \in dispatch.runs /\ ~kept[cur].complete /\ ~mine.busy /\ record[cur] # "destroyed"
      /\ UNCHANGED <<session, checkout, touches>>
  BY <1>0, ManagedFields DEF SaveEvidence, ManagedInv, AtWork, At, Steps, Before, Seconds
<1>2. /\ dispatch.head \in Nat /\ dispatch.seq \in Nat /\ dispatch.bundle \in Nat
      /\ dispatch.repair \in BOOLEAN
  BY <1>0, ManagedFields
<1>3. /\ Evidence \in Kepts /\ Evidence.complete = TRUE /\ Evidence.head = dispatch.head
      /\ Evidence.bundle = dispatch.bundle /\ Evidence.seq = dispatch.seq
  BY <1>2 DEF Evidence, Kepts
<1>4. /\ dispatch.bundle \in {None, dispatch.head}
      /\ ~mine.late => Clean(mine, dispatch.head) /\ mine.seq = dispatch.seq
  BY <1>1, <1>2 DEF ManagedInv, Gathered, At, Untouched, Clean
<1>5. "evidence" \in Records \ {"absent", "destroyed"} /\ "evidence" \in Given
  BY DEF Records, Unresolved, Given
<1> DEFINE p == IF dispatch.repair THEN "import" ELSE "bot"
<1>6. /\ kept' = kept \/ kept' = [kept EXCEPT ![cur] = Evidence]
      /\ Fault \/ UNCHANGED mfaults
      /\ Saved(cur, "evidence") \/ Unsaved(cur, "evidence")
      /\ \/ /\ dispatch' = Go(p) /\ Saved(cur, "evidence")
            /\ kept' = [kept EXCEPT ![cur] = Evidence]
         \/ StepFails("bot")
  BY DEF SaveEvidence, SaveThen, Fails, Unsaved, Go
<1>7. /\ kept' \in [Runs -> Kepts]
      /\ \A q \in Runs : kept'[q] = kept[q] \/ (q = cur /\ kept'[q] = Evidence)
      /\ kept' = [kept EXCEPT ![cur] = Evidence] => kept'[cur] = Evidence
  <2>1. CASE kept' = kept
    BY <1>0, <1>1, <2>1 DEF ManagedTypes
  <2>2. CASE kept' = [kept EXCEPT ![cur] = Evidence]
    BY <1>0, <1>1, <1>3, <2>2, KeptSets
  <2> QED
    BY <1>6, <2>1, <2>2
<1>8. /\ record' \in [Runs -> Records] /\ held' \in [Runs -> Records]
      /\ \A q \in Runs : \/ record'[q] = record[q]
                         \/ q = cur /\ record'[q] = "evidence"
      /\ Saved(cur, "evidence") => record'[cur] = "evidence"
  BY <1>0, <1>1, <1>5, <1>6, SaveSets
<1>9. /\ dispatch' \in Jobs /\ dispatch'.n = dispatch.n /\ dispatch'.repair = dispatch.repair
      /\ dispatch'.runs = dispatch.runs /\ dispatch'.cur = cur /\ dispatch'.bundle = dispatch.bundle
      /\ \/ dispatch'.pc = "bot"
         \/ /\ dispatch'.pc = "import" /\ dispatch.repair /\ record'[cur] = "evidence"
            /\ kept'[cur] = Evidence
  <2>1. p \in Between \cup Steps
    BY DEF Between, Steps
  <2>2. CASE /\ dispatch' = Go(p) /\ Saved(cur, "evidence")
             /\ kept' = [kept EXCEPT ![cur] = Evidence]
    <3> HIDE DEF p
    <3>1. /\ dispatch' \in Jobs /\ dispatch'.n = dispatch.n /\ dispatch'.repair = dispatch.repair
          /\ dispatch'.runs = dispatch.runs /\ dispatch'.cur = cur
          /\ dispatch'.bundle = dispatch.bundle /\ dispatch'.pc = p
      BY <1>0, <2>1, <2>2, GoSets
    <3> QED
      BY <1>7, <1>8, <2>2, <3>1 DEF p
  <2>3. CASE StepFails("bot")
    BY <1>0, <2>3, StepFailsSets DEF Between
  <2> QED
    BY <1>6, <2>2, <2>3
<1> HIDE DEF p
<1>10. ManagedTypes'
  BY <1>0, <1>1, <1>6, <1>7, <1>8, <1>9, FaultSets DEF ManagedTypes
<1>11. Footprint
  BY <1>1, <1>5, <1>7, <1>8, <1>9 DEF Footprint
<1>12. AtWork' /\ Gathered'
  BY <1>1, <1>3, <1>9 DEF ManagedInv, AtWork, Gathered, Steps, Before, Seconds, At, cur
<1>13. \A r \in Runs : Proven(r)'
  <2> SUFFICES ASSUME NEW r \in Runs PROVE Proven(r)'
    OBVIOUS
  <2>1. CASE kept'[r] = kept[r]
    BY <1>1, <2>1 DEF ManagedInv, Proven
  <2>2. CASE r = cur /\ kept'[r] = Evidence
    BY <1>1, <1>3, <1>4, <2>2 DEF Proven, mine
  <2> QED
    BY <1>7, <2>1, <2>2
<1> QED
  BY <1>10, <1>11, <1>12, <1>13, FootprintKeeps DEF ManagedInv

LEMMA MadeFinite ==
    IsFiniteSet(Started) /\ Cardinality(Started) \in Nat
<1>1. Started \in SUBSET Runs
  BY DEF Started
<1> QED
  BY <1>1, ManagedNumbers, FS_Subset, FS_CardinalityType

LEMMA NewJobSets ==
    ASSUME NEW job \in Nat, NEW repair \in BOOLEAN
    PROVE  LET d == [NoDispatch EXCEPT !.pc = "bot", !.repair = repair, !.n = job] IN
           /\ d \in Jobs /\ d.pc = "bot" /\ d.n = job /\ d.runs = {} /\ d.bundle = None
<1>1. /\ NoDispatch \in Jobs /\ NoDispatch.runs = {} /\ NoDispatch.bundle = None
      /\ "bot" \in Between \cup Steps
  BY ManagedNumbers DEF NoDispatch, Jobs, Between
<1> DEFINE d0 == NoDispatch
<1> HIDE DEF d0
<1>2. d0 \in Jobs /\ d0.runs = {} /\ d0.bundle = None
  BY <1>1 DEF d0
<1>3. LET d == [d0 EXCEPT !.pc = "bot", !.repair = repair, !.n = job] IN
      /\ d \in Jobs /\ d.pc = "bot" /\ d.n = job /\ d.runs = {} /\ d.bundle = None
  BY <1>1, <1>2 DEF Jobs
<1> QED
  BY <1>3 DEF d0

\* A dispatch begins: no run of the role is open, so no session is left.
LEMMA BeginKeeps ==
    ASSUME ManagedInv, Begin
    PROVE  ManagedInv'
<1>0. ManagedTypes
  BY DEF ManagedInv
<1>1. /\ At("off") /\ \A r \in Runs : record[r] \notin Unresolved
      /\ held' = [r \in Runs |-> "absent"] /\ checkout' = 0
      /\ UNCHANGED <<record, kept, session, touches, mfaults>>
  BY DEF Begin, Dispatched
<1> PICK repair \in BOOLEAN :
       dispatch' = [NoDispatch EXCEPT !.pc = "bot", !.repair = repair, !.n = Cardinality(Started) + 1]
  BY DEF Begin, Dispatched, Started
<1> DEFINE n == Cardinality(Started) + 1
<1>2. n \in Nat \ {0} /\ dispatch.n <= n /\ dispatch.n \in Nat
  BY <1>0, MadeFinite, ManagedFields DEF ManagedInv, Dispatches
<1>3. dispatch' = [NoDispatch EXCEPT !.pc = "bot", !.repair = repair, !.n = n]
  OBVIOUS
<1>4. Started' = Started
  BY <1>1 DEF Started
<1>5. n = Cardinality(Started') + 1
  BY <1>4
<1> HIDE DEF n
<1>6. /\ dispatch' \in Jobs /\ dispatch'.pc = "bot" /\ dispatch'.n = n
      /\ dispatch'.runs = {} /\ dispatch'.bundle = None
  <2> DEFINE d == [NoDispatch EXCEPT !.pc = "bot", !.repair = repair, !.n = n]
  <2>1. /\ d \in Jobs /\ d.pc = "bot" /\ d.n = n /\ d.runs = {} /\ d.bundle = None
    BY <1>2, NewJobSets
  <2>2. dispatch' = d
    BY <1>3
  <2> HIDE DEF d
  <2> QED
    BY <2>1, <2>2
<1>7. ManagedTypes'
  BY <1>0, <1>1, <1>6 DEF ManagedTypes, Records
<1>8. FreshRuns'
  BY <1>1 DEF ManagedInv, FreshRuns
<1>9. Dispatches'
  <2>1. Cardinality(dispatch'.runs) <= DispatchLimit /\ dispatch'.runs \subseteq Started'
    <3>1. Cardinality({}) = 0
      BY FS_EmptySet
    <3> QED
      BY <1>6, <3>1, ManagedNumbers
  <2>2. ASSUME NEW r \in Runs
        PROVE  session'[r].by <= n /\ (session'[r].by = 0 \/ session'[r].life = "gone")
    <3>1. session[r].by <= dispatch.n /\ session[r].by \in Nat
      BY <1>0, ManagedFields DEF ManagedInv, Dispatches
    <3>2. record[r] \in {"absent", "destroyed"}
      BY <1>0, <1>1, ManagedFields DEF Records
    <3> QED
      BY <1>1, <1>2, <3>1, <3>2 DEF ManagedInv, FreshRuns
  <2>3. dispatch'.n <= Cardinality(Started') + 1
    BY <1>2, <1>5, <1>6
  <2> QED
    BY <1>2, <1>6, <2>1, <2>2, <2>3 DEF Dispatches, At
<1>10. AtWork' /\ Gathered'
  BY <1>6 DEF AtWork, Gathered, Steps, Before, Seconds, At
<1>11. CheckoutIsEvidenced'
  BY <1>1 DEF CheckoutIsEvidenced
<1> QED
  BY <1>1, <1>7, <1>8, <1>9, <1>10, <1>11, ProvenStays DEF ManagedInv

\* A dispatch opens its next run, in a directory that is not there yet.
LEMMA PrepareKeeps ==
    ASSUME ManagedInv, Prepare
    PROVE  ManagedInv'
<1>0. ManagedTypes
  BY DEF ManagedInv
<1> PICK r \in Runs :
      /\ record[r] = "absent"
      /\ \/ Saved(r, "creating") /\ UNCHANGED mfaults
            /\ dispatch' = [dispatch EXCEPT !.pc = "create", !.cur = r, !.runs = @ \cup {r}]
         \/ /\ \E s \in {"empty", "creating"} : record' = [record EXCEPT ![r] = s]
            /\ dispatch' = [dispatch EXCEPT !.cur = r, !.failed = TRUE, !.runs = @ \cup {r}]
            /\ Fault /\ UNCHANGED held
  BY DEF Prepare
<1>1. /\ At("bot") /\ Cardinality(dispatch.runs) < DispatchLimit
      /\ UNCHANGED <<kept, session, checkout, touches>> /\ (Fault \/ UNCHANGED mfaults)
  BY DEF Prepare
<1> DEFINE rs == dispatch.runs \cup {r}
<1>2. rs \subseteq Runs
  BY <1>0, ManagedFields
<1>3. \/ /\ Saved(r, "creating")
         /\ dispatch' = [dispatch EXCEPT !.pc = "create", !.cur = r, !.runs = rs]
      \/ /\ \E s \in {"empty", "creating"} : record' = [record EXCEPT ![r] = s]
         /\ dispatch' = [dispatch EXCEPT !.cur = r, !.failed = TRUE, !.runs = rs] /\ UNCHANGED held
  OBVIOUS
<1> HIDE DEF rs
<1>4. /\ dispatch' \in Jobs /\ dispatch'.pc \in {"bot", "create"} /\ dispatch'.n = dispatch.n
      /\ dispatch'.repair = dispatch.repair /\ dispatch'.runs = rs /\ dispatch'.cur = r
      /\ dispatch'.bundle = dispatch.bundle
  <2>0. dispatch \in Jobs /\ dispatch.pc = "bot"
    BY <1>0, <1>1 DEF ManagedTypes, At
  <2>1. CASE dispatch' = [dispatch EXCEPT !.pc = "create", !.cur = r, !.runs = rs]
    BY <1>2, <2>0, <2>1 DEF Jobs, Steps, Before
  <2>2. CASE dispatch' = [dispatch EXCEPT !.cur = r, !.failed = TRUE, !.runs = rs]
    BY <1>2, <2>0, <2>2 DEF Jobs
  <2> QED
    BY <1>3, <2>1, <2>2
<1>5. /\ record' \in [Runs -> Records] /\ held' \in [Runs -> Records]
      /\ \A q \in Runs : q # r => record'[q] = record[q]
      /\ record'[r] \in {"empty", "creating"}
  BY <1>0, <1>3 DEF ManagedTypes, Saved, Records, Unresolved
<1>6. ManagedTypes'
  BY <1>0, <1>1, <1>4, <1>5, FaultSets DEF ManagedTypes
<1>7. Started' = Started \cup {r} /\ r \notin Started
  BY <1>5 DEF Started
<1>8. FreshRuns'
  BY <1>1, <1>5 DEF ManagedInv, FreshRuns
<1>9. Dispatches'
  <2>1. Cardinality(Started') = Cardinality(Started) + 1
    BY <1>7, MadeFinite, FS_AddElement
  <2>2. Cardinality(dispatch'.runs) <= DispatchLimit
    <3>1. IsFiniteSet(dispatch.runs)
      BY <1>0, ManagedFields, ManagedNumbers, FS_Subset
    <3>2. IsFiniteSet(rs) /\ Cardinality(rs) = IF r \in dispatch.runs THEN Cardinality(dispatch.runs)
                                              ELSE Cardinality(dispatch.runs) + 1
      BY <3>1, FS_AddElement DEF rs
    <3>3. Cardinality(dispatch.runs) \in Nat
      BY <3>1, FS_CardinalityType
    <3> QED
      BY <1>1, <1>4, <3>2, <3>3, ManagedNumbers
  <2>3. dispatch'.runs \subseteq Started'
    BY <1>4, <1>7 DEF ManagedInv, Dispatches, rs
  <2>4. dispatch'.n # 0 /\ dispatch'.n <= Cardinality(Started') + 1
    <3>1. dispatch.n # 0 /\ dispatch.n <= Cardinality(Started) + 1 /\ dispatch.n \in Nat
      BY <1>0, <1>1, ManagedFields DEF ManagedInv, Dispatches, At
    <3> QED
      BY <1>4, <2>1, <3>1, MadeFinite
  <2> QED
    BY <1>1, <1>4, <2>2, <2>3, <2>4 DEF ManagedInv, Dispatches
<1>10. AtWork' /\ Gathered'
  <2>1. ~kept[r].complete
    BY DEF ManagedInv, FreshRuns
  <2> QED
    BY <1>1, <1>4, <1>5, <2>1 DEF ManagedInv, AtWork, Gathered, Steps, Before, Seconds, At, cur, rs
<1>11. CheckoutIsEvidenced'
  <2>1. ~kept[r].complete
    BY DEF ManagedInv, FreshRuns
  <2> QED
    BY <1>1, <1>5, <2>1 DEF ManagedInv, CheckoutIsEvidenced
<1> QED
  BY <1>1, <1>6, <1>8, <1>9, <1>10, <1>11, ProvenStays DEF ManagedInv

-----------------------------------------------------------------------------
(***************************************************************************)
(* What happens in Mjolnir.                                                 *)
(***************************************************************************)

\* A session moves; what was read for the last time, or is kept, it leaves or
\* is marked for.
LEMMA SessionKeeps ==
    ASSUME ManagedInv, NEW r \in Runs, NEW w \in Sessions, Change(r, w),
           touches' \in 0..MaxTouches, Fault \/ UNCHANGED mfaults,
           w.by = session[r].by, w.busy => session[r].busy, session[r].late => w.late,
           session[r].head <= w.head, session[r].seq <= w.seq,
           w.life \in {"ending", "gone"} => session[r].life \in {"ending", "gone"},
           session[r].life = "gone" => w.life = "gone",
           session[r].life \in {"live", "stopped"} => w.life \in {"live", "stopped"},
           \/ w.head = session[r].head /\ w.dirty = session[r].dirty /\ w.seq = session[r].seq
           \/ w.late
           \/ /\ ~kept[r].complete
              /\ r = cur => ~At("save") /\ (At("end") => session[r].seq < w.seq),
           \/ dispatch' = dispatch
           \/ At("turn") /\ r = cur /\ ~w.busy /\ dispatch' = Go("idle?")
           \/ At("turn") /\ StepFails("bot")
    PROVE  ManagedInv'
<1>0. ManagedTypes
  BY DEF ManagedInv
<1>1. /\ session' \in [Runs -> Sessions] /\ session'[r] = w
      /\ \A q \in Runs : q # r => session'[q] = session[q]
      /\ UNCHANGED <<record, kept, held, checkout>>
  BY <1>0, ChangeSets DEF Change
<1>2. /\ dispatch' \in Jobs /\ dispatch'.n = dispatch.n /\ dispatch'.repair = dispatch.repair
      /\ dispatch'.runs = dispatch.runs /\ dispatch'.cur = cur /\ dispatch'.bundle = dispatch.bundle
      /\ \/ dispatch' = dispatch
         \/ At("turn") /\ r = cur /\ ~w.busy /\ dispatch'.pc = "idle?"
         \/ At("turn") /\ dispatch'.pc = "bot"
  <2>1. CASE dispatch' = dispatch
    BY <1>0, <2>1 DEF ManagedTypes, cur
  <2>2. CASE At("turn") /\ r = cur /\ ~w.busy /\ dispatch' = Go("idle?")
    BY <1>0, <2>2, GoSets DEF Steps, Before
  <2>3. CASE At("turn") /\ StepFails("bot")
    BY <1>0, <2>3, StepFailsSets DEF Between
  <2> QED
    BY <2>1, <2>2, <2>3
<1>3. ManagedTypes'
  BY <1>0, <1>1, <1>2, FaultSets DEF ManagedTypes
<1>4. Footprint
  BY <1>1, <1>2 DEF Footprint, At
<1>5. /\ w.head \in Nat /\ w.seq \in Nat /\ session[r].head \in Nat /\ session[r].seq \in Nat
      /\ dispatch.head \in Nat /\ dispatch.seq \in Nat /\ dispatch.bundle \in Nat
  BY <1>0, ManagedFields DEF Sessions
<1>6. AtWork'
  <2>1. CASE r = cur
    BY <1>1, <1>2, <2>1 DEF ManagedInv, AtWork, Steps, Before, Seconds, At, cur, mine
  <2>2. CASE r # cur
    <3>1. dispatch.pc \in Steps => mine' = mine
      BY <1>0, <1>1, <1>2, <2>2, ManagedFields DEF mine, cur, ManagedInv, AtWork
    <3> QED
      BY <1>1, <1>2, <2>2, <3>1 DEF ManagedInv, AtWork, Steps, Before, Seconds, At, cur
  <2> QED
    BY <2>1, <2>2
<1>7. Gathered'
  <2>1. CASE dispatch' # dispatch
    BY <1>2, <2>1 DEF ManagedInv, Gathered, Seconds, At
  <2>2. CASE dispatch' = dispatch /\ r = cur
    <3>1. mine' = w /\ mine = session[r]
      BY <1>1, <2>2 DEF mine, cur
    <3>2. At("save") /\ ~w.late =>
            ~mine.late /\ w.head = mine.head /\ w.dirty = mine.dirty /\ w.seq = mine.seq
      BY <2>2, <3>1
    <3>3. At("end") /\ ~w.late /\ w.seq = dispatch.seq =>
            ~mine.late /\ w.head = mine.head /\ w.dirty = mine.dirty /\ w.seq = mine.seq
      BY <1>5, <2>2, <3>1 DEF ManagedInv, Gathered, At, Seconds
    <3>4. /\ dispatch.pc \in Seconds => dispatch.head <= w.head
          /\ dispatch.pc \in Seconds \ {"transcript"} => dispatch.seq <= w.seq
          /\ At("recheck") /\ dispatch.repair => dispatch.bundle <= w.head
      BY <1>5, <3>1 DEF ManagedInv, Gathered
    <3> QED
      BY <2>2, <3>1, <3>2, <3>3, <3>4 DEF ManagedInv, Gathered, At, Untouched
  <2>3. CASE dispatch' = dispatch /\ r # cur
    <3>1. dispatch.pc \in Steps => mine' = mine
      BY <1>0, <1>1, <2>3, ManagedFields DEF mine, cur, ManagedInv, AtWork
    <3> QED
      BY <2>3, <3>1 DEF ManagedInv, Gathered, At, Seconds, Steps, Before, Untouched
  <2> QED
    BY <2>1, <2>2, <2>3
<1>8. \A q \in Runs : Proven(q)'
  <2> SUFFICES ASSUME NEW q \in Runs PROVE Proven(q)'
    OBVIOUS
  <2>1. CASE q = r
    BY <1>1, <2>1 DEF ManagedInv, Proven, Clean
  <2>2. CASE q # r
    BY <1>1, <2>2 DEF ManagedInv, Proven
  <2> QED
    BY <2>1, <2>2
<1> QED
  BY <1>3, <1>4, <1>6, <1>7, <1>8, FootprintKeeps DEF ManagedInv

\* The agent works, turns end, and Mjolnir ends sessions.
LEMMA MjolnirSteps ==
    ASSUME ManagedInv, NEW r \in Runs,
           AgentWorks(r) \/ TurnEnds(r) \/ TurnStops(r) \/ SessionGone(r) \/ SessionStops(r)
             \/ WorkerRestarts(r)
    PROVE  ManagedInv'
<1>0. ManagedTypes
  BY DEF ManagedInv
<1>1. /\ session[r] \in Sessions /\ session[r].head \in Nat /\ session[r].seq \in Nat
      /\ session[r].busy \in BOOLEAN /\ touches \in 0..MaxTouches /\ touches \in Nat
      /\ Touch => touches' \in 0..MaxTouches /\ dispatch' = dispatch /\ UNCHANGED mfaults
  BY <1>0, ManagedFields, ManagedNumbers DEF ManagedTypes, Touch
<1>2. session[r].busy => ~kept[r].complete /\ (r = cur => ~At("save") /\ ~At("end"))
  BY <1>0 DEF ManagedInv, Proven, AtWork, Seconds, At, mine
<1>3. CASE AgentWorks(r)
  <2> PICK w \in Worked(session[r]) : Change(r, w)
    BY <1>3 DEF AgentWorks
  <2>1. /\ w \in Sessions /\ w.life = session[r].life /\ w.by = session[r].by /\ w.seq = session[r].seq
        /\ w.busy = session[r].busy /\ w.late = session[r].late /\ session[r].head <= w.head
    BY <1>1, WorkedSets
  <2>2. session[r].busy /\ UNCHANGED <<dispatch, touches, mfaults>>
    BY <1>3 DEF AgentWorks
  <2> QED
    BY <1>1, <1>2, <2>1, <2>2, SessionKeeps
<1>4. CASE TurnEnds(r) \/ TurnStops(r)
  <2> PICK said \in {"town", "none"} :
        Change(r, [session[r] EXCEPT !.busy = FALSE, !.seq = @ + 1, !.last = said])
    BY <1>4 DEF TurnEnds, TurnStops
  <2> DEFINE n == session[r].seq + 1
             w == [session[r] EXCEPT !.busy = FALSE, !.seq = n, !.last = said]
  <2>1. Change(r, w) /\ n \in Nat /\ session[r].seq <= n
    BY <1>1
  <2> HIDE DEF n
  <2>2. /\ w \in Sessions /\ w.life = session[r].life /\ w.by = session[r].by /\ w.seq = n
        /\ w.busy = FALSE /\ w.late = session[r].late /\ w.head = session[r].head
    BY <1>1, <2>1 DEF Sessions
  <2>3. session[r].busy /\ UNCHANGED touches /\ (Fault \/ UNCHANGED mfaults)
    BY <1>4 DEF TurnEnds, TurnStops
  <2>4. \/ dispatch' = dispatch
        \/ At("turn") /\ r = cur /\ dispatch' = Go("idle?")
        \/ At("turn") /\ StepFails("bot")
    BY <1>4 DEF TurnEnds, TurnStops
  <2> HIDE DEF w
  <2>5. session[r].head <= w.head
    BY <1>1, <2>2
  <2> QED
    BY <1>1, <1>2, <2>1, <2>2, <2>3, <2>4, <2>5, SessionKeeps
<1>5. CASE SessionGone(r) \/ SessionStops(r) \/ WorkerRestarts(r)
  <2> PICK w \in {[session[r] EXCEPT !.life = "gone"],
                  [session[r] EXCEPT !.life = "stopped", !.busy = FALSE],
                  [session[r] EXCEPT !.ordinal = 1, !.busy = FALSE]} :
         /\ Change(r, w) /\ (Touch \/ UNCHANGED <<dispatch, touches, mfaults>>)
         /\ \/ w = [session[r] EXCEPT !.life = "gone"] /\ session[r].life = "ending"
            \/ w = [session[r] EXCEPT !.life = "stopped", !.busy = FALSE] /\ session[r].life = "live"
            \/ w = [session[r] EXCEPT !.ordinal = 1, !.busy = FALSE] /\ session[r].life = "live"
    BY <1>5 DEF SessionGone, SessionStops, WorkerRestarts, Live
  <2>1. /\ w \in Sessions /\ w.by = session[r].by /\ w.late = session[r].late
        /\ w.head = session[r].head /\ w.dirty = session[r].dirty /\ w.seq = session[r].seq
        /\ w.busy => session[r].busy
        /\ \/ session[r].life = "ending" /\ w.life = "gone"
           \/ session[r].life = "live" /\ w.life \in {"stopped", "live"}
    BY <1>1 DEF Sessions
  <2>2. touches' \in 0..MaxTouches /\ (Fault \/ UNCHANGED mfaults) /\ dispatch' = dispatch
    BY <1>1
  <2>3. session[r].head <= w.head /\ session[r].seq <= w.seq
    BY <1>1, <2>1
  <2>4. /\ w.life \in {"ending", "gone"} => session[r].life \in {"ending", "gone"}
        /\ session[r].life = "gone" => w.life = "gone"
        /\ session[r].life \in {"live", "stopped"} => w.life \in {"live", "stopped"}
    BY <2>1
  <2> QED
    BY <2>1, <2>2, <2>3, <2>4, SessionKeeps
<1> QED
  BY <1>3, <1>4, <1>5

\* Others use the session.
LEMMA OtherSteps ==
    ASSUME ManagedInv, NEW r \in Runs, OtherEdits(r) \/ OtherTurn(r)
    PROVE  ManagedInv'
<1>0. ManagedTypes
  BY DEF ManagedInv
<1>1. /\ session[r] \in Sessions /\ session[r].head \in Nat /\ session[r].seq \in Nat
      /\ session[r].late \in BOOLEAN
      /\ touches' \in 0..MaxTouches /\ dispatch' = dispatch /\ UNCHANGED mfaults
  <2>1. session[r] \in Sessions
    BY <1>0 DEF ManagedTypes
  <2>2. session[r].head \in Nat /\ session[r].seq \in Nat /\ session[r].late \in BOOLEAN
    BY <2>1 DEF Sessions
  <2>3. Touch
    BY DEF OtherEdits, OtherTurn
  <2>4. touches' \in 0..MaxTouches
    BY <1>0, <2>3, ManagedNumbers DEF ManagedTypes, Touch
  <2> QED
    BY <2>1, <2>2, <2>3, <2>4 DEF Touch
<1>2. \A v \in Worked(session[r]) \cup {session[r]} :
        /\ v \in Sessions /\ v.life = session[r].life /\ v.by = session[r].by
        /\ v.seq = session[r].seq /\ v.busy = session[r].busy /\ v.late = session[r].late
        /\ session[r].head <= v.head
  BY <1>1, WorkedSets
<1>3. kept[r].complete \in BOOLEAN
  BY <1>0, ManagedFields
<1>4. CASE OtherEdits(r)
  <2> PICK v \in Worked(session[r]) :
         Change(r, [v EXCEPT !.late = @ \/ Read(r, {"end", "save"})])
    BY <1>4 DEF OtherEdits
  <2> DEFINE l == v.late \/ Read(r, {"end", "save"})
             w == [v EXCEPT !.late = l]
  <2>1. Change(r, w)
    OBVIOUS
  <2>2. l \in BOOLEAN
    BY <1>1, <1>2 DEF Read
  <2>3. /\ session[r].late => l
        /\ l \/ (~kept[r].complete /\ (r = cur => ~At("save") /\ ~At("end")))
    BY <1>2, <1>3 DEF Read, At
  <2> HIDE DEF l
  <2>4. /\ w \in Sessions /\ w.life = v.life /\ w.by = v.by /\ w.seq = v.seq
        /\ w.busy = v.busy /\ w.late = l /\ w.head = v.head
    BY <1>2, <2>2 DEF Sessions
  <2> HIDE DEF w
  <2>5. /\ w.life = session[r].life /\ w.by = session[r].by /\ session[r].seq <= w.seq
        /\ w.busy = session[r].busy /\ session[r].head <= w.head
    BY <1>1, <1>2, <2>4
  <2> QED
    BY <1>1, <2>1, <2>3, <2>4, <2>5, SessionKeeps
<1>5. CASE OtherTurn(r)
  <2> PICK v \in Worked(session[r]) \cup {session[r]} :
         Change(r, [v EXCEPT !.seq = @ + 1, !.last = "other", !.late = @ \/ Read(r, {"save"})])
    BY <1>5 DEF OtherTurn
  <2> DEFINE l == v.late \/ Read(r, {"save"})
             n == v.seq + 1
             w == [v EXCEPT !.seq = n, !.last = "other", !.late = l]
  <2>1. Change(r, w)
    OBVIOUS
  <2>2. l \in BOOLEAN
    BY <1>1, <1>2 DEF Read
  <2>3. /\ session[r].late => l
        /\ l \/ (~kept[r].complete /\ (r = cur => ~At("save")))
    BY <1>2, <1>3 DEF Read, At
  <2>4. n \in Nat /\ session[r].seq < n /\ session[r].seq <= n
    BY <1>1, <1>2
  <2> HIDE DEF l, n
  <2>5. /\ w \in Sessions /\ w.life = v.life /\ w.by = v.by /\ w.seq = n
        /\ w.busy = v.busy /\ w.late = l /\ w.head = v.head
    BY <1>2, <2>2, <2>4 DEF Sessions
  <2> HIDE DEF w
  <2>6. /\ w.life = session[r].life /\ w.by = session[r].by
        /\ w.busy = session[r].busy /\ session[r].head <= w.head
    BY <1>1, <1>2, <2>5
  <2> QED
    BY <1>1, <2>1, <2>3, <2>4, <2>5, <2>6, SessionKeeps
<1> QED
  BY <1>4, <1>5

-----------------------------------------------------------------------------
LEMMA ManagedInvInit == ASSUME ManagedInit PROVE ManagedInv
<1>1. ManagedTypes
  <2>1. NoSession \in Sessions
    BY DEF NoSession, Sessions
  <2>2. NoEvidence \in Kepts
    BY ManagedNumbers DEF NoEvidence, Kepts
  <2>3. NoDispatch \in Jobs
    BY ManagedNumbers DEF NoDispatch, Jobs, Between
  <2>4. "absent" \in Records /\ touches \in 0..MaxTouches /\ mfaults \in 0..MaxManagedFaults
        /\ checkout \in Nat
    BY ManagedNumbers DEF Records, ManagedInit
  <2> QED
    BY <2>1, <2>2, <2>3, <2>4 DEF ManagedInit, ManagedTypes
<1>2. \A r \in Runs : /\ session[r].by = 0 /\ session[r].life = "none" /\ ~session[r].busy
                      /\ ~kept[r].complete /\ record[r] = "absent"
  BY DEF ManagedInit, NoSession, NoEvidence
<1>3. dispatch.pc = "off" /\ dispatch.n = 0 /\ dispatch.runs = {} /\ ~dispatch.repair
      /\ dispatch.bundle = None
  BY DEF ManagedInit, NoDispatch
<1>4. Dispatches
  <2>1. Cardinality({}) = 0
    BY FS_EmptySet
  <2> QED
    BY <1>2, <1>3, <2>1, MadeFinite, ManagedNumbers DEF Dispatches, At
<1>5. FreshRuns /\ AtWork /\ Gathered
  BY <1>2, <1>3 DEF FreshRuns, AtWork, Gathered, Steps, Before, Seconds, At
<1>6. (\A r \in Runs : Proven(r)) /\ CheckoutIsEvidenced
  BY <1>2 DEF Proven, CheckoutIsEvidenced, ManagedInit
<1> QED
  BY <1>1, <1>4, <1>5, <1>6 DEF ManagedInv

LEMMA ManagedInvStep == ManagedInv /\ [ManagedNext]_managed => ManagedInv'
<1> SUFFICES ASSUME ManagedInv, [ManagedNext]_managed PROVE ManagedInv'
  OBVIOUS
<1>1. CASE \E r \in Runs : \/ AgentWorks(r) \/ TurnEnds(r) \/ TurnStops(r)
                          \/ OtherEdits(r) \/ OtherTurn(r) \/ WorkerRestarts(r)
                          \/ SessionStops(r) \/ SessionGone(r)
  BY <1>1, MjolnirSteps, OtherSteps
<1>2. CASE Begin \/ Prepare \/ CreateAnswered \/ CreateLost
  BY <1>2, BeginKeeps, PrepareKeeps, CreateKeeps
<1>3. CASE Receipt \/ ReceiptFails \/ MarkPrompting \/ CheckClean
  BY <1>3, SavingSteps
<1>4. CASE Configure \/ AwaitIdle \/ Collect \/ ReadTranscript \/ Recheck \/ CheckTranscript
  BY <1>4, CheckingSteps
<1>5. CASE PromptLost \/ ExportGone \/ BotEnds \/ FinishNext \/ PollDestroyed
  BY <1>5, EndingSteps, FinishKeeps
<1>6. CASE Prompt \/ Export \/ SaveEvidence \/ ImportRepair
  BY <1>6, PromptKeeps, ExportKeeps, SaveKeeps, ImportKeeps
<1>7. CASE DestroyMarked \/ SubmitDestroy \/ ServiceDies
  BY <1>7, DestroyKeeps, SubmitKeeps, DiesKeeps
<1>8. CASE UNCHANGED managed
  BY <1>8 DEF managed, ManagedInv, ManagedTypes, FreshRuns, Dispatches, Started, AtWork, Gathered, Proven,
              CheckoutIsEvidenced, At, cur, mine, Untouched
<1>9. QED
  BY <1>1, <1>2, <1>3, <1>4, <1>5, <1>6, <1>7, <1>8 DEF ManagedNext

LEMMA ManagedInvHolds == ManagedInv => ManagedHolds
<1> SUFFICES ASSUME ManagedInv PROVE ManagedHolds
  OBVIOUS
<1>0. ManagedTypes
  BY DEF ManagedInv
<1>1. ManagedTypeOK
  BY <1>0, ManagedFields DEF ManagedInv, ManagedTypes, Dispatches, ManagedTypeOK, Records
<1>2. OneDispatchAtWork
  BY <1>0, ManagedFields DEF ManagedInv, Dispatches, OneDispatchAtWork
<1>3. EvidenceIsTheWork
  BY DEF ManagedInv, Proven, EvidenceIsTheWork
<1> QED
  BY <1>1, <1>2, <1>3 DEF ManagedInv, ManagedHolds

(* However many sessions there are and whatever is lost, cut short or touched *)
(* by others: no dispatch opens a session while one of an earlier dispatch is *)
(* there, what is kept of a session is its work, none is destroyed before it  *)
(* is kept, and a checkout moves only to what is (Prepare, Collect, Destroy). *)
THEOREM SessionsAreEvidenced == ManagedSpec => []ManagedHolds
<1>1. ManagedInit => ManagedInv
  BY ManagedInvInit
<1> QED
  BY <1>1, ManagedInvStep, ManagedInvHolds, PTL DEF ManagedSpec

-----------------------------------------------------------------------------
(***************************************************************************)
(* Review Bot: a review is sent once.                                      *)
(***************************************************************************)

Reviewed  == [rev : Revisions, seen : Nat]
Reviewers == [pc : ReviewPlaces, key : ReviewKeys, read : Nat \X Nat, dry : BOOLEAN]

ReviewTypes ==
    /\ pr \in [rev : Revisions, open : BOOLEAN, talk : 0..MaxTalk]
    /\ reviews \in Seq(Reviewed) /\ sent \in SUBSET (Revisions \X (Nat \X Nat))
    /\ savedjobs \in [ReviewKeys -> ReviewJobs] /\ jobs \in [ReviewKeys -> ReviewJobs]
    /\ reviewer \in Reviewers
    /\ moves \in 0..MaxReviewMoves /\ reviewfaults \in 0..MaxReviewFaults
    /\ polls \in 0..MaxPolls

\* A review of which GitHub shows no trace yet is the only one, was written last
\* of all, is the first of its revision, and is known to be posting.
KnownOf(js, p) == js[<<p[1], FALSE>>].status = "posting"
OnItsWay ==
    \A p \in sent :
        /\ p[2][2] = Len(reviews) /\ sent = {p} /\ OfRevision(p[1]) = {}
        /\ KnownOf(jobs, p) /\ KnownOf(savedjobs, p)

\* What a run knows from its look at the reviews to its post: nothing is on its
\* way, and the revision has no review.  Once it posts, so do memory and file say.
Working == {"existing", "review", "check", "post", "stale"}
ReviewWorks ==
    /\ reviewer.pc \in Working => sent = {} /\ reviewer.key[2] = reviewer.dry
    /\ reviewer.pc = "failed" => jobs[reviewer.key].status = "posting" \/ sent = {}
    /\ reviewer.pc \in {"review", "check", "post"} /\ ~reviewer.dry =>
          OfRevision(reviewer.key[1]) = {}
    /\ reviewer.pc = "existing" => jobs[reviewer.key].tries < ReviewTries
    /\ reviewer.pc \in {"review", "check"} => jobs[reviewer.key].tries > 0
    /\ reviewer.pc = "post" =>
          /\ ~reviewer.dry /\ reviewer.read[2] = Len(reviews)
          /\ jobs[reviewer.key].status = "posting" /\ savedjobs[reviewer.key].status = "posting"

OfOne ==
    \A i, j \in DOMAIN reviews : reviews[i].rev = reviews[j].rev => i = j

ReviewInv == ReviewTypes /\ OnItsWay /\ ReviewWorks /\ OfOne /\ ReviewsKnowEarlier

-----------------------------------------------------------------------------
LEMMA ReviewFields ==
    ASSUME ReviewTypes
    PROVE  /\ pr.rev \in Revisions /\ pr.talk \in Nat /\ Len(reviews) \in Nat
           /\ reviewer.pc \in ReviewPlaces /\ reviewer.key \in ReviewKeys
           /\ reviewer.read \in Nat \X Nat /\ reviewer.dry \in BOOLEAN
           /\ reviewer.key[1] \in Revisions /\ reviewer.key[2] \in BOOLEAN
           /\ <<pr.rev, reviewer.dry>> \in ReviewKeys
           /\ \A k \in ReviewKeys : /\ jobs[k] \in ReviewJobs /\ savedjobs[k] \in ReviewJobs
                                    /\ jobs[k].tries \in 0..ReviewTries
                                    /\ jobs[k].status \in ReviewStatuses
                                    /\ k = <<k[1], k[2]>>
           /\ reviewfaults \in Nat /\ polls \in Nat /\ moves \in Nat
<1>1. pr.rev \in Revisions /\ pr.talk \in Nat /\ Len(reviews) \in Nat
  BY ReviewConstants DEF ReviewTypes
<1>2. /\ reviewer.pc \in ReviewPlaces /\ reviewer.key \in ReviewKeys
      /\ reviewer.read \in Nat \X Nat /\ reviewer.dry \in BOOLEAN
  BY DEF ReviewTypes, Reviewers
<1>3. \A k \in ReviewKeys : k[1] \in Revisions /\ k[2] \in BOOLEAN /\ k = <<k[1], k[2]>>
  BY DEF ReviewKeys
<1>4. <<pr.rev, reviewer.dry>> \in ReviewKeys
  BY <1>1, <1>2 DEF ReviewKeys
<1>5. \A k \in ReviewKeys : jobs[k] \in ReviewJobs /\ savedjobs[k] \in ReviewJobs
  BY DEF ReviewTypes
<1>6. \A j \in ReviewJobs : j.tries \in 0..ReviewTries /\ j.status \in ReviewStatuses
  BY DEF ReviewJobs
<1>7. reviewfaults \in Nat /\ polls \in Nat /\ moves \in Nat
  BY ReviewConstants DEF ReviewTypes
<1> QED
  BY <1>1, <1>2, <1>3, <1>4, <1>5, <1>6, <1>7

LEMMA ReviewFaultSets ==
    ASSUME ReviewTypes, ReviewFault \/ UNCHANGED reviewfaults
    PROVE  reviewfaults' \in 0..MaxReviewFaults
BY ReviewConstants DEF ReviewTypes, ReviewFault

LEMMA ReviewOffFits ==
    /\ ReviewOff \in Reviewers /\ ReviewOff.pc = "off"
    /\ \A dry \in BOOLEAN : LET b == [ReviewOff EXCEPT !.pc = "step", !.dry = dry] IN
          b \in Reviewers /\ b.pc = "step"
<1> DEFINE k0 == CHOOSE k \in ReviewKeys : TRUE
<1>1. k0 \in ReviewKeys
  <2> PICK r \in Revisions : TRUE
    BY ReviewConstants
  <2>1. <<r, FALSE>> \in ReviewKeys
    BY DEF ReviewKeys
  <2> QED
    BY <2>1
<1>2. ReviewOff = [pc |-> "off", key |-> k0, read |-> <<0, 0>>, dry |-> FALSE]
  BY DEF ReviewOff
<1> HIDE DEF k0
<1> QED
  BY <1>1, <1>2 DEF Reviewers, ReviewPlaces

LEMMA ReviewAtSets ==
    ASSUME ReviewTypes, NEW pc \in ReviewPlaces, ReviewAt(pc)
    PROVE  /\ reviewer' \in Reviewers /\ reviewer'.pc = pc
           /\ reviewer'.key = reviewer.key /\ reviewer'.read = reviewer.read
           /\ reviewer'.dry = reviewer.dry
BY DEF ReviewTypes, ReviewAt, Reviewers

LEMMA StatusSets ==
    ASSUME ReviewTypes, NEW k \in ReviewKeys, NEW status \in ReviewStatuses
    PROVE  LET m == WithReviewStatus(k, status) IN
           /\ m \in [ReviewKeys -> ReviewJobs] /\ m[k].status = status
           /\ m[k].tries = jobs[k].tries
           /\ \A q \in ReviewKeys : q # k => m[q] = jobs[q]
<1>1. jobs[k] \in ReviewJobs /\ jobs \in [ReviewKeys -> ReviewJobs]
  BY DEF ReviewTypes
<1> DEFINE j == [jobs[k] EXCEPT !.status = status]
<1>2. j \in ReviewJobs /\ j.status = status /\ j.tries = jobs[k].tries
  BY <1>1 DEF ReviewJobs
<1>3. WithReviewStatus(k, status) = [jobs EXCEPT ![k] = j]
  BY DEF WithReviewStatus
<1> HIDE DEF j
<1> QED
  BY <1>1, <1>2, <1>3

\* A step in which no review is sent or shown.
LEMMA ReviewKeeps ==
    ASSUME ReviewInv, ReviewTypes', UNCHANGED <<reviews, sent>>, ReviewWorks',
           \A p \in sent : KnownOf(jobs', p) /\ KnownOf(savedjobs', p)
    PROVE  ReviewInv'
<1>1. OfRevision(1)' = OfRevision(1) /\ OfOne' /\ ReviewsKnowEarlier'
  BY DEF ReviewInv, OfOne, ReviewsKnowEarlier, OfRevision
<1>2. OnItsWay'
  BY DEF ReviewInv, OnItsWay, OfRevision, KnownOf
<1> QED
  BY <1>1, <1>2 DEF ReviewInv

\* The same with a save that may fail.
LEMMA SavesKeep ==
    ASSUME ReviewInv, ReviewOutside,
           NEW m \in [ReviewKeys -> ReviewJobs], NEW pc \in ReviewPlaces, NEW onError \in ReviewPlaces,
           SaveReview(m, pc, onError),
           \A p \in sent : KnownOf(m, p)
    PROVE  /\ ReviewTypes' /\ \A p \in sent : KnownOf(jobs', p) /\ KnownOf(savedjobs', p)
           /\ jobs' = m /\ ((reviewer'.pc = pc /\ savedjobs' = m) \/ reviewer'.pc = onError)
           /\ reviewer'.key = reviewer.key /\ reviewer'.read = reviewer.read
           /\ reviewer'.dry = reviewer.dry
<1>0. ReviewTypes
  BY DEF ReviewInv
<1>1. jobs' = m /\ savedjobs' \in {savedjobs, m} /\ (ReviewFault \/ UNCHANGED reviewfaults)
      /\ ((ReviewAt(pc) /\ savedjobs' = m) \/ ReviewAt(onError))
  BY DEF SaveReview, ReviewSaved, ReviewUnsaved
<1>2. /\ reviewer' \in Reviewers /\ ((reviewer'.pc = pc /\ savedjobs' = m) \/ reviewer'.pc = onError)
      /\ reviewer'.key = reviewer.key /\ reviewer'.read = reviewer.read
      /\ reviewer'.dry = reviewer.dry
  BY <1>0, <1>1, ReviewAtSets
<1>3. ReviewTypes'
  BY <1>0, <1>1, <1>2, ReviewFaultSets DEF ReviewTypes, ReviewOutside
<1>4. \A p \in sent : KnownOf(savedjobs, p)
  BY DEF ReviewInv, OnItsWay
<1> QED
  BY <1>1, <1>2, <1>3, <1>4

\* And one without.
LEMMA GoesKeep ==
    ASSUME ReviewInv, ReviewOutside, NEW pc \in ReviewPlaces,
           ReviewGoes(pc) \/ ReviewBreaks(pc)
    PROVE  /\ ReviewTypes' /\ \A p \in sent : KnownOf(jobs', p) /\ KnownOf(savedjobs', p)
           /\ reviewer'.pc = pc /\ jobs' = jobs /\ savedjobs' = savedjobs
           /\ reviewer'.key = reviewer.key /\ reviewer'.read = reviewer.read
           /\ reviewer'.dry = reviewer.dry
<1>0. ReviewTypes
  BY DEF ReviewInv
<1>1. UNCHANGED <<jobs, savedjobs>> /\ ReviewAt(pc) /\ (ReviewFault \/ UNCHANGED reviewfaults)
  BY DEF ReviewGoes, ReviewBreaks
<1>2. /\ reviewer' \in Reviewers /\ reviewer'.pc = pc
      /\ reviewer'.key = reviewer.key /\ reviewer'.read = reviewer.read
      /\ reviewer'.dry = reviewer.dry
  BY <1>0, <1>1, ReviewAtSets
<1> QED
  BY <1>0, <1>1, <1>2, ReviewFaultSets DEF ReviewTypes, ReviewOutside, ReviewInv, OnItsWay, KnownOf

-----------------------------------------------------------------------------
LEMMA StepSteps ==
    ASSUME ReviewInv, ReviewStarts \/ ReconcileReview
    PROVE  ReviewInv'
<1>0. ReviewTypes
  BY DEF ReviewInv
<1>1. CASE ReviewStarts
  <2>1. reviewer' \in Reviewers /\ reviewer'.pc = "step"
    <3>1. CASE reviewer.pc = "wait"
      BY <1>0, <1>1, <3>1, ReviewAtSets DEF ReviewStarts, ReviewPlaces
    <3>2. CASE reviewer.pc # "wait"
      BY <1>1, <3>2, ReviewOffFits DEF ReviewStarts
    <3> QED
      BY <3>1, <3>2
  <2>2. polls' \in 0..MaxPolls /\ UNCHANGED <<pr, reviews, sent, savedjobs, jobs, moves, reviewfaults>>
    <3>1. polls < MaxPolls /\ polls' = polls + 1
      BY <1>1 DEF ReviewStarts
    <3>2. polls \in Nat /\ MaxPolls \in Nat
      BY <1>0, ReviewFields, ReviewConstants
    <3>3. polls' \in 0..MaxPolls
      BY <3>1, <3>2
    <3> QED
      BY <1>1, <3>3 DEF ReviewStarts
  <2>3. ReviewTypes'
    BY <1>0, <2>1, <2>2 DEF ReviewTypes
  <2>4. ReviewWorks'
    BY <2>1 DEF ReviewWorks, Working
  <2> QED
    BY <2>2, <2>3, <2>4, ReviewKeeps DEF ReviewInv, OnItsWay, KnownOf
<1>2. CASE ReviewOutside /\ ReviewGoes("list")
  <2>1. ReviewTypes' /\ reviewer'.pc = "list" /\ \A p \in sent : KnownOf(jobs', p) /\ KnownOf(savedjobs', p)
    BY <1>2, GoesKeep DEF ReviewPlaces
  <2>2. ReviewWorks'
    BY <2>1 DEF ReviewWorks, Working
  <2> QED
    BY <1>2, <2>1, <2>2, ReviewKeeps DEF ReviewOutside
<1>3. ASSUME NEW k \in Posting(jobs), ReviewOutside, Cardinality(OfRevision(k[1])) = 1,
             SaveReview(WithReviewStatus(k, "submitted"), "step", "step")
      PROVE  ReviewInv'
  <2> DEFINE m == WithReviewStatus(k, "submitted")
  <2>1. k \in ReviewKeys
    BY <1>3 DEF Posting
  <2>2. m \in [ReviewKeys -> ReviewJobs] /\ \A q \in ReviewKeys : q # k => m[q] = jobs[q]
    BY <1>0, <2>1, StatusSets DEF ReviewStatuses
  <2>3. \A p \in sent : KnownOf(m, p)
    <3> SUFFICES ASSUME NEW p \in sent PROVE KnownOf(m, p)
      OBVIOUS
    <3>1. OfRevision(p[1]) = {} /\ KnownOf(jobs, p)
      BY DEF ReviewInv, OnItsWay
    <3>2. OfRevision(p[1]) # OfRevision(k[1])
      <4>1. Cardinality({}) = 0
        BY FS_EmptySet
      <4> QED
        BY <1>3, <3>1, <4>1
    <3>3. <<p[1], FALSE>> \in ReviewKeys /\ <<p[1], FALSE>> # k
      <4>1. p[1] \in Revisions
        BY <1>0 DEF ReviewTypes
      <4>2. p[1] # k[1]
        BY <3>2
      <4>3. k = <<k[1], k[2]>>
        BY <1>0, <2>1, ReviewFields
      <4>4. <<p[1], FALSE>> \in ReviewKeys
        BY <4>1 DEF ReviewKeys
      <4>5. <<p[1], FALSE>> # <<k[1], k[2]>>
        BY <4>2
      <4> QED
        BY <4>3, <4>4, <4>5
    <3> QED
      BY <2>2, <3>1, <3>3 DEF KnownOf
  <2> HIDE DEF m
  <2>4. ReviewTypes' /\ reviewer'.pc = "step" /\ \A p \in sent : KnownOf(jobs', p) /\ KnownOf(savedjobs', p)
    <3>1. SaveReview(m, "step", "step")
      BY <1>3 DEF m
    <3> QED
      BY <1>3, <2>2, <2>3, <3>1, SavesKeep DEF ReviewPlaces
  <2>5. ReviewWorks'
    BY <2>4 DEF ReviewWorks, Working
  <2> QED
    BY <1>3, <2>4, <2>5, ReviewKeeps DEF ReviewOutside
<1> QED
  BY <1>1, <1>2, <1>3 DEF ReconcileReview, AtReview

\* Queueing leaves a job that is posting as it is.
LEMMA QueueSets ==
    ASSUME ReviewInv
    PROVE  /\ Superseded \in [ReviewKeys -> ReviewJobs]
           /\ Queued(Superseded) \in [ReviewKeys -> ReviewJobs]
           /\ \A k \in ReviewKeys : jobs[k].status = "posting" => Superseded[k] = jobs[k]
<1>0. ReviewTypes /\ ReviewKey \in ReviewKeys
  BY ReviewFields DEF ReviewInv, ReviewKey
<1>1. \A k \in ReviewKeys : /\ jobs[k] \in ReviewJobs
                             /\ [jobs[k] EXCEPT !.status = "stale"] \in ReviewJobs
  BY <1>0, ReviewFields DEF ReviewJobs, ReviewStatuses
<1>2. Superseded \in [ReviewKeys -> ReviewJobs]
  BY <1>1 DEF Superseded
<1>3. [status |-> "pending", tries |-> 0] \in ReviewJobs
  BY ReviewConstants DEF ReviewJobs, ReviewStatuses
<1>4. Queued(Superseded) \in [ReviewKeys -> ReviewJobs]
  <2> DEFINE sup == Superseded
             job == [status |-> "pending", tries |-> 0]
  <2>1. Queued(Superseded) \in {sup, [sup EXCEPT ![ReviewKey] = job]}
    BY DEF Queued
  <2> HIDE DEF sup, job
  <2>2. sup \in [ReviewKeys -> ReviewJobs] /\ job \in ReviewJobs
    BY <1>2, <1>3 DEF sup, job
  <2> QED
    BY <1>0, <2>1, <2>2
<1> QED
  BY <1>2, <1>4 DEF Superseded

\* Of what is on its way the state knows that it is posting.
LEMMA SentIsPosting ==
    ASSUME ReviewInv
    PROVE  /\ \A p \in sent : <<p[1], FALSE>> \in Posting(jobs)
           /\ Posting(jobs) = {} => sent = {}
<1>1. ASSUME NEW p \in sent PROVE <<p[1], FALSE>> \in Posting(jobs)
  <2>1. p[1] \in Revisions /\ KnownOf(jobs, p)
    BY DEF ReviewInv, ReviewTypes, OnItsWay
  <2>2. <<p[1], FALSE>> \in ReviewKeys
    BY <2>1 DEF ReviewKeys
  <2> QED
    BY <2>1, <2>2 DEF Posting, KnownOf
<1> QED
  BY <1>1

LEMMA ListPullsSteps ==
    ASSUME ReviewInv, ListPulls
    PROVE  ReviewInv'
<1>0. ReviewTypes /\ ReviewOutside
  BY DEF ReviewInv, ListPulls, AtReview
<1>1. CASE ReviewGoes("wait")
  <2>1. ReviewTypes' /\ reviewer'.pc = "wait" /\ \A p \in sent : KnownOf(jobs', p) /\ KnownOf(savedjobs', p)
    BY <1>0, <1>1, GoesKeep DEF ReviewPlaces
  <2>2. ReviewWorks'
    BY <2>1 DEF ReviewWorks, Working
  <2> QED
    BY <1>0, <2>1, <2>2, ReviewKeeps DEF ReviewOutside
<1> DEFINE blocked == Posting(jobs) # {}
           m == IF blocked THEN Superseded ELSE Queued(Superseded)
           work == /\ ~blocked
                   /\ m[ReviewKey].status \notin {"submitted", "dry_run"}
                   /\ TriesLeft(m)
<1>2. m \in [ReviewKeys -> ReviewJobs]
  BY QueueSets
<1>3. \A p \in sent : KnownOf(m, p)
  <2> SUFFICES ASSUME NEW p \in sent PROVE KnownOf(m, p)
    OBVIOUS
  <2>1. <<p[1], FALSE>> \in Posting(jobs)
    BY SentIsPosting
  <2>2. m = Superseded /\ <<p[1], FALSE>> \in ReviewKeys /\ jobs[<<p[1], FALSE>>].status = "posting"
    BY <2>1 DEF Posting
  <2> QED
    BY <2>2, QueueSets DEF KnownOf
<1>4. work => sent = {} /\ m[ReviewKey].tries < ReviewTries
  BY SentIsPosting DEF TriesLeft
<1>5. ReviewGoes("wait") \/ ReviewUnsaved(m, "wait")
      \/ /\ jobs' = m /\ savedjobs' = m /\ UNCHANGED reviewfaults
         /\ reviewer' = [reviewer EXCEPT !.pc = IF work THEN "existing" ELSE "wait",
                                         !.key = ReviewKey]
  BY DEF ListPulls
<1> HIDE DEF m, work
<1>6. CASE ReviewUnsaved(m, "wait")
  <2>1. ReviewTypes' /\ reviewer'.pc = "wait" /\ \A p \in sent : KnownOf(jobs', p) /\ KnownOf(savedjobs', p)
    <3>1. SaveReview(m, "wait", "wait")
      BY <1>6 DEF SaveReview
    <3> QED
      BY <1>0, <1>2, <1>3, <3>1, SavesKeep DEF ReviewPlaces
  <2>2. ReviewWorks'
    BY <2>1 DEF ReviewWorks, Working
  <2> QED
    BY <1>0, <2>1, <2>2, ReviewKeeps DEF ReviewOutside
<1>7. CASE /\ jobs' = m /\ savedjobs' = m /\ UNCHANGED reviewfaults
           /\ reviewer' = [reviewer EXCEPT !.pc = IF work THEN "existing" ELSE "wait",
                                           !.key = ReviewKey]
  <2>1. ReviewKey \in ReviewKeys /\ ReviewKey[2] = reviewer.dry /\ reviewer \in Reviewers
    BY <1>0, ReviewFields DEF ReviewKey, ReviewTypes
  <2>2. /\ reviewer' \in Reviewers /\ reviewer'.key = ReviewKey /\ reviewer'.dry = reviewer.dry
        /\ reviewer'.pc = IF work THEN "existing" ELSE "wait"
    BY <1>7, <2>1 DEF Reviewers, ReviewPlaces
  <2>3. ReviewTypes'
    BY <1>0, <1>2, <1>7, <2>2 DEF ReviewTypes, ReviewOutside
  <2>4. ReviewWorks'
    BY <1>0, <1>4, <1>7, <2>1, <2>2 DEF ReviewWorks, Working, ReviewOutside
  <2> QED
    BY <1>0, <1>3, <1>7, <2>3, <2>4, ReviewKeeps DEF ReviewOutside
<1> QED
  BY <1>1, <1>5, <1>6, <1>7

LEMMA ReviewsOf ==
    ASSUME ReviewTypes, NEW r
    PROVE  /\ Cardinality(OfRevision(r)) \in Nat
           /\ Cardinality(OfRevision(r)) = 0 => OfRevision(r) = {}
<1>1. DOMAIN reviews = 1..Len(reviews) /\ Len(reviews) \in Nat
  BY DEF ReviewTypes
<1>2. IsFiniteSet(1..Len(reviews))
  BY <1>1, FS_Interval
<1>3. IsFiniteSet(OfRevision(r))
  BY <1>1, <1>2, FS_Subset DEF OfRevision
<1> QED
  BY <1>3, FS_CardinalityType, FS_EmptySet

LEMMA ExistingSteps ==
    ASSUME ReviewInv, Existing
    PROVE  ReviewInv'
<1> DEFINE k == reviewer.key
           n == Cardinality(OfRevision(k[1]))
           tried == [jobs EXCEPT ![k] = [status |-> "pending", tries |-> @.tries + 1]]
<1>0. ReviewTypes /\ ReviewOutside /\ reviewer.pc = "existing"
  BY DEF ReviewInv, Existing, AtReview
<1>1. sent = {} /\ k[2] = reviewer.dry /\ jobs[k].tries < ReviewTries
  BY <1>0 DEF ReviewInv, ReviewWorks, Working
<1>2. ASSUME NEW pc \in ReviewPlaces, reviewer'.pc = pc, pc \notin Working, pc # "failed",
             ReviewTypes'
      PROVE  ReviewInv'
  <2>1. ReviewWorks'
    BY <1>2 DEF ReviewWorks, Working
  <2> QED
    BY <1>0, <1>1, <1>2, <2>1, ReviewKeeps DEF ReviewOutside
<1>3. CASE SaveReview(WithReviewStatus(k, "submitted"), "wait", "wait")
  <2> DEFINE m == WithReviewStatus(k, "submitted")
  <2>1. m \in [ReviewKeys -> ReviewJobs]
    BY <1>0, ReviewFields, StatusSets DEF ReviewStatuses
  <2> HIDE DEF m
  <2>2. SaveReview(m, "wait", "wait")
    BY <1>3 DEF m
  <2>3. ReviewTypes' /\ reviewer'.pc = "wait"
    BY <1>0, <1>1, <2>1, <2>2, SavesKeep DEF ReviewPlaces
  <2> QED
    BY <1>2, <2>3 DEF Working, ReviewPlaces
<1>4. CASE ReviewGoes("wait")
  <2>1. ReviewTypes' /\ reviewer'.pc = "wait"
    BY <1>0, <1>4, GoesKeep DEF ReviewPlaces
  <2> QED
    BY <1>2, <2>1 DEF Working, ReviewPlaces
<1>5. CASE ~(~reviewer.dry /\ n = 1) /\ ~(~reviewer.dry /\ n > 1)
           /\ SaveReview(tried, "review", "wait")
  <2>1. ~reviewer.dry => OfRevision(k[1]) = {}
    <3>1. n \in Nat /\ (n = 0 => OfRevision(k[1]) = {})
      BY <1>0, ReviewsOf
    <3> HIDE DEF n
    <3> QED
      BY <1>5, <3>1
  <2>2. tried \in [ReviewKeys -> ReviewJobs] /\ tried[k].tries > 0
    <3> DEFINE t == jobs[k].tries + 1
               job == [status |-> "pending", tries |-> t]
    <3>1. k \in ReviewKeys /\ jobs \in [ReviewKeys -> ReviewJobs] /\ jobs[k].tries \in 0..ReviewTries
      BY <1>0, ReviewFields DEF ReviewTypes
    <3>2. t \in 0..ReviewTries /\ t > 0
      BY <1>1, <3>1, ReviewConstants
    <3> HIDE DEF t
    <3>3. job \in ReviewJobs /\ job.tries > 0
      BY <3>2 DEF ReviewJobs, ReviewStatuses
    <3>4. tried = [jobs EXCEPT ![k] = job]
      BY DEF t
    <3> HIDE DEF job, k
    <3> QED
      BY <3>1, <3>3, <3>4
  <2> HIDE DEF tried
  <2>3. /\ ReviewTypes' /\ (reviewer'.pc = "review" \/ reviewer'.pc = "wait")
        /\ jobs' = tried /\ reviewer'.key = reviewer.key /\ reviewer'.dry = reviewer.dry
    BY <1>0, <1>1, <1>5, <2>2, SavesKeep DEF ReviewPlaces
  <2>4. CASE reviewer'.pc = "wait"
    BY <1>2, <2>3, <2>4 DEF Working, ReviewPlaces
  <2>5. CASE reviewer'.pc = "review"
    <3>1. UNCHANGED <<reviews, sent>>
      BY <1>0 DEF ReviewOutside
    <3>2. OfRevision(k[1])' = OfRevision(k[1]) /\ k' = k
      BY <2>3, <3>1 DEF OfRevision
    <3>3. ReviewWorks'
      BY <1>1, <2>1, <2>2, <2>3, <2>5, <3>1, <3>2 DEF ReviewWorks, Working
    <3> QED
      BY <1>1, <2>3, <3>1, <3>3, ReviewKeeps
  <2> QED
    BY <2>3, <2>4, <2>5
<1> QED
  BY <1>3, <1>4, <1>5 DEF Existing

\* With nothing on its way, a run that is done with its look stops anywhere.
LEMMA StopsKeep ==
    ASSUME ReviewInv, ReviewTypes', ReviewOutside, sent = {},
           reviewer'.pc \notin Working
    PROVE  ReviewInv'
<1>1. ReviewWorks'
  BY DEF ReviewWorks, Working, ReviewOutside
<1> QED
  BY <1>1, ReviewKeeps DEF ReviewOutside

\* What an agent that is at work knows stays known while nothing is posted.
LEMMA WorkKeeps ==
    ASSUME ReviewInv, ReviewTypes', ReviewOutside, sent = {},
           reviewer'.key = reviewer.key, reviewer'.dry = reviewer.dry,
           reviewer.pc \in Working, reviewer'.pc \in Working \ {"existing", "post"},
           reviewer'.pc = "check" =>
               /\ jobs'[reviewer.key].tries > 0
               /\ ~reviewer.dry => OfRevision(reviewer.key[1]) = {},
           reviewer'.pc # "review"
    PROVE  ReviewInv'
<1>1. OfRevision(reviewer.key[1])' = OfRevision(reviewer.key[1]) /\ sent' = {}
  BY DEF OfRevision, ReviewOutside
<1>2. ReviewWorks'
  BY <1>1 DEF ReviewInv, ReviewWorks, Working
<1> QED
  BY <1>2, ReviewKeeps DEF ReviewOutside

LEMMA SnapshotSteps ==
    ASSUME ReviewInv, Snapshot
    PROVE  ReviewInv'
<1>0. ReviewTypes /\ ReviewOutside /\ reviewer.pc = "review"
  BY DEF ReviewInv, Snapshot
<1>1. /\ sent = {} /\ jobs[reviewer.key].tries > 0
      /\ ~reviewer.dry => OfRevision(reviewer.key[1]) = {}
  BY <1>0 DEF ReviewInv, ReviewWorks, Working
<1>2. CASE /\ reviewer' = [reviewer EXCEPT !.pc = "check", !.read = Discussion]
           /\ UNCHANGED <<jobs, savedjobs, reviewfaults>>
  <2>1. Discussion \in Nat \X Nat
    BY <1>0, ReviewFields DEF Discussion
  <2>2. /\ reviewer' \in Reviewers /\ reviewer'.pc = "check" /\ reviewer'.key = reviewer.key
        /\ reviewer'.dry = reviewer.dry
    BY <1>0, <1>2, <2>1 DEF ReviewTypes, Reviewers, ReviewPlaces
  <2>3. ReviewTypes'
    BY <1>0, <1>2, <2>2 DEF ReviewTypes, ReviewOutside
  <2> QED
    BY <1>0, <1>1, <1>2, <2>2, <2>3, WorkKeeps DEF Working
<1>3. CASE ReviewGoes("stale")
  <2>1. /\ ReviewTypes' /\ reviewer'.pc = "stale" /\ reviewer'.key = reviewer.key
        /\ reviewer'.dry = reviewer.dry
    BY <1>0, <1>3, GoesKeep DEF ReviewPlaces
  <2> QED
    BY <1>0, <1>1, <2>1, WorkKeeps DEF Working
<1>4. CASE ReviewBreaks("failed")
  <2>1. ReviewTypes' /\ reviewer'.pc = "failed"
    BY <1>0, <1>4, GoesKeep DEF ReviewPlaces
  <2> QED
    BY <1>0, <1>1, <2>1, StopsKeep DEF Working
<1> QED
  BY <1>2, <1>3, <1>4 DEF Snapshot

LEMMA BreakSteps ==
    ASSUME ReviewInv, ReviewAgentBreaks
    PROVE  ReviewInv'
<1>0. ReviewTypes /\ ReviewOutside /\ reviewer.pc = "check"
  BY DEF ReviewInv, ReviewAgentBreaks, AtReview
<1>1. sent = {} /\ jobs[reviewer.key].tries > 0
  BY <1>0 DEF ReviewInv, ReviewWorks, Working
<1>2. jobs' \in [ReviewKeys -> ReviewJobs]
  <2> DEFINE k == reviewer.key
             t == jobs[k].tries - 1
             given == [jobs EXCEPT ![k].tries = @ - 1]
             job == [jobs[k] EXCEPT !.tries = t]
  <2>1. /\ k \in ReviewKeys /\ jobs \in [ReviewKeys -> ReviewJobs] /\ jobs[k] \in ReviewJobs
        /\ jobs[k].tries \in 0..ReviewTries
    BY <1>0, ReviewFields DEF ReviewTypes
  <2>2. t \in 0..ReviewTries
    BY <1>1, <2>1, ReviewConstants
  <2>3. jobs' = jobs \/ jobs' = given
    BY Zenon DEF ReviewAgentBreaks
  <2> HIDE DEF t
  <2>4. job \in ReviewJobs
    BY <2>1, <2>2 DEF ReviewJobs
  <2>5. given = [jobs EXCEPT ![k] = job]
    <3> DEFINE inner == [jobs[k] EXCEPT !.tries = jobs[k].tries - 1]
    <3>1. inner = job
      BY Zenon DEF t
    <3>2. given = [jobs EXCEPT ![k] = inner]
      BY Zenon
    <3> QED
      BY <3>1, <3>2, Zenon
  <2> HIDE DEF job, k, given
  <2> QED
    BY <2>1, <2>3, <2>4, <2>5
<1>3. reviewer' \in Reviewers /\ reviewer'.pc = "failed"
  BY <1>0, ReviewAtSets DEF ReviewAgentBreaks, ReviewPlaces
<1>4. ReviewTypes'
  BY <1>0, <1>2, <1>3, ReviewFaultSets DEF ReviewTypes, ReviewOutside, ReviewAgentBreaks
<1> QED
  BY <1>0, <1>1, <1>3, <1>4, StopsKeep DEF Working

LEMMA CheckSteps ==
    ASSUME ReviewInv, CheckReview
    PROVE  ReviewInv'
<1> DEFINE k == reviewer.key
<1>0. ReviewTypes /\ ReviewOutside /\ reviewer.pc = "check"
  BY DEF ReviewInv, CheckReview, AtReview
<1>1. /\ sent = {} /\ k[2] = reviewer.dry
      /\ ~reviewer.dry => OfRevision(k[1]) = {}
  BY <1>0 DEF ReviewInv, ReviewWorks, Working
<1>2. CASE ReviewGoes("stale")
  <2>1. /\ ReviewTypes' /\ reviewer'.pc = "stale" /\ reviewer'.key = reviewer.key
        /\ reviewer'.dry = reviewer.dry
    BY <1>0, <1>2, GoesKeep DEF ReviewPlaces
  <2> QED
    BY <1>0, <1>1, <2>1, WorkKeeps DEF Working
<1>3. CASE ReviewGoes("failed")
  <2>1. ReviewTypes' /\ reviewer'.pc = "failed"
    BY <1>0, <1>3, GoesKeep DEF ReviewPlaces
  <2> QED
    BY <1>0, <1>1, <2>1, StopsKeep DEF Working
<1>4. CASE SaveReview(WithReviewStatus(k, "dry_run"), "wait", "failed")
  <2> DEFINE m == WithReviewStatus(k, "dry_run")
  <2>1. m \in [ReviewKeys -> ReviewJobs]
    BY <1>0, ReviewFields, StatusSets DEF ReviewStatuses
  <2> HIDE DEF m
  <2>2. SaveReview(m, "wait", "failed")
    BY <1>4 DEF m
  <2>3. ReviewTypes' /\ (reviewer'.pc = "wait" \/ reviewer'.pc = "failed")
    BY <1>0, <1>1, <2>1, <2>2, SavesKeep DEF ReviewPlaces
  <2> QED
    BY <1>0, <1>1, <2>3, StopsKeep DEF Working
<1>5. CASE /\ ~reviewer.dry /\ Discussion = reviewer.read
           /\ SaveReview(WithReviewStatus(k, "posting"), "post", "failed")
  <2> DEFINE m == WithReviewStatus(k, "posting")
  <2>1. m \in [ReviewKeys -> ReviewJobs] /\ m[k].status = "posting"
    BY <1>0, ReviewFields, StatusSets DEF ReviewStatuses
  <2> HIDE DEF m
  <2>2. SaveReview(m, "post", "failed")
    BY <1>5 DEF m
  <2>3. /\ ReviewTypes' /\ jobs' = m
        /\ (reviewer'.pc = "post" /\ savedjobs' = m) \/ reviewer'.pc = "failed"
        /\ reviewer'.key = k /\ reviewer'.read = reviewer.read /\ reviewer'.dry = reviewer.dry
    BY <1>0, <1>1, <2>1, <2>2, SavesKeep DEF ReviewPlaces
  <2>4. CASE reviewer'.pc = "failed"
    BY <1>0, <1>1, <2>3, <2>4, StopsKeep DEF Working
  <2>5. CASE reviewer'.pc = "post" /\ savedjobs' = m
    <3>1. UNCHANGED <<reviews, sent>> /\ reviewer.read[2] = Len(reviews)
      BY <1>0, <1>5 DEF ReviewOutside, Discussion
    <3>2. OfRevision(k[1])' = OfRevision(k[1]) /\ sent' = {} /\ reviewer.read[2] = Len(reviews')
      BY <1>1, <2>3, <3>1 DEF OfRevision
    <3>3. OfRevision(reviewer.key[1])' = {}
      BY <1>1, <1>5, <3>2
    <3>4. ReviewWorks'
      BY <1>1, <1>5, <2>1, <2>3, <2>5, <3>2, <3>3 DEF ReviewWorks, Working
    <3> QED
      BY <1>1, <2>3, <3>1, <3>4, ReviewKeeps
  <2> QED
    BY <2>3, <2>4, <2>5
<1> QED
  BY <1>2, <1>3, <1>4, <1>5 DEF CheckReview

\* The first review of a revision, written knowing all reviews there are.
LEMMA ReviewAdds ==
    ASSUME ReviewTypes, OfOne, ReviewsKnowEarlier,
           NEW r \in Revisions, NEW read \in Nat \X Nat,
           OfRevision(r) = {}, read[2] = Len(reviews), reviews' = WithReview(r, read)
    PROVE  reviews' \in Seq(Reviewed) /\ OfOne' /\ ReviewsKnowEarlier'
<1> DEFINE n == Len(reviews)
           new == [rev |-> r, seen |-> read[2]]
<1>1. new \in Reviewed /\ new.rev = r /\ new.seen = n /\ n \in Nat /\ reviews \in Seq(Reviewed)
  BY DEF Reviewed, ReviewTypes
<1>2. reviews' = Append(reviews, new)
  BY DEF WithReview
<1> HIDE DEF new
<1>3. /\ reviews' \in Seq(Reviewed) /\ DOMAIN reviews' = 1..(n + 1) /\ reviews'[n + 1] = new
      /\ \A i \in 1..n : reviews'[i] = reviews[i]
      /\ DOMAIN reviews = 1..n
  BY <1>1, <1>2
<1>4. \A i \in 1..n : reviews[i].rev # r
  BY <1>3 DEF OfRevision
<1>5. \A i \in DOMAIN reviews' : i \in 1..n \/ i = n + 1
  BY <1>1, <1>3
<1>6. OfOne'
  BY <1>1, <1>3, <1>4, <1>5 DEF OfOne
<1>7. ReviewsKnowEarlier'
  <2> SUFFICES ASSUME NEW i \in DOMAIN reviews' PROVE reviews'[i].seen = i - 1
    BY DEF ReviewsKnowEarlier
  <2>1. CASE i \in 1..n
    BY <1>3, <2>1 DEF ReviewsKnowEarlier
  <2>2. CASE i = n + 1
    BY <1>1, <1>3, <2>2
  <2> QED
    BY <1>5, <2>1, <2>2
<1> QED
  BY <1>3, <1>6, <1>7

LEMMA PostSteps ==
    ASSUME ReviewInv, PostReview
    PROVE  ReviewInv'
<1> DEFINE k == reviewer.key
<1>0. ReviewTypes /\ reviewer.pc = "post" /\ UNCHANGED <<pr, moves, polls>>
  BY DEF ReviewInv, PostReview
<1>1. /\ sent = {} /\ k[2] = reviewer.dry /\ ~reviewer.dry /\ OfRevision(k[1]) = {}
      /\ reviewer.read[2] = Len(reviews)
      /\ jobs[k].status = "posting" /\ savedjobs[k].status = "posting"
  BY <1>0 DEF ReviewInv, ReviewWorks, Working
<1>2. k \in ReviewKeys /\ k[1] \in Revisions /\ k = <<k[1], FALSE>> /\ reviewer.read \in Nat \X Nat
  BY <1>0, <1>1, ReviewFields
<1>3. ASSUME reviews' = WithReview(k[1], reviewer.read)
      PROVE  reviews' \in Seq(Reviewed) /\ OfOne' /\ ReviewsKnowEarlier'
  BY <1>0, <1>1, <1>2, <1>3, ReviewAdds DEF ReviewInv
<1>4. ASSUME UNCHANGED reviews
      PROVE  reviews' \in Seq(Reviewed) /\ OfOne' /\ ReviewsKnowEarlier'
  BY <1>4 DEF ReviewInv, ReviewTypes, OfOne, ReviewsKnowEarlier
<1>5. ASSUME UNCHANGED reviewfaults \/ ReviewFault, UNCHANGED sent,
             jobs' \in [ReviewKeys -> ReviewJobs], savedjobs' \in [ReviewKeys -> ReviewJobs],
             ReviewAt("wait") \/ ReviewAt("failed"),
             UNCHANGED reviews \/ reviews' = WithReview(k[1], reviewer.read)
      PROVE  ReviewInv'
  <2>1. reviews' \in Seq(Reviewed) /\ OfOne' /\ ReviewsKnowEarlier'
    BY <1>3, <1>4, <1>5
  <2>2. reviewer' \in Reviewers /\ (reviewer'.pc = "wait" \/ reviewer'.pc = "failed")
    BY <1>0, <1>5, ReviewAtSets DEF ReviewPlaces
  <2>3. ReviewTypes'
    BY <1>0, <1>5, <2>1, <2>2, ReviewFaultSets DEF ReviewTypes
  <2>4. ReviewWorks' /\ OnItsWay'
    BY <1>1, <1>5, <2>2 DEF ReviewWorks, Working, OnItsWay
  <2> QED
    BY <2>1, <2>3, <2>4 DEF ReviewInv
<1>6. CASE /\ reviews' = WithReview(k[1], reviewer.read) /\ UNCHANGED sent
           /\ SaveReview(WithReviewStatus(k, "submitted"), "wait", "failed")
  <2> DEFINE m == WithReviewStatus(k, "submitted")
  <2>1. m \in [ReviewKeys -> ReviewJobs]
    BY <1>0, <1>2, StatusSets DEF ReviewStatuses
  <2> HIDE DEF m
  <2>2. SaveReview(m, "wait", "failed")
    BY <1>6 DEF m
  <2>3. jobs' = m /\ savedjobs' \in {savedjobs, m}
        /\ (ReviewAt("wait") \/ ReviewAt("failed")) /\ (UNCHANGED reviewfaults \/ ReviewFault)
    BY <2>2 DEF SaveReview, ReviewSaved, ReviewUnsaved
  <2>4. savedjobs \in [ReviewKeys -> ReviewJobs]
    BY <1>0 DEF ReviewTypes
  <2> QED
    BY <1>5, <1>6, <2>1, <2>3, <2>4
<1>7. CASE /\ ReviewFault /\ ReviewAt("failed") /\ UNCHANGED <<savedjobs, reviews, sent>>
           /\ jobs' = WithReviewStatus(k, "failed")
  <2>1. jobs' \in [ReviewKeys -> ReviewJobs] /\ savedjobs \in [ReviewKeys -> ReviewJobs]
    BY <1>0, <1>2, <1>7, StatusSets DEF ReviewStatuses, ReviewTypes
  <2> QED
    BY <1>5, <1>7, <2>1
<1>8. CASE /\ ReviewFault /\ ReviewAt("failed") /\ UNCHANGED <<savedjobs, jobs, sent>>
           /\ reviews' = WithReview(k[1], reviewer.read)
  <2>1. jobs \in [ReviewKeys -> ReviewJobs] /\ savedjobs \in [ReviewKeys -> ReviewJobs]
    BY <1>0 DEF ReviewTypes
  <2> QED
    BY <1>5, <1>8, <2>1
<1>9. CASE /\ ReviewFault /\ ReviewAt("failed") /\ UNCHANGED <<savedjobs, jobs, reviews>>
           /\ sent' = sent \cup {<<k[1], reviewer.read>>}
  <2> DEFINE p == <<k[1], reviewer.read>>
  <2>1. sent' = {p} /\ p[1] = k[1] /\ p[2] = reviewer.read
    BY <1>1, <1>9
  <2>2. /\ reviewer' \in Reviewers /\ reviewer'.pc = "failed" /\ reviewer'.key = k
    BY <1>0, <1>9, ReviewAtSets DEF ReviewPlaces
  <2>3. ReviewTypes'
    BY <1>0, <1>2, <1>9, <2>1, <2>2, ReviewFaultSets DEF ReviewTypes
  <2>4. \A r : OfRevision(r)' = OfRevision(r)
    BY <1>9 DEF OfRevision
  <2>5. OnItsWay'
    <3> SUFFICES ASSUME NEW q \in sent'
                 PROVE  /\ q[2][2] = Len(reviews') /\ sent' = {q} /\ OfRevision(q[1])' = {}
                        /\ KnownOf(jobs', q) /\ KnownOf(savedjobs', q)
      BY DEF OnItsWay
    <3>1. q[1] = k[1] /\ q[2] = reviewer.read /\ sent' = {q}
      BY <2>1
    <3>2. OfRevision(q[1])' = {}
      BY <1>1, <2>4, <3>1
    <3> QED
      BY <1>1, <1>2, <1>9, <3>1, <3>2 DEF KnownOf
  <2>6. ReviewWorks'
    BY <1>1, <1>9, <2>2 DEF ReviewWorks, Working
  <2> QED
    BY <1>4, <1>9, <2>3, <2>5, <2>6 DEF ReviewInv
<1> QED
  BY <1>6, <1>7, <1>8, <1>9 DEF PostReview

LEMMA LandsSteps ==
    ASSUME ReviewInv, ReviewLands
    PROVE  ReviewInv'
<1> PICK p \in sent : reviews' = WithReview(p[1], p[2]) /\ sent' = sent \ {p}
  BY DEF ReviewLands
<1>1. ReviewTypes /\ p[1] \in Revisions /\ p[2] \in Nat \X Nat
  BY DEF ReviewInv, ReviewTypes
<1>2. p[2][2] = Len(reviews) /\ sent = {p} /\ OfRevision(p[1]) = {}
  BY DEF ReviewInv, OnItsWay
<1>3. reviews' \in Seq(Reviewed) /\ OfOne' /\ ReviewsKnowEarlier'
  BY <1>1, <1>2, ReviewAdds DEF ReviewInv
<1>4. sent' = {} /\ UNCHANGED <<pr, savedjobs, jobs, reviewer, moves, reviewfaults, polls>>
  BY <1>2 DEF ReviewLands
<1>5. ReviewTypes'
  BY <1>1, <1>3, <1>4 DEF ReviewTypes
<1>6. ReviewWorks'
  BY <1>2, <1>4 DEF ReviewInv, ReviewWorks, Working
<1> QED
  BY <1>3, <1>4, <1>5, <1>6 DEF ReviewInv, OnItsWay

LEMMA FailsSteps ==
    ASSUME ReviewInv, ReviewFails
    PROVE  ReviewInv'
<1> DEFINE k == reviewer.key
           m == IF jobs[k].status = "posting" THEN jobs ELSE WithReviewStatus(k, "failed")
<1>0. ReviewTypes /\ ReviewOutside /\ reviewer.pc = "failed" /\ k \in ReviewKeys
  BY ReviewFields DEF ReviewInv, ReviewFails, AtReview
<1>1. m \in [ReviewKeys -> ReviewJobs]
  BY <1>0, StatusSets DEF ReviewStatuses, ReviewTypes
<1>2. \A p \in sent : KnownOf(m, p)
  BY <1>0 DEF ReviewInv, ReviewWorks, OnItsWay
<1>3. SaveReview(m, "wait", "wait")
  BY DEF ReviewFails
<1> HIDE DEF m
<1>4. ReviewTypes' /\ reviewer'.pc = "wait" /\ \A p \in sent : KnownOf(jobs', p) /\ KnownOf(savedjobs', p)
  BY <1>0, <1>1, <1>2, <1>3, SavesKeep DEF ReviewPlaces
<1>5. ReviewWorks'
  BY <1>4 DEF ReviewWorks, Working
<1> QED
  BY <1>0, <1>4, <1>5, ReviewKeeps DEF ReviewOutside

LEMMA StaleSteps ==
    ASSUME ReviewInv, GoneStale
    PROVE  ReviewInv'
<1> DEFINE m == WithReviewStatus(reviewer.key, "stale")
<1>0. ReviewTypes /\ ReviewOutside /\ reviewer.pc = "stale"
  BY DEF ReviewInv, GoneStale, AtReview
<1>1. sent = {}
  BY <1>0 DEF ReviewInv, ReviewWorks, Working
<1>2. m \in [ReviewKeys -> ReviewJobs]
  BY <1>0, ReviewFields, StatusSets DEF ReviewStatuses
<1>3. SaveReview(m, "wait", "wait")
  BY DEF GoneStale
<1> HIDE DEF m
<1>4. ReviewTypes' /\ reviewer'.pc = "wait"
  BY <1>0, <1>1, <1>2, <1>3, SavesKeep DEF ReviewPlaces
<1> QED
  BY <1>0, <1>1, <1>4, StopsKeep DEF Working

LEMMA EndSteps ==
    ASSUME ReviewInv, ReviewExit \/ ReviewCrash
    PROVE  ReviewInv'
<1>0. ReviewTypes /\ ReviewForgets /\ (ReviewFault \/ UNCHANGED reviewfaults)
  BY DEF ReviewInv, ReviewExit, ReviewCrash
<1>1. /\ reviewer' = ReviewOff /\ jobs' = savedjobs
      /\ UNCHANGED <<pr, reviews, sent, savedjobs, moves, polls>>
  BY <1>0 DEF ReviewForgets
<1>2. ReviewTypes'
  BY <1>0, <1>1, ReviewOffFits, ReviewFaultSets DEF ReviewTypes
<1>3. ReviewWorks'
  BY <1>1, ReviewOffFits DEF ReviewWorks, Working
<1>4. \A p \in sent : KnownOf(jobs', p) /\ KnownOf(savedjobs', p)
  BY <1>1 DEF ReviewInv, OnItsWay
<1> QED
  BY <1>1, <1>2, <1>3, <1>4, ReviewKeeps

LEMMA RetrySteps ==
    ASSUME ReviewInv, RetryReviews
    PROVE  ReviewInv'
<1>0. /\ ReviewTypes /\ reviewer.pc = "off"
      /\ UNCHANGED <<pr, reviews, sent, reviewer, moves, reviewfaults>>
  BY DEF ReviewInv, RetryReviews
<1> PICK dry \in BOOLEAN :
        savedjobs' = [k \in ReviewKeys |->
            IF k[2] = dry /\ savedjobs[k].status = "failed"
            THEN [status |-> "pending", tries |-> 0] ELSE savedjobs[k]]
  BY DEF RetryReviews
<1>1. savedjobs' \in [ReviewKeys -> ReviewJobs]
  <2>1. [status |-> "pending", tries |-> 0] \in ReviewJobs
    BY ReviewConstants DEF ReviewJobs, ReviewStatuses
  <2> QED
    BY <1>0, <2>1, ReviewFields
<1>2. polls' \in 0..MaxPolls
  <2>1. polls < MaxPolls /\ polls' = polls + 1 /\ polls \in Nat
    BY <1>0, ReviewFields DEF RetryReviews
  <2> QED
    BY <2>1, ReviewConstants
<1>3. jobs' = savedjobs'
  BY DEF RetryReviews
<1>4. ReviewTypes'
  BY <1>0, <1>1, <1>2, <1>3 DEF ReviewTypes
<1>5. \A p \in sent : KnownOf(savedjobs', p)
  <2> SUFFICES ASSUME NEW p \in sent PROVE KnownOf(savedjobs', p)
    OBVIOUS
  <2>1. KnownOf(savedjobs, p) /\ <<p[1], FALSE>> \in ReviewKeys
    <3>1. p[1] \in Revisions
      BY <1>0 DEF ReviewTypes
    <3> QED
      BY <3>1 DEF ReviewInv, OnItsWay, ReviewKeys
  <2> QED
    BY <2>1 DEF KnownOf
<1>6. ReviewWorks'
  BY <1>0 DEF ReviewWorks, Working
<1> QED
  BY <1>0, <1>3, <1>4, <1>5, <1>6, ReviewKeeps

LEMMA LoseSteps ==
    ASSUME ReviewInv, LoseState
    PROVE  ReviewInv'
<1>0. /\ ReviewTypes /\ reviewer.pc = "off" /\ sent = {} /\ ReviewFault
      /\ savedjobs' = NoJobs /\ jobs' = NoJobs
      /\ UNCHANGED <<pr, reviews, sent, reviewer, moves, polls>>
  BY DEF ReviewInv, LoseState
<1>1. NoJobs \in [ReviewKeys -> ReviewJobs]
  BY ReviewConstants DEF NoJobs, NoJob, ReviewJobs, ReviewStatuses
<1>2. ReviewTypes'
  BY <1>0, <1>1, ReviewFaultSets DEF ReviewTypes
<1>3. ReviewWorks'
  BY <1>0 DEF ReviewWorks, Working
<1> QED
  BY <1>0, <1>2, <1>3, ReviewKeeps

LEMMA OutsideSteps ==
    ASSUME ReviewInv, PullMoves \/ Comment
    PROVE  ReviewInv'
<1>0. ReviewTypes /\ UNCHANGED <<reviews, sent, savedjobs, jobs, reviewer, reviewfaults, polls>>
  BY DEF ReviewInv, PullMoves, Comment
<1>1. pr' \in [rev : Revisions, open : BOOLEAN, talk : 0..MaxTalk] /\ moves' \in 0..MaxReviewMoves
  <2>1. CASE PullMoves
    <3>1. moves < MaxReviewMoves /\ moves' = moves + 1 /\ moves \in Nat
      BY <1>0, <2>1, ReviewFields DEF PullMoves
    <3>2. pr' \in [rev : Revisions, open : BOOLEAN, talk : 0..MaxTalk]
      BY <1>0, <2>1 DEF PullMoves, ReviewTypes
    <3> QED
      BY <3>1, <3>2, ReviewConstants
  <2>2. CASE Comment
    <3> DEFINE t == pr.talk + 1
    <3>1. t \in 0..MaxTalk
      <4>1. pr.talk < MaxTalk /\ pr.talk \in Nat
        BY <1>0, <2>2, ReviewFields DEF Comment
      <4> QED
        BY <4>1, ReviewConstants
    <3>2. pr' = [pr EXCEPT !.talk = t] /\ moves' = moves
      BY <2>2 DEF Comment
    <3> HIDE DEF t
    <3> QED
      BY <1>0, <3>1, <3>2 DEF ReviewTypes
  <2> QED
    BY <2>1, <2>2
<1>2. ReviewTypes'
  BY <1>0, <1>1 DEF ReviewTypes
<1>3. ReviewWorks'
  BY <1>0 DEF ReviewInv, ReviewWorks, Working, OfRevision
<1>4. \A p \in sent : KnownOf(jobs', p) /\ KnownOf(savedjobs', p)
  BY <1>0 DEF ReviewInv, OnItsWay
<1> QED
  BY <1>0, <1>2, <1>3, <1>4, ReviewKeeps

LEMMA ReviewStarted ==
    ASSUME ReviewInit
    PROVE  ReviewInv
<1>1. NoJobs \in [ReviewKeys -> ReviewJobs]
  BY ReviewConstants DEF NoJobs, NoJob, ReviewJobs, ReviewStatuses
<1>2. ReviewTypes
  <2>1. pr \in [rev : Revisions, open : BOOLEAN, talk : 0..MaxTalk]
    <3>1. pr \in [rev : Revisions, open : {TRUE}, talk : {0}]
      BY DEF ReviewInit
    <3>2. 0 \in 0..MaxTalk
      BY ReviewConstants
    <3> QED
      BY <3>1, <3>2
  <2>2. /\ reviews \in Seq(Reviewed) /\ sent \in SUBSET (Revisions \X (Nat \X Nat))
        /\ reviewer \in Reviewers
    <3>1. reviews = <<>> /\ sent = {} /\ reviewer = ReviewOff
      BY DEF ReviewInit
    <3>2. reviews \in Seq(Reviewed)
      BY <3>1
    <3>3. sent \in SUBSET (Revisions \X (Nat \X Nat))
      BY <3>1
    <3>4. reviewer \in Reviewers
      BY <3>1, ReviewOffFits
    <3> QED
      BY <3>2, <3>3, <3>4
  <2>3. moves \in 0..MaxReviewMoves /\ reviewfaults \in 0..MaxReviewFaults /\ polls \in 0..MaxPolls
    BY ReviewConstants DEF ReviewInit
  <2> QED
    BY <1>1, <2>1, <2>2, <2>3 DEF ReviewInit, ReviewTypes
<1>3. ReviewWorks
  BY ReviewOffFits DEF ReviewInit, ReviewWorks, Working
<1>4. OnItsWay /\ OfOne /\ ReviewsKnowEarlier
  BY DEF ReviewInit, OnItsWay, OfOne, ReviewsKnowEarlier
<1> QED
  BY <1>2, <1>3, <1>4 DEF ReviewInv

\* One review of a revision, shown or on its way.
LEMMA ReviewSaysSo ==
    ASSUME ReviewInv
    PROVE  ReviewHolds
<1>0. ReviewTypes
  BY DEF ReviewInv
<1>1. ReviewTypeOK
  <2>1. \A i \in DOMAIN reviews : reviews[i].rev \in Revisions
    <3>1. \A i \in DOMAIN reviews : reviews[i] \in Reviewed
      BY <1>0 DEF ReviewTypes
    <3> QED
      BY <3>1 DEF Reviewed
  <2> QED
    BY <1>0, <2>1, ReviewFields DEF ReviewTypeOK, ReviewTypes
<1>2. OneReviewPerRevision
  <2> SUFFICES ASSUME NEW r \in Revisions
               PROVE  Cardinality(OfRevision(r)) + Cardinality({p \in sent : p[1] = r}) <= 1
    BY DEF OneReviewPerRevision
  <2> DEFINE S == OfRevision(r)
             W == {p \in sent : p[1] = r}
  <2>1. \A x, y \in S : x = y
    BY DEF ReviewInv, OfOne, OfRevision
  <2>2. \A x, y \in W : x = y
    BY DEF ReviewInv, OnItsWay
  <2>3. S = {} \/ W = {}
    BY DEF ReviewInv, OnItsWay
  <2>4. ASSUME NEW T, \A x, y \in T : x = y
        PROVE  T = {} \/ \E x : T = {x}
    BY <2>4
  <2> HIDE DEF S, W
  <2>5. Cardinality({}) = 0
    BY FS_EmptySet
  <2>6. \A x : Cardinality({x}) = 1
    BY FS_Singleton
  <2>7. Cardinality(S) \in {0, 1} /\ Cardinality(W) \in {0, 1}
    <3>1. S = {} \/ \E x : S = {x}
      BY <2>1, <2>4
    <3>2. W = {} \/ \E x : W = {x}
      BY <2>2, <2>4
    <3> QED
      BY <2>5, <2>6, <3>1, <3>2
  <2>8. Cardinality(S) = 0 \/ Cardinality(W) = 0
    BY <2>3, <2>5
  <2>9. Cardinality(S) + Cardinality(W) <= 1
    BY <2>7, <2>8
  <2> QED
    BY <2>9 DEF S, W
<1> QED
  BY <1>1, <1>2 DEF ReviewHolds, ReviewInv

\* A revision of a pull request gets at most one review, shown or on its way, and
\* each review was written knowing every one before it (step, list, existing and
\* create of Review Bot), whatever is lost on the way.
THEOREM ReviewIsSentOnce == ReviewSpec => []ReviewHolds
<1>1. ReviewInit => ReviewInv
  BY ReviewStarted
<1>2. ReviewInv /\ [ReviewNext]_reviewbot => ReviewInv'
  <2> SUFFICES ASSUME ReviewInv, [ReviewNext]_reviewbot PROVE ReviewInv'
    OBVIOUS
  <2>1. CASE UNCHANGED reviewbot
    <3>1. UNCHANGED <<pr, reviews, sent, savedjobs, jobs, reviewer, moves, reviewfaults, polls>>
      BY <2>1 DEF reviewbot
    <3> QED
      BY <3>1 DEF ReviewInv, ReviewTypes, OnItsWay, ReviewWorks, OfOne, ReviewsKnowEarlier,
                  OfRevision, KnownOf
  <2> QED
    BY <2>1, StepSteps, ListPullsSteps, ExistingSteps, SnapshotSteps, BreakSteps, CheckSteps,
       PostSteps, FailsSteps, StaleSteps, EndSteps, RetrySteps, LoseSteps, LandsSteps,
       OutsideSteps DEF ReviewNext
<1>3. ReviewInv => ReviewHolds
  BY ReviewSaysSo
<1> QED
  BY <1>1, <1>2, <1>3, PTL DEF ReviewSpec

-----------------------------------------------------------------------------
(***************************************************************************)
(* Guide: a question is answered once.                                     *)
(***************************************************************************)

GuideBots ==
    [enabled : BOOLEAN, status : {"waiting", "working", "pausing", "paused"}, run : Nat]
GuideProposals == [status : {NoTurn, "proposed", "confirmed"}, digest : SUBSET GuideBots]
GuideTurns ==
    [id : Questions, seq : Nat, status : TurnStatuses, proposal : GuideProposals]

GuideTypes ==
    /\ turns \in Seq(GuideTurns) /\ next \in Nat
    /\ asked \in [Questions -> SUBSET Nat] /\ accepted \in [Questions -> {0, 1}]
    /\ worker \in GuideBots
    /\ answering \in [id : Questions \cup {NoTurn}, saw : SUBSET GuideBots, ended : BOOLEAN]
    /\ confirming \in SUBSET [by : People, id : Questions, digest : SUBSET GuideBots]
    /\ moods \in 0..MaxMoods /\ restarts \in 0..MaxRestarts
    /\ acted \in SUBSET [id : Questions, digest : SUBSET GuideBots, met : SUBSET GuideBots,
                         again : BOOLEAN]

\* A question is composed once, and taken only while it is the next.
AsksHold ==
    \A q \in Questions :
        /\ \A n \in asked[q] : n <= next
        /\ accepted[q] = 1 => asked[q] # {} /\ next \notin asked[q]

\* The conversation: in order, without repetition, and one turn at work.
TurnsHold ==
    /\ Len(turns) <= KeptTurns
    /\ \A i \in DOMAIN turns :
          /\ accepted[turns[i].id] = 1 /\ turns[i].seq < next
          /\ turns[i].proposal.status # NoTurn => turns[i].status = "complete"
          /\ \A j \in 1..(i - 1) : turns[j].seq < turns[i].seq
    /\ \A i, j \in DOMAIN turns :
          \/ turns[i].id = turns[j].id
          \/ Busy(turns[i].status) /\ Busy(turns[j].status)
          => i = j

\* A proposal that was carried out says so for as long as its turn is kept.
ActsHold ==
    \A a \in acted :
        /\ a.met = a.digest /\ ~a.again /\ accepted[a.id] = 1
        /\ \A i \in DOMAIN turns : turns[i].id = a.id =>
              turns[i].status = "complete" /\ turns[i].proposal.status = "confirmed"

GuideInv == GuideTypes /\ AsksHold /\ TurnsHold /\ ActsHold

\* What a commit may make of a turn.
Becomes(t, u) ==
    /\ u.id = t.id /\ u.seq = t.seq
    /\ Busy(u.status) => Busy(t.status)
    /\ u.proposal.status # NoTurn => u.status = "complete"
    /\ t.proposal.status = "confirmed" => u.status = t.status /\ u.proposal = t.proposal
    /\ ~Busy(t.status) =>
          /\ u.status = t.status
          /\ u.proposal # t.proposal =>
                t.proposal.status = "proposed" /\ u.proposal.status = "confirmed"

-----------------------------------------------------------------------------
LEMMA TurnOf ==
    ASSUME GuideTypes, NEW q, HasTurn(q)
    PROVE  /\ IndexOf(q) \in DOMAIN turns /\ turns[IndexOf(q)].id = q
           /\ Turn(q) = turns[IndexOf(q)] /\ Turn(q) \in GuideTurns
           /\ q \in Questions
<1>1. IndexOf(q) \in DOMAIN turns /\ turns[IndexOf(q)].id = q
  BY DEF HasTurn, IndexOf
<1>2. turns[IndexOf(q)] \in GuideTurns
  BY <1>1 DEF GuideTypes
<1> QED
  BY <1>1, <1>2 DEF Turn, GuideTurns

\* The turns after a commit that keeps their places.
Updated(new) ==
    /\ new \in Seq(GuideTurns) /\ Len(new) = Len(turns)
    /\ \A i \in DOMAIN turns : Becomes(turns[i], new[i])

LEMMA SetUpdates ==
    ASSUME GuideTypes, NEW q, HasTurn(q), NEW t \in GuideTurns,
           Becomes(Turn(q), t), Set(q, t),
           \A i \in DOMAIN turns : turns[i].proposal.status # NoTurn => turns[i].status = "complete"
    PROVE  Updated(turns') /\ turns'[IndexOf(q)] = t
<1> DEFINE k == IndexOf(q)
<1>1. k \in DOMAIN turns /\ Turn(q) = turns[k] /\ turns \in Seq(GuideTurns)
  BY TurnOf DEF GuideTypes
<1>2. turns' = [turns EXCEPT ![k] = t]
  BY DEF Set
<1> HIDE DEF k
<1>3. /\ turns' \in Seq(GuideTurns) /\ Len(turns') = Len(turns) /\ turns'[k] = t
      /\ \A i \in DOMAIN turns : i # k => turns'[i] = turns[i]
  BY <1>1, <1>2
<1>4. \A i \in DOMAIN turns : i # k => Becomes(turns[i], turns'[i])
  BY <1>3 DEF Becomes
<1>5. Becomes(turns[k], turns'[k])
  BY <1>1, <1>3
<1> QED
  BY <1>3, <1>4, <1>5 DEF Updated, k

\* A commit that keeps the places of the turns keeps what holds of them.
LEMMA UpdateKeeps ==
    ASSUME GuideInv, GuideTypes', Updated(turns'), UNCHANGED <<next, asked, accepted>>,
           \A a \in acted' : a \notin acted =>
               /\ a.met = a.digest /\ ~a.again
               /\ \E i \in DOMAIN turns : /\ turns[i].id = a.id
                                          /\ turns'[i].status = "complete"
                                          /\ turns'[i].proposal.status = "confirmed"
    PROVE  GuideInv' /\ AnswersStay
<1>1. DOMAIN turns' = DOMAIN turns /\ Len(turns') = Len(turns) /\ DOMAIN turns = 1..Len(turns)
      /\ Len(turns) \in Nat
  BY DEF Updated, GuideInv, GuideTypes
<1>2. \A i \in DOMAIN turns : Becomes(turns[i], turns'[i])
  BY DEF Updated
<1>3. \A i \in DOMAIN turns : /\ turns'[i].id = turns[i].id /\ turns'[i].seq = turns[i].seq
                              /\ Busy(turns'[i].status) => Busy(turns[i].status)
                              /\ turns'[i].proposal.status # NoTurn => turns'[i].status = "complete"
  BY <1>2 DEF Becomes
<1>4. AsksHold'
  BY DEF GuideInv, AsksHold
<1>5. TurnsHold'
  <2>1. Len(turns') <= KeptTurns
    BY <1>1 DEF GuideInv, TurnsHold
  <2>2. \A i \in DOMAIN turns' :
          /\ accepted'[turns'[i].id] = 1 /\ turns'[i].seq < next'
          /\ turns'[i].proposal.status # NoTurn => turns'[i].status = "complete"
          /\ \A j \in 1..(i - 1) : turns'[j].seq < turns'[i].seq
    <3> SUFFICES ASSUME NEW i \in DOMAIN turns
                 PROVE  /\ accepted'[turns'[i].id] = 1 /\ turns'[i].seq < next'
                        /\ turns'[i].proposal.status # NoTurn => turns'[i].status = "complete"
                        /\ \A j \in 1..(i - 1) : turns'[j].seq < turns'[i].seq
      BY <1>1
    <3>1. accepted'[turns'[i].id] = 1 /\ turns'[i].seq < next'
      BY <1>3 DEF GuideInv, TurnsHold
    <3>2. ASSUME NEW j \in 1..(i - 1) PROVE turns'[j].seq < turns'[i].seq
      <4>1. j \in DOMAIN turns
        BY <1>1
      <4>2. turns[j].seq < turns[i].seq
        BY DEF GuideInv, TurnsHold
      <4> QED
        BY <1>3, <4>1, <4>2
    <3> QED
      BY <1>3, <3>1, <3>2
  <2>3. \A i, j \in DOMAIN turns' :
          \/ turns'[i].id = turns'[j].id
          \/ Busy(turns'[i].status) /\ Busy(turns'[j].status)
          => i = j
    BY <1>1, <1>3 DEF GuideInv, TurnsHold
  <2> QED
    BY <2>1, <2>2, <2>3 DEF TurnsHold
<1>6. ActsHold'
  <2> SUFFICES ASSUME NEW a \in acted'
               PROVE  /\ a.met = a.digest /\ ~a.again /\ accepted'[a.id] = 1
                      /\ \A i \in DOMAIN turns' : turns'[i].id = a.id =>
                            turns'[i].status = "complete" /\ turns'[i].proposal.status = "confirmed"
    BY DEF ActsHold
  <2>1. CASE a \in acted
    <3>1. /\ a.met = a.digest /\ ~a.again /\ accepted[a.id] = 1
          /\ \A i \in DOMAIN turns : turns[i].id = a.id =>
                turns[i].status = "complete" /\ turns[i].proposal.status = "confirmed"
      BY <2>1 DEF GuideInv, ActsHold
    <3>2. ASSUME NEW i \in DOMAIN turns', turns'[i].id = a.id
          PROVE  turns'[i].status = "complete" /\ turns'[i].proposal.status = "confirmed"
      <4>1. i \in DOMAIN turns /\ turns[i].id = a.id
        BY <1>1, <1>3, <3>2
      <4>2. Becomes(turns[i], turns'[i])
        BY <1>2, <4>1
      <4> QED
        BY <3>1, <4>1, <4>2 DEF Becomes
    <3> QED
      BY <3>1, <3>2
  <2>2. CASE a \notin acted
    <3>1. a.met = a.digest /\ ~a.again
      BY <2>2
    <3>2. PICK i \in DOMAIN turns : /\ turns[i].id = a.id /\ turns'[i].status = "complete"
                                    /\ turns'[i].proposal.status = "confirmed"
      BY <2>2
    <3>3. accepted'[a.id] = 1
      BY <3>2 DEF GuideInv, TurnsHold
    <3>4. \A j \in DOMAIN turns' : turns'[j].id = a.id => j = i
      BY <1>1, <1>3, <3>2 DEF GuideInv, TurnsHold
    <3> QED
      BY <3>1, <3>2, <3>3, <3>4
  <2> QED
    BY <2>1, <2>2
<1>7. AnswersStay
  <2> SUFFICES ASSUME NEW q \in Questions, HasTurn(q), ~Busy(Turn(q).status), HasTurn(q)'
               PROVE  /\ Turn(q)'.status = Turn(q).status
                      /\ Turn(q)'.proposal # Turn(q).proposal =>
                            Turn(q).proposal.status = "proposed" /\ Turn(q)'.proposal.status = "confirmed"
    BY DEF AnswersStay
  <2>1. /\ IndexOf(q) \in DOMAIN turns /\ turns[IndexOf(q)].id = q
        /\ Turn(q) = turns[IndexOf(q)]
    BY TurnOf DEF GuideInv
  <2> DEFINE k == IndexOf(q)'
  <2>2. k \in DOMAIN turns' /\ turns'[k].id = q /\ Turn(q)' = turns'[k]
    BY DEF HasTurn, IndexOf, Turn
  <2>3. k = IndexOf(q)
    BY <1>1, <1>3, <2>1, <2>2 DEF GuideInv, TurnsHold
  <2>4. Becomes(Turn(q), Turn(q)')
    BY <1>2, <2>1, <2>2, <2>3
  <2> QED
    BY <2>4 DEF Becomes
<1> QED
  BY <1>4, <1>5, <1>6, <1>7 DEF GuideInv

LEMMA TurnsStay ==
    ASSUME GuideInv
    PROVE  Updated(turns)
<1>1. turns \in Seq(GuideTurns) /\ \A i \in DOMAIN turns : turns[i] \in GuideTurns
  BY DEF GuideInv, GuideTypes
<1>2. \A i \in DOMAIN turns : Becomes(turns[i], turns[i])
  BY <1>1 DEF GuideInv, TurnsHold, Becomes
<1> QED
  BY <1>1, <1>2 DEF Updated

LEMMA RestKeeps ==
    ASSUME GuideInv, GuideTypes', UNCHANGED <<turns, next, asked, accepted, acted>>
    PROVE  GuideInv' /\ AnswersStay
BY TurnsStay, UpdateKeeps

-----------------------------------------------------------------------------
LEMMA ComposeSteps ==
    ASSUME GuideInv, NEW q \in Questions, Compose(q)
    PROVE  GuideInv' /\ AnswersStay
<1>0. /\ GuideTypes /\ asked[q] = {} /\ asked' = [asked EXCEPT ![q] = {next}]
      /\ UNCHANGED <<turns, next, worker, answering, confirming, moods, restarts, accepted, acted>>
  BY DEF GuideInv, Compose
<1>1. accepted[q] # 1
  BY <1>0 DEF GuideInv, AsksHold
<1>2. asked' \in [Questions -> SUBSET Nat] /\ asked'[q] = {next}
      /\ \A p \in Questions : p # q => asked'[p] = asked[p]
  BY <1>0 DEF GuideTypes
<1>3. GuideTypes'
  BY <1>0, <1>2 DEF GuideTypes
<1>4. AsksHold'
  <2>1. next \in Nat
    BY <1>0 DEF GuideTypes
  <2> QED
    BY <1>0, <1>1, <1>2, <2>1 DEF GuideInv, AsksHold
<1>5. TurnsHold' /\ ActsHold'
  BY <1>0 DEF GuideInv, TurnsHold, ActsHold, Busy
<1>6. AnswersStay
  BY <1>0 DEF AnswersStay, HasTurn, Turn, IndexOf, Busy
<1> QED
  BY <1>3, <1>4, <1>5, <1>6 DEF GuideInv

\* What Taken leaves: the newest turns, and the new one last.
LEMMA TakenTurns ==
    ASSUME GuideTypes, NEW q \in Questions, Taken(q)
    PROVE  LET n == Len(turns')
               d == Len(turns) + 1 - n
               new == [id |-> q, seq |-> next, status |-> "queued", proposal |-> NoProposal]
           IN  /\ turns' \in Seq(GuideTurns) /\ n \in 1..KeptTurns
               /\ d \in 0..Len(turns) /\ DOMAIN turns' = 1..n
               /\ turns'[n] = new
               /\ \A i \in 1..(n - 1) : /\ i + d \in DOMAIN turns
                                        /\ turns'[i] = turns[i + d]
<1> DEFINE new == [id |-> q, seq |-> next, status |-> "queued", proposal |-> NoProposal]
           all == Append(turns, new)
           m   == Len(turns)
           n   == IF m + 1 > KeptTurns THEN KeptTurns ELSE m + 1
           from == m + 1 - n + 1
<1>1. new \in GuideTurns /\ turns \in Seq(GuideTurns) /\ m \in Nat
  BY DEF GuideTypes, GuideTurns, TurnStatuses, GuideProposals, NoProposal
<1> HIDE DEF new
<1>2. /\ all \in Seq(GuideTurns) /\ Len(all) = m + 1 /\ all[m + 1] = new
      /\ \A i \in 1..m : all[i] = turns[i]
  BY <1>1
<1>3. turns' = SubSeq(all, from, m + 1)
  <2>1. turns' = SubSeq(all, Len(all) - (IF Len(all) > KeptTurns THEN KeptTurns ELSE Len(all)) + 1, Len(all))
    BY DEF Taken, new
  <2> HIDE DEF all
  <2>2. turns' = SubSeq(all, (m + 1) - n + 1, m + 1)
    BY <1>2, <2>1
  <2>3. from = (m + 1) - n + 1
    BY <1>1, GuideConstants
  <2> HIDE DEF from, n, m
  <2> QED
    BY <2>2, <2>3
<1>4. n \in 1..KeptTurns /\ n \in 1..(m + 1)
  BY <1>1, GuideConstants
<1> HIDE DEF all, n
<1>5. from \in 1..(m + 1)
  BY <1>1, <1>4
<1>6. /\ turns' \in Seq(GuideTurns) /\ Len(turns') = m + 1 - from + 1
      /\ \A i \in 1..(m + 1 - from + 1) : turns'[i] = all[from + i - 1]
  <2> HIDE DEF from, m
  <2> QED
    BY <1>1, <1>2, <1>3, <1>5
<1>7. Len(turns') = n
  BY <1>1, <1>4, <1>6
<1>8. DOMAIN turns' = 1..n /\ DOMAIN turns = 1..m
  BY <1>1, <1>6, <1>7
<1>9. turns'[n] = new
  <2>1. n \in 1..(m + 1 - from + 1) /\ from + n - 1 = m + 1
    BY <1>1, <1>4
  <2> QED
    BY <1>2, <1>6, <2>1
<1>10. \A i \in 1..(n - 1) : i + (m + 1 - n) \in 1..m /\ turns'[i] = turns[i + (m + 1 - n)]
  <2> SUFFICES ASSUME NEW i \in 1..(n - 1)
               PROVE  i + (m + 1 - n) \in 1..m /\ turns'[i] = turns[i + (m + 1 - n)]
    OBVIOUS
  <2>1. /\ i + (m + 1 - n) \in 1..m /\ i \in 1..(m + 1 - from + 1)
        /\ from + i - 1 = i + (m + 1 - n)
    BY <1>1, <1>4
  <2> QED
    BY <1>2, <1>6, <2>1
<1>11. m + 1 - n \in 0..m
  BY <1>1, <1>4
<1> QED
  BY <1>4, <1>6, <1>7, <1>8, <1>9, <1>10, <1>11 DEF new

LEMMA AskSteps ==
    ASSUME GuideInv, NEW q \in Questions, AskGuide(q)
    PROVE  GuideInv' /\ AnswersStay
<1> DEFINE n == Len(turns')
           d == Len(turns) + 1 - n
           new == [id |-> q, seq |-> next, status |-> "queued", proposal |-> NoProposal]
<1>0. /\ GuideTypes /\ Taken(q) /\ asked[q] = {next} /\ ~HasTurn(q) /\ BusyTurns = {}
      /\ next' = next + 1 /\ accepted' = [accepted EXCEPT ![q] = @ + 1]
      /\ UNCHANGED <<asked, worker, answering, confirming, moods, restarts, acted>>
      /\ next \in Nat
  BY DEF GuideInv, GuideTypes, AskGuide, Taken
<1>1. /\ turns' \in Seq(GuideTurns) /\ n \in 1..KeptTurns
      /\ d \in 0..Len(turns) /\ DOMAIN turns' = 1..n /\ turns'[n] = new
      /\ \A i \in 1..(n - 1) : i + d \in DOMAIN turns /\ turns'[i] = turns[i + d]
  BY <1>0, TakenTurns
<1>2. \A i \in DOMAIN turns' : i \in 1..(n - 1) \/ i = n
  BY <1>1
<1>3. accepted[q] = 0 /\ accepted' \in [Questions -> {0, 1}] /\ accepted'[q] = 1
      /\ \A p \in Questions : p # q => accepted'[p] = accepted[p]
  <2>1. accepted \in [Questions -> {0, 1}]
    BY <1>0 DEF GuideTypes
  <2>2. accepted[q] # 1
    BY <1>0 DEF GuideInv, AsksHold
  <2>3. accepted[q] = 0 /\ accepted[q] + 1 = 1
    BY <2>1, <2>2
  <2> QED
    BY <1>0, <2>1, <2>3
<1>4. GuideTypes'
  BY <1>0, <1>1, <1>3 DEF GuideTypes
<1>5. AsksHold'
  <2> SUFFICES ASSUME NEW p \in Questions
               PROVE  /\ \A k \in asked[p] : k <= next'
                      /\ accepted'[p] = 1 => asked[p] # {} /\ next' \notin asked[p]
    BY <1>0 DEF AsksHold
  <2>1. \A k \in asked[p] : k \in Nat /\ k <= next
    BY <1>0 DEF GuideInv, GuideTypes, AsksHold
  <2>2. \A k \in asked[p] : k <= next' /\ k # next'
    BY <1>0, <2>1
  <2>3. accepted'[p] = 1 => asked[p] # {}
    BY <1>0, <1>3 DEF GuideInv, AsksHold
  <2> QED
    BY <2>2, <2>3
<1> HIDE DEF n, d
<1>6. /\ new.id = q /\ new.seq = next /\ new.status = "queued" /\ Busy(new.status)
      /\ new.proposal.status = NoTurn
  BY DEF Busy, NoProposal
<1>7. \A i \in DOMAIN turns : /\ turns[i].id \in Questions /\ turns[i].id # q /\ turns[i].seq \in Nat
                              /\ ~Busy(turns[i].status)
  <2>1. \A i \in DOMAIN turns : turns[i] \in GuideTurns
    BY <1>0 DEF GuideTypes
  <2> QED
    BY <1>0, <2>1 DEF GuideTurns, HasTurn, BusyTurns
<1> HIDE DEF new
<1>8. TurnsHold'
  <2>1. ASSUME NEW i \in DOMAIN turns'
        PROVE  /\ accepted'[turns'[i].id] = 1 /\ turns'[i].seq < next'
               /\ turns'[i].proposal.status # NoTurn => turns'[i].status = "complete"
               /\ \A j \in 1..(i - 1) : turns'[j].seq < turns'[i].seq
    <3>1. CASE i \in 1..(n - 1)
      <4> DEFINE e == i + d
      <4>1. e \in DOMAIN turns /\ turns'[i] = turns[e]
        BY <1>1, <3>1
      <4>2. \A j \in 1..(i - 1) : j \in 1..(n - 1) /\ j + d \in 1..(e - 1)
        BY <1>1, <3>1
      <4> HIDE DEF e
      <4>3. /\ accepted[turns[e].id] = 1 /\ turns[e].seq < next
            /\ turns[e].proposal.status # NoTurn => turns[e].status = "complete"
            /\ \A j \in 1..(e - 1) : turns[j].seq < turns[e].seq
        BY <4>1 DEF GuideInv, TurnsHold
      <4>4. turns[e].seq < next'
        BY <1>0, <1>7, <4>1, <4>3
      <4>5. ASSUME NEW j \in 1..(i - 1) PROVE turns'[j].seq < turns'[i].seq
        BY <1>1, <4>1, <4>2, <4>3
      <4> QED
        BY <1>3, <1>7, <4>1, <4>3, <4>4, <4>5
    <3>2. CASE i = n
      <4>1. turns'[i] = new
        BY <1>1, <3>2
      <4>2. next < next'
        BY <1>0
      <4>3. ASSUME NEW j \in 1..(i - 1) PROVE turns'[j].seq < new.seq
        <5>1. j + d \in DOMAIN turns /\ turns'[j] = turns[j + d]
          BY <1>1, <3>2
        <5> QED
          BY <1>6, <5>1 DEF GuideInv, TurnsHold
      <4> QED
        BY <1>3, <1>6, <4>1, <4>2, <4>3
    <3> QED
      BY <1>2, <3>1, <3>2
  <2>2. ASSUME NEW i \in DOMAIN turns', NEW j \in DOMAIN turns',
               turns'[i].id = turns'[j].id \/ (Busy(turns'[i].status) /\ Busy(turns'[j].status))
        PROVE  i = j
    <3>1. ASSUME NEW k \in DOMAIN turns', turns'[k].id = q \/ Busy(turns'[k].status)
          PROVE  k = n
      <4>1. ~(k \in 1..(n - 1))
        BY <1>1, <1>7, <3>1
      <4> QED
        BY <1>2, <4>1
    <3>2. CASE i = n \/ j = n
      BY <1>1, <1>6, <2>2, <3>1, <3>2
    <3>3. CASE i # n /\ j # n
      <4>1. /\ i \in 1..(n - 1) /\ j \in 1..(n - 1)
            /\ i + d \in DOMAIN turns /\ turns'[i] = turns[i + d]
            /\ j + d \in DOMAIN turns /\ turns'[j] = turns[j + d]
        BY <1>1, <1>2, <3>3
      <4>2. i + d = j + d
        BY <2>2, <4>1 DEF GuideInv, TurnsHold
      <4>3. d \in Nat
        BY <1>1
      <4> QED
        BY <4>1, <4>2, <4>3
    <3> QED
      BY <3>2, <3>3
  <2>3. Len(turns') <= KeptTurns
    BY <1>1, GuideConstants DEF n
  <2> QED
    BY <2>1, <2>2, <2>3 DEF TurnsHold
<1>9. ActsHold'
  <2> SUFFICES ASSUME NEW a \in acted
               PROVE  /\ a.met = a.digest /\ ~a.again /\ accepted'[a.id] = 1
                      /\ \A i \in DOMAIN turns' : turns'[i].id = a.id =>
                            turns'[i].status = "complete" /\ turns'[i].proposal.status = "confirmed"
    BY <1>0 DEF ActsHold
  <2>1. /\ a.met = a.digest /\ ~a.again /\ accepted[a.id] = 1 /\ a.id \in Questions
        /\ \A i \in DOMAIN turns : turns[i].id = a.id =>
              turns[i].status = "complete" /\ turns[i].proposal.status = "confirmed"
    BY <1>0 DEF GuideInv, ActsHold, GuideTypes
  <2>2. a.id # q
    BY <1>3, <2>1
  <2>3. accepted'[a.id] = 1
    BY <1>3, <2>1, <2>2
  <2>4. ASSUME NEW i \in DOMAIN turns', turns'[i].id = a.id
        PROVE  turns'[i].status = "complete" /\ turns'[i].proposal.status = "confirmed"
    <3>1. i \in 1..(n - 1)
      BY <1>1, <1>2, <1>6, <2>2, <2>4
    <3> QED
      BY <1>1, <2>1, <2>4, <3>1
  <2> QED
    BY <2>1, <2>3, <2>4
<1>10. AnswersStay
  <2> SUFFICES ASSUME NEW p \in Questions, HasTurn(p), HasTurn(p)'
               PROVE  Turn(p)' = Turn(p)
    BY DEF AnswersStay
  <2>1. IndexOf(p) \in DOMAIN turns /\ turns[IndexOf(p)].id = p /\ Turn(p) = turns[IndexOf(p)]
    BY <1>0, TurnOf
  <2> DEFINE k == IndexOf(p)'
  <2>2. k \in DOMAIN turns' /\ turns'[k].id = p /\ Turn(p)' = turns'[k]
    BY DEF HasTurn, IndexOf, Turn
  <2>3. p # q
    BY <1>0
  <2> HIDE DEF k
  <2>4. k \in 1..(n - 1) /\ k + d \in DOMAIN turns /\ turns'[k] = turns[k + d]
    BY <1>1, <1>2, <1>6, <2>2, <2>3
  <2>5. k + d = IndexOf(p)
    BY <2>1, <2>2, <2>4 DEF GuideInv, TurnsHold
  <2> QED
    BY <2>1, <2>2, <2>4, <2>5
<1> QED
  BY <1>4, <1>5, <1>8, <1>9, <1>10 DEF GuideInv

\* One turn is changed, and nothing is carried out.
LEMMA SetKeeps ==
    ASSUME GuideInv, NEW q, HasTurn(q), NEW t \in GuideTurns, Becomes(Turn(q), t), Set(q, t),
           UNCHANGED <<next, asked, worker, confirming, moods, restarts, accepted, acted>>,
           answering' \in [id : Questions \cup {NoTurn}, saw : SUBSET GuideBots, ended : BOOLEAN]
    PROVE  GuideInv' /\ AnswersStay
<1>1. Updated(turns')
  BY SetUpdates DEF GuideInv, TurnsHold
<1>2. GuideTypes'
  BY <1>1 DEF GuideInv, GuideTypes, Updated
<1> QED
  BY <1>1, <1>2, UpdateKeeps

LEMMA CancelSteps ==
    ASSUME GuideInv, NEW q \in Questions, CancelGuide(q)
    PROVE  GuideInv' /\ AnswersStay
<1> DEFINE t == [Turn(q) EXCEPT !.status = "cancelled"]
<1>1. HasTurn(q) /\ Busy(Turn(q).status) /\ Set(q, t)
      /\ UNCHANGED <<next, asked, worker, answering, confirming, moods, restarts, accepted, acted>>
  BY DEF CancelGuide
<1>2. Turn(q) \in GuideTurns /\ Turn(q).proposal.status = NoTurn
  BY <1>1, TurnOf DEF GuideInv, TurnsHold, Busy
<1>3. /\ t \in GuideTurns /\ t.id = Turn(q).id /\ t.seq = Turn(q).seq
      /\ t.status = "cancelled" /\ t.proposal = Turn(q).proposal
  BY <1>2 DEF GuideTurns, TurnStatuses
<1> HIDE DEF t
<1>4. Becomes(Turn(q), t)
  BY <1>1, <1>2, <1>3 DEF Becomes, Busy, NoTurn
<1> QED
  BY <1>1, <1>3, <1>4, SetKeeps DEF GuideInv, GuideTypes

LEMMA ConfirmSteps ==
    ASSUME GuideInv, NEW p \in People, NEW q \in Questions, ConfirmGuide(p, q)
    PROVE  GuideInv' /\ AnswersStay
<1>1. /\ HasTurn(q)
      /\ confirming' = confirming \cup {[by |-> p, id |-> q, digest |-> Turn(q).proposal.digest]}
      /\ UNCHANGED <<turns, next, asked, worker, answering, moods, restarts, accepted, acted>>
  BY DEF ConfirmGuide
<1>2. Turn(q).proposal.digest \in SUBSET GuideBots
  BY <1>1, TurnOf DEF GuideInv, GuideTurns, GuideProposals
<1>3. GuideTypes'
  BY <1>1, <1>2 DEF GuideInv, GuideTypes
<1> QED
  BY <1>1, <1>3, RestKeeps

LEMMA CommitSteps ==
    ASSUME GuideInv, NEW c \in confirming, ConfirmCommits(c)
    PROVE  GuideInv' /\ AnswersStay
<1> DEFINE t == [Turn(c.id) EXCEPT !.proposal.status = "confirmed"]
           act == [id |-> c.id, digest |-> c.digest, met |-> Digest(worker),
                   again |-> \E a \in acted : a.id = c.id]
<1>0. /\ GuideTypes /\ confirming' = confirming \ {c} /\ c.id \in Questions
      /\ c.digest \in SUBSET GuideBots
      /\ UNCHANGED <<next, asked, answering, moods, restarts, accepted>>
  BY DEF GuideInv, GuideTypes, ConfirmCommits
<1>1. CASE UNCHANGED <<turns, worker, acted>>
  <2>1. GuideTypes'
    BY <1>0, <1>1 DEF GuideTypes
  <2> QED
    BY <1>0, <1>1, <2>1, RestKeeps
<1>2. CASE Pending(c) /\ Digest(worker) = c.digest /\ Confirmed(c)
  <2>1. /\ HasTurn(c.id) /\ Turn(c.id).status = "complete" /\ Turn(c.id).proposal.status = "proposed"
        /\ Set(c.id, t) /\ worker' = Paused(worker) /\ acted' = acted \cup {act}
    BY <1>2 DEF Pending, Confirmed
  <2> DEFINE i == IndexOf(c.id)
  <2>2. /\ Turn(c.id) \in GuideTurns /\ i \in DOMAIN turns /\ turns[i].id = c.id
        /\ Turn(c.id) = turns[i]
    BY <1>0, <2>1, TurnOf
  <2>3. /\ t \in GuideTurns /\ t.id = Turn(c.id).id /\ t.seq = Turn(c.id).seq
        /\ t.status = "complete" /\ t.proposal.status = "confirmed"
    BY <2>1, <2>2 DEF GuideTurns, GuideProposals
  <2> HIDE DEF t
  <2>4. Becomes(Turn(c.id), t)
    BY <2>1, <2>3 DEF Becomes, Busy
  <2>5. Updated(turns') /\ turns'[i] = t
    BY <1>0, <2>1, <2>3, <2>4, SetUpdates DEF GuideInv, TurnsHold
  <2>6. ~(\E a \in acted : a.id = c.id)
    BY <2>1, <2>2 DEF GuideInv, ActsHold
  <2>7. act.met = act.digest /\ ~act.again /\ act.id = c.id
    BY <1>2, <2>6
  <2>8. worker' \in GuideBots /\ Digest(worker) \in SUBSET GuideBots
    <3>1. worker \in GuideBots
      BY <1>0 DEF GuideTypes
    <3>2. Paused(worker) \in GuideBots
      BY <3>1 DEF Paused, GuideBots
    <3> QED
      BY <2>1, <3>1, <3>2 DEF Digest
  <2>9. act \in [id : Questions, digest : SUBSET GuideBots, met : SUBSET GuideBots, again : BOOLEAN]
    BY <1>0, <2>8
  <2> HIDE DEF act, i
  <2>10. GuideTypes'
    BY <1>0, <2>1, <2>5, <2>8, <2>9 DEF GuideTypes, Updated
  <2>11. \A a \in acted' : a \notin acted =>
             /\ a.met = a.digest /\ ~a.again
             /\ \E j \in DOMAIN turns : /\ turns[j].id = a.id
                                        /\ turns'[j].status = "complete"
                                        /\ turns'[j].proposal.status = "confirmed"
    BY <2>1, <2>2, <2>3, <2>5, <2>7
  <2> QED
    BY <1>0, <2>5, <2>10, <2>11, UpdateKeeps
<1> QED
  BY <1>1, <1>2 DEF ConfirmCommits

LEMMA WorkerSteps ==
    ASSUME GuideInv, RunStarts \/ RunEnds \/ PersonSteers
    PROVE  GuideInv' /\ AnswersStay
<1>0. /\ GuideTypes /\ worker \in GuideBots /\ moods \in 0..MaxMoods
      /\ UNCHANGED <<turns, next, asked, answering, confirming, restarts, accepted, acted>>
  BY DEF GuideInv, GuideTypes, RunStarts, RunEnds, PersonSteers
<1>1. moods' \in 0..MaxMoods
  <2>1. moods' = moods \/ (moods < MaxMoods /\ moods' = moods + 1)
    BY DEF RunStarts, RunEnds, PersonSteers
  <2> QED
    BY <1>0, <2>1, GuideConstants
<1>2. worker' \in GuideBots
  <2>0. moods' \in Nat /\ 0 \in Nat
    BY <1>1, GuideConstants
  <2>1. CASE RunStarts
    BY <1>0, <2>0, <2>1 DEF RunStarts, GuideBots
  <2>2. CASE RunEnds
    BY <1>0, <2>0, <2>2 DEF RunEnds, GuideBots
  <2>3. CASE PersonSteers
    BY <1>0, <2>3 DEF PersonSteers, GuideBots, Paused
  <2> QED
    BY <2>1, <2>2, <2>3
<1>3. GuideTypes'
  BY <1>0, <1>1, <1>2 DEF GuideTypes
<1> QED
  BY <1>0, <1>3, RestKeeps

LEMMA GatherSteps ==
    ASSUME GuideInv, Gather
    PROVE  GuideInv' /\ AnswersStay
<1>0. GuideTypes /\ UNCHANGED <<next, asked, worker, confirming, moods, restarts, accepted, acted>>
  BY DEF GuideInv, Gather
<1> PICK i \in DOMAIN turns :
        /\ turns[i].status = "queued"
        /\ turns' = [turns EXCEPT ![i].status = "gathering"]
        /\ answering' = [id |-> turns[i].id, saw |-> Digest(worker), ended |-> FALSE]
  BY DEF Gather
<1> DEFINE t == [turns[i] EXCEPT !.status = "gathering"]
<1>1. turns[i] \in GuideTurns /\ turns[i].proposal.status = NoTurn /\ turns \in Seq(GuideTurns)
  BY <1>0 DEF GuideTypes, GuideInv, TurnsHold
<1>2. /\ t \in GuideTurns /\ t.id = turns[i].id /\ t.seq = turns[i].seq
      /\ t.status = "gathering" /\ t.proposal = turns[i].proposal
  BY <1>1 DEF GuideTurns, TurnStatuses
<1>3. turns' = [turns EXCEPT ![i] = t]
  OBVIOUS
<1> HIDE DEF t
<1>4. Becomes(turns[i], t)
  BY <1>1, <1>2 DEF Becomes, Busy, NoTurn
<1>5. turns' \in Seq(GuideTurns) /\ Len(turns') = Len(turns) /\ turns'[i] = t
      /\ \A j \in DOMAIN turns : j # i => turns'[j] = turns[j]
  BY <1>1, <1>2, <1>3
<1>6. \A j \in DOMAIN turns : Becomes(turns[j], turns[j])
  BY TurnsStay DEF Updated
<1>7. Updated(turns')
  <2>1. \A j \in DOMAIN turns : Becomes(turns[j], turns'[j])
    BY <1>4, <1>5, <1>6
  <2> QED
    BY <1>5, <2>1 DEF Updated
<1>8. answering' \in [id : Questions \cup {NoTurn}, saw : SUBSET GuideBots, ended : BOOLEAN]
  <2>1. turns[i].id \in Questions /\ Digest(worker) \in SUBSET GuideBots
    BY <1>0, <1>1 DEF GuideTurns, GuideTypes, Digest
  <2> QED
    BY <2>1
<1>9. GuideTypes'
  BY <1>0, <1>5, <1>8 DEF GuideTypes
<1> QED
  BY <1>0, <1>7, <1>9, UpdateKeeps

LEMMA StreamSteps ==
    ASSUME GuideInv, Stream
    PROVE  GuideInv' /\ AnswersStay
<1> DEFINE q == answering.id
           t == [Turn(q) EXCEPT !.status = "answering"]
<1>1. /\ HasTurn(q) /\ Busy(Turn(q).status) /\ Set(q, t)
      /\ UNCHANGED <<next, asked, worker, answering, confirming, moods, restarts, accepted, acted>>
  BY DEF Stream, Wanted
<1>2. Turn(q) \in GuideTurns /\ Turn(q).proposal.status = NoTurn
  BY <1>1, TurnOf DEF GuideInv, TurnsHold, Busy
<1>3. /\ t \in GuideTurns /\ t.id = Turn(q).id /\ t.seq = Turn(q).seq
      /\ t.status = "answering" /\ t.proposal = Turn(q).proposal
  BY <1>2 DEF GuideTurns, TurnStatuses
<1>4. Becomes(Turn(q), t)
  <2> HIDE DEF t, q
  <2> QED
    BY <1>1, <1>2, <1>3 DEF Becomes, Busy, NoTurn
<1> QED
  BY <1>1, <1>3, <1>4, SetKeeps DEF GuideInv, GuideTypes

LEMMA ContextSteps ==
    ASSUME GuideInv, ContextEnds
    PROVE  GuideInv' /\ AnswersStay
<1>1. /\ answering' = [answering EXCEPT !.ended = TRUE]
      /\ UNCHANGED <<turns, next, asked, worker, confirming, moods, restarts, accepted, acted>>
  BY DEF ContextEnds
<1>2. GuideTypes'
  BY <1>1 DEF GuideInv, GuideTypes
<1> QED
  BY <1>1, <1>2, RestKeeps

\* How an answer may leave its turn.
LEMMA AnswerEnds ==
    ASSUME GuideInv, Wanted,
           NEW t \in Endings(Turn(answering.id))
                     \cup {[Turn(answering.id) EXCEPT !.status = "cancelled"]}
    PROVE  t \in GuideTurns /\ Becomes(Turn(answering.id), t)
<1> DEFINE old == Turn(answering.id)
<1>1. HasTurn(answering.id) /\ Busy(old.status)
  BY DEF Wanted
<1>2. old \in GuideTurns /\ old.proposal.status = NoTurn
  BY <1>1, TurnOf DEF GuideInv, TurnsHold, Busy
<1>3. answering.saw \in SUBSET GuideBots
  BY DEF GuideInv, GuideTypes
<1>4. \/ t = [old EXCEPT !.status = "cancelled"] \/ t = [old EXCEPT !.status = "failed"]
      \/ t = [old EXCEPT !.status = "complete"]
      \/ t = [old EXCEPT !.status = "complete",
                         !.proposal = [status |-> "proposed", digest |-> answering.saw]]
  BY DEF Endings
<1> HIDE DEF old
<1>5. /\ t \in GuideTurns /\ t.id = old.id /\ t.seq = old.seq /\ ~Busy(t.status)
      /\ t.proposal.status # NoTurn => t.status = "complete"
  <2>1. CASE t = [old EXCEPT !.status = "complete",
                             !.proposal = [status |-> "proposed", digest |-> answering.saw]]
    <3>1. [status |-> "proposed", digest |-> answering.saw] \in GuideProposals
      BY <1>3 DEF GuideProposals
    <3> QED
      BY <1>2, <2>1, <3>1 DEF GuideTurns, TurnStatuses, Busy
  <2>2. CASE t # [old EXCEPT !.status = "complete",
                             !.proposal = [status |-> "proposed", digest |-> answering.saw]]
    BY <1>2, <1>4, <2>2 DEF GuideTurns, TurnStatuses, Busy
  <2> QED
    BY <2>1, <2>2
<1>6. Becomes(old, t)
  BY <1>1, <1>2, <1>5 DEF Becomes, NoTurn, old
<1> QED
  BY <1>5, <1>6 DEF old

LEMMA AnswerSteps ==
    ASSUME GuideInv, Answer \/ AnswerStops
    PROVE  GuideInv' /\ AnswersStay
<1>0. /\ GuideTypes /\ answering' = NotAnswering
      /\ UNCHANGED <<next, asked, worker, confirming, moods, restarts, accepted, acted>>
  BY DEF GuideInv, Answer, AnswerStops
<1>1. answering' \in [id : Questions \cup {NoTurn}, saw : SUBSET GuideBots, ended : BOOLEAN]
  BY <1>0 DEF NotAnswering
<1>2. CASE UNCHANGED turns
  <2>1. GuideTypes'
    BY <1>0, <1>1, <1>2 DEF GuideTypes
  <2> QED
    BY <1>0, <1>2, <2>1, RestKeeps
<1>3. CASE Wanted
  <2>1. PICK t \in Endings(Turn(answering.id))
                     \cup {[Turn(answering.id) EXCEPT !.status = "cancelled"]} :
             Set(answering.id, t)
    BY <1>3 DEF Answer, AnswerStops
  <2>2. t \in GuideTurns /\ Becomes(Turn(answering.id), t) /\ HasTurn(answering.id)
    BY <1>3, AnswerEnds DEF Wanted
  <2> QED
    BY <1>0, <1>1, <2>1, <2>2, SetKeeps
<1> QED
  BY <1>2, <1>3 DEF Answer, AnswerStops

LEMMA RestartSteps ==
    ASSUME GuideInv, ServiceRestarts
    PROVE  GuideInv' /\ AnswersStay
<1>0. /\ GuideTypes /\ restarts < MaxRestarts /\ restarts' = restarts + 1
      /\ answering' = NotAnswering /\ confirming' = {}
      /\ UNCHANGED <<next, asked, worker, moods, accepted, acted>>
  BY DEF GuideInv, ServiceRestarts
<1>1. turns' = [i \in DOMAIN turns |->
                   IF turns[i].status \in {"gathering", "answering"}
                   THEN [turns[i] EXCEPT !.status = "interrupted"] ELSE turns[i]]
  BY DEF ServiceRestarts
<1>2. \A i \in DOMAIN turns : turns[i] \in GuideTurns /\ Becomes(turns[i], turns[i])
  BY <1>0, TurnsStay DEF GuideTypes, Updated
<1>3. ASSUME NEW i \in DOMAIN turns
      PROVE  turns'[i] \in GuideTurns /\ Becomes(turns[i], turns'[i])
  <2> DEFINE t == [turns[i] EXCEPT !.status = "interrupted"]
  <2>1. CASE turns[i].status \in {"gathering", "answering"}
    <3>1. turns'[i] = t /\ turns[i] \in GuideTurns /\ turns[i].proposal.status = NoTurn
      BY <1>1, <1>2, <2>1 DEF GuideInv, TurnsHold
    <3>2. /\ t \in GuideTurns /\ t.id = turns[i].id /\ t.seq = turns[i].seq
          /\ t.status = "interrupted" /\ t.proposal = turns[i].proposal
      BY <3>1 DEF GuideTurns, TurnStatuses
    <3> HIDE DEF t
    <3> QED
      BY <2>1, <3>1, <3>2 DEF Becomes, Busy, NoTurn
  <2>2. CASE turns[i].status \notin {"gathering", "answering"}
    BY <1>1, <1>2, <2>2
  <2> QED
    BY <2>1, <2>2
<1>4. Updated(turns')
  <2>1. DOMAIN turns = 1..Len(turns) /\ Len(turns) \in Nat /\ DOMAIN turns' = DOMAIN turns
    BY <1>0, <1>1 DEF GuideTypes
  <2>2. turns' = [i \in 1..Len(turns) |-> turns'[i]]
    BY <1>1, <2>1
  <2>3. \A i \in 1..Len(turns) : turns'[i] \in GuideTurns
    BY <1>3, <2>1
  <2>4. turns' \in Seq(GuideTurns) /\ Len(turns') = Len(turns)
    BY <2>1, <2>2, <2>3
  <2> QED
    BY <1>3, <2>4 DEF Updated
<1>5. restarts' \in 0..MaxRestarts
  <2>1. restarts \in 0..MaxRestarts
    BY <1>0 DEF GuideTypes
  <2> QED
    BY <1>0, <2>1, GuideConstants
<1>6. GuideTypes'
  BY <1>0, <1>4, <1>5 DEF GuideTypes, Updated, NotAnswering
<1> QED
  BY <1>0, <1>4, <1>6, UpdateKeeps

-----------------------------------------------------------------------------
LEMMA GuideStarts ==
    ASSUME GuideInit
    PROVE  GuideInv
<1>1. /\ turns = <<>> /\ next = 0 /\ asked = [q \in Questions |-> {}]
      /\ worker = [enabled |-> TRUE, status |-> "waiting", run |-> 0]
      /\ answering = NotAnswering /\ confirming = {} /\ moods = 0 /\ restarts = 0
      /\ accepted = [q \in Questions |-> 0] /\ acted = {}
  BY DEF GuideInit
<1>2. turns \in Seq(GuideTurns) /\ next \in Nat /\ Len(turns) = 0 /\ DOMAIN turns = {}
  BY <1>1
<1>3. /\ asked \in [Questions -> SUBSET Nat] /\ accepted \in [Questions -> {0, 1}]
      /\ worker \in GuideBots
  BY <1>1 DEF GuideBots
<1>4. answering \in [id : Questions \cup {NoTurn}, saw : SUBSET GuideBots, ended : BOOLEAN]
  BY <1>1 DEF NotAnswering
<1>5. moods \in 0..MaxMoods /\ restarts \in 0..MaxRestarts
  BY <1>1, GuideConstants
<1>6. GuideTypes
  BY <1>1, <1>2, <1>3, <1>4, <1>5 DEF GuideTypes
<1>7. AsksHold /\ ActsHold
  BY <1>1 DEF AsksHold, ActsHold
<1>8. TurnsHold
  <2>1. Len(turns) <= KeptTurns
    BY <1>2, GuideConstants
  <2> QED
    BY <1>2, <2>1 DEF TurnsHold
<1> QED
  BY <1>6, <1>7, <1>8 DEF GuideInv

LEMMA GuideSteps ==
    ASSUME GuideInv, [GuideNext]_guide
    PROVE  GuideInv' /\ AnswersStay
<1>1. CASE UNCHANGED guide
  <2>1. UNCHANGED <<turns, next, asked, worker, answering, confirming, moods, restarts,
                    accepted, acted>>
    BY <1>1 DEF guide
  <2>2. GuideTypes'
    BY <2>1 DEF GuideInv, GuideTypes
  <2> QED
    BY <2>1, <2>2, RestKeeps
<1> QED
  BY <1>1, ComposeSteps, AskSteps, CancelSteps, ConfirmSteps, CommitSteps, WorkerSteps,
     GatherSteps, StreamSteps, ContextSteps, AnswerSteps, RestartSteps DEF GuideNext

LEMMA GuideSaysSo ==
    ASSUME GuideInv
    PROVE  GuideHolds
<1>1. GuideTypeOK
  <2>1. Cardinality(BusyTurns) <= 1
    <3>1. \A x, y \in BusyTurns : x = y
      BY DEF BusyTurns, GuideInv, TurnsHold
    <3>2. BusyTurns = {} \/ \E x : BusyTurns = {x}
      BY <3>1
    <3>3. Cardinality({}) = 0 /\ \A x : Cardinality({x}) = 1
      BY FS_EmptySet, FS_Singleton
    <3>4. Cardinality(BusyTurns) \in {0, 1}
      BY <3>2, <3>3
    <3> QED
      BY <3>4
  <2>2. ASSUME NEW i \in DOMAIN turns
        PROVE  /\ turns[i].status \in TurnStatuses /\ turns[i].seq < next
               /\ turns[i].proposal.status # NoTurn => turns[i].status = "complete"
               /\ \A j \in 1..(i - 1) : turns[j].seq < turns[i].seq /\ turns[j].id # turns[i].id
    <3>1. turns[i] \in GuideTurns /\ DOMAIN turns = 1..Len(turns) /\ Len(turns) \in Nat
      BY DEF GuideInv, GuideTypes
    <3>2. \A j \in 1..(i - 1) : j \in DOMAIN turns /\ j # i
      BY <3>1
    <3>3. \A j \in 1..(i - 1) : turns[j].id # turns[i].id
      BY <3>2 DEF GuideInv, TurnsHold
    <3> QED
      BY <3>1, <3>3 DEF GuideInv, TurnsHold, GuideTurns
  <2> QED
    BY <2>1, <2>2 DEF GuideTypeOK, GuideInv, GuideTypes, TurnsHold
<1>2. QuestionsOnce
  BY DEF QuestionsOnce, GuideInv, GuideTypes
<1>3. ActsAsProposed
  BY DEF ActsAsProposed, GuideInv, ActsHold
<1> QED
  BY <1>1, <1>2, <1>3 DEF GuideHolds

\* A question is put to the assistant once and a proposal carried out once, on the
\* bot the assistant saw when it began the answer (AskGuide, ConfirmGuide): for any
\* questions and people, however often they repeat and confirm, and however often
\* the service restarts.
THEOREM QuestionsAreAnsweredOnce == GuideSpec => []GuideHolds
<1>1. GuideInit => GuideInv
  BY GuideStarts
<1>2. GuideInv /\ [GuideNext]_guide => GuideInv'
  BY GuideSteps
<1>3. GuideInv => GuideHolds
  BY GuideSaysSo
<1> QED
  BY <1>1, <1>2, <1>3, PTL DEF GuideSpec

\* An answer that is over stays as it is: a canceled or interrupted question never
\* gets a proposal from a late answer (answerGuide).
THEOREM AnswersAreFinal == GuideSpec => [][AnswersStay]_guide
<1>1. GuideInit => GuideInv
  BY GuideStarts
<1>2. GuideInv /\ [GuideNext]_guide => GuideInv' /\ AnswersStay
  BY GuideSteps
<1> QED
  BY <1>1, <1>2, PTL DEF GuideSpec
=============================================================================
