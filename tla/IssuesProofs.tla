---------------------------- MODULE IssuesProofs ----------------------------
(***************************************************************************)
(* Theorems about the life of an issue (Issues), for any numbers, requests, *)
(* pull requests and bounds.                                                *)
(***************************************************************************)
EXTENDS Issues, FiniteSetTheorems, WellFoundedInduction, TLAPS

-----------------------------------------------------------------------------
(***************************************************************************)
(* Types.                                                                   *)
(***************************************************************************)
States == {"none", "open", "closed"}
Jobs == [status : {"none", "pending", "blocked", "submitted"}, pr : Pulls \cup {0}]
Filers == Filed \cup Requests
Some == Numbers \cup {0}

\* Places of the pass after the inventory was reconciled, and of a close.
Closing == {"close", "call", "accepted", "rejected"}
Later == {"import", "sync2", "writes"} \cup Closing
PassPlaces == {"idle", "sync", "observe", "read"} \cup Later

Sightings == [n : Numbers, st : States, locked : BOOLEAN, from : Filers \cup {Nobody}]
Passes == [at : PassPlaces, seen : SUBSET Sightings, prs : SUBSET Pulls,
           todo : SUBSET Numbers, n : Some]

StoreTyped ==
  /\ task \in [Numbers -> Tasks \cup {NoTask}]
  /\ req \in [Requests -> [status : {"none", "queued", "uncertain", "confirmed"}, num : Some]]
  /\ owned \in [Pulls -> Some]
  /\ settled \subseteq Numbers /\ past \in [Numbers -> SUBSET {"closed", "locked"}]
  /\ refused = FALSE
GitHubTyped ==
  /\ gh \in [Numbers -> [st : States, locked : BOOLEAN, from : Filers \cup {Nobody}]]
  /\ pulls \in [Pulls -> States] /\ job \in [Numbers -> Jobs]
  /\ mode \in {"auto", "suggest"}
RunsTyped ==
  /\ pub \in [req : Requests \cup {Nobody}, at : {"idle", "create", "find", "answer"},
              num : Some, st : States]
  /\ pass \in Passes
  /\ sync \in [by : {"nobody", "pass", "run"}, jobs : [Numbers -> Jobs]]
  /\ sim \in [n : Some, mode : {"auto", "suggest"}] /\ jud \in Some
  /\ run \in [n : Some, superseded : Pulls \cup {0}, at : {"idle", "working", "import"}]
Typed == StoreTyped /\ GitHubTyped /\ RunsTyped

-----------------------------------------------------------------------------
(***************************************************************************)
(* The inductive invariant.                                                 *)
(***************************************************************************)

\* Every task passes the store's validation, belongs to an issue of GitHub and
\* is blocked before a bot has failed it too often.
TasksFit ==
  /\ \A n \in Numbers : Known(n) =>
       /\ Acceptable(task[n]) /\ gh[n].st # "none"
       /\ task[n].house = "simplifier" => task[n].blocked \/ task[n].att <= 2
       /\ task[n].house = "simplifier" /\ sim.n = n => task[n].att <= 2
       /\ task[n].house = "hall" /\ jud = n => task[n].att <= 2
  /\ sim.n # 0 => Known(sim.n)
  /\ jud # 0 => Known(jud)

\* What Issue Bot was given stays its own: nothing takes a task out of its house.
AtWork(n) ==
  \/ job[n] # NoJob \/ sync.jobs[n] # NoJob \/ (run.at # "idle" /\ run.n = n)
  \/ \E p \in Pulls : owned[p] = n
WorkIsHoused ==
  /\ \A n \in Numbers : AtWork(n) => Known(n) /\ task[n].house = "issue"
  /\ run.at # "idle" => run.n # 0

\* An issue of GitHub has a filer; a request has at most one issue, and none
\* before the possibility of the write was saved.
RequestsFit ==
  /\ \A n \in Numbers : gh[n].st = "none" <=> gh[n].from = Nobody
  /\ \A n, m \in Numbers : gh[n].from = gh[m].from /\ gh[n].from \in Requests => n = m
  /\ \A r \in Requests : /\ req[r].status \in {"none", "queued"} => Receipts(r) = {}
                         /\ req[r].status = "confirmed" =>
                              req[r].num # 0 /\ gh[req[r].num].from = r
  /\ pub.at # "idle" => pub.req \in Requests /\ req[pub.req].status \in {"uncertain", "confirmed"}
  /\ pub.at = "create" => Receipts(pub.req) = {}
  /\ pub.at = "answer" /\ pub.num # 0 => gh[pub.num].from = pub.req

\* A pull request is named by the jobs and by the ownership of one issue.
Names(n, p) == job[n].pr = p \/ sync.jobs[n].pr = p \/ owned[p] = n
JobFits(j) == j.status = "submitted" <=> j.pr # 0
PullsFit ==
  /\ \A n \in Numbers : JobFits(job[n]) /\ JobFits(sync.jobs[n])
  /\ \A p \in Pulls, n \in Numbers : Names(n, p) => pulls[p] # "none"
  /\ \A p \in Pulls, n, m \in Numbers : Names(n, p) /\ Names(m, p) => n = m
  /\ \A p \in Pulls : pulls[p] = "open" => \E n \in Numbers : job[n].pr = p
  /\ sync.by = "nobody" => sync = IdleSync
  /\ run.at = "idle" => run = NoRun

\* An issue that starts over does so for a pull request that is closed, and an
\* import in progress knows what Town owned when it began.
Requeues ==
  /\ run.superseded # 0 => pulls[run.superseded] = "closed"
  /\ \A n \in Numbers : Known(n) /\ task[n].requeue # 0 => pulls[task[n].requeue] = "closed"
  /\ sync.by # "nobody" =>
       /\ \A p \in Pulls, n \in Numbers :
            owned[p] = n /\ pulls[p] = "open" => sync.jobs[n].pr = p
       /\ \A n \in Numbers : Known(n) /\ task[n].requeue # 0 /\ job[n].pr = task[n].requeue
            => sync.jobs[n] = NoJob \/ sync.jobs[n].pr = task[n].requeue

\* A closed pull request that a job still names starts its issue over, and an
\* issue that counts as implemented has an open one; people's closes apart.
Restarting(n, j) ==
  j.pr # 0 /\ pulls[j.pr] = "closed" => task[n].requeue = j.pr \/ "closed" \in past[n]
ClosedRestarts == \A n \in Numbers : Restarting(n, job[n]) /\ Restarting(n, sync.jobs[n])

\* The pull requests of a pass: open when it read them, and of issues it has
\* seen; once reconciled, those still open are the work of implemented issues.
PassFits ==
  /\ pass.at = "read" => \A p \in pass.prs :
       /\ pulls[p] = "open"
       /\ \A n \in Numbers : Names(n, p) => \E g \in pass.seen : g.n = n
  /\ pass.at \in Later => \A p \in pass.prs :
       /\ owned[p] # 0
       /\ pulls[p] = "open" => task[owned[p]].stage = "implemented" \/ "closed" \in past[owned[p]]
  /\ sync.by = "pass" => pass.at \in {"sync", "sync2"}
  /\ pass.at \in {"idle", "sync", "observe"} \cup Closing => pass.seen = {}

\* An issue Town closed stays declined, until a person or the next pass, which
\* sees the close, takes note.
Shut(t) == /\ t # NoTask /\ t.house = "hall"
           /\ \/ t.dec = "declined"
              \/ t.dec = "" /\ AutoDeclined(t) /\ t.stage \in {"closing", "closed", "locked"}
TownClosed(n) == gh[n].st = "closed" /\ "closed" \notin past[n]
ClosesFit ==
  /\ \A n \in Numbers : TownClosed(n) => Shut(task[n])
  /\ \A n \in Numbers : gh[n].locked => "locked" \in past[n]
  /\ \A n \in Numbers : Known(n) /\ task[n].stage = "locked" => "locked" \in past[n]

\* What a pass has seen of an issue was true, and Town has closed none since.
SeenFits ==
  /\ \A g, h \in pass.seen : g.n = h.n => g = h
  /\ \A g \in pass.seen :
       /\ g.st # "none" /\ gh[g.n].st # "none" /\ gh[g.n].from = g.from
       /\ g.locked => "locked" \in past[g.n]
       /\ g.st = "open" => ~TownClosed(g.n)
       /\ g.st = "closed" => "closed" \in past[g.n] \/ Shut(task[g.n])

\* From the claim to its settlement the decline stands and is marked.
ClaimFits ==
  /\ pass.at \in {"call", "accepted", "rejected"} =>
       /\ pass.n # 0 /\ pass.n \notin pass.todo /\ Shut(task[pass.n])
       /\ ClosableDecline(task[pass.n])
  /\ pass.at \in {"call", "rejected"} => ~TownClosed(pass.n)
  /\ pass.at \in Closing => \A n \in pass.todo : Known(n) /\ ~TownClosed(n)

\* An issue whose close is settled is closed, or waits for a person's decision.
Appealing(t) ==
  /\ t.house = "hall" /\ AutoDeclined(t)
  /\ (t.dec = "" /\ t.stage = "closed") \/ (t.dec = "pending" /\ t.stage = "awaiting_mayor")
SettledFits ==
  \A n \in settled : Known(n) /\ ("locked" \in past[n] \/ Appealing(task[n]))

\* Issue Bot's house holds what passed the intake.
IntakeFits ==
  \A n \in Numbers : Known(n) /\ task[n].house = "issue"
    => PassedIntake(n) \/ gh[n].from \in Requests

IssuesInv ==
  /\ Typed /\ TasksFit /\ WorkIsHoused /\ RequestsFit /\ PullsFit /\ Requeues
  /\ ClosedRestarts /\ ImplementedHasPull /\ PassFits /\ ClosesFit /\ SeenFits
  /\ ClaimFits /\ SettledFits /\ IntakeFits

-----------------------------------------------------------------------------
(***************************************************************************)
(* The operators on one task.                                               *)
(***************************************************************************)

\* GitHub hands out the least number it has not used.
LEMMA LeastNumber ==
  ASSUME NEW T \in SUBSET Nat, T # {}
  PROVE  \E n \in T : \A m \in T : n <= m
<1> DEFINE R == {ss \in Nat \X Nat : ss[1] < ss[2]}
<1>1. IsWellFoundedOn(R, Nat)
  BY NatLessThanWellFounded DEF OpToRel
<1>2. PICK n \in T : \A m \in T : <<m, n>> \notin R
  <2> HIDE DEF R
  <2> QED  BY <1>1, WFMin
<1>3. \A m \in T : ~(m < n)
  BY <1>2
<1> QED  BY <1>2, <1>3

LEMMA NextNumberIsFree ==
  ASSUME RoomLeft
  PROVE  NextNumber \in Numbers /\ gh[NextNumber].st = "none"
<1> DEFINE T == {n \in Numbers : gh[n].st = "none"}
<1>1. T \in SUBSET Nat /\ T # {}
  BY IssuesAssumption DEF RoomLeft
<1>2. PICK n \in T : \A m \in T : n <= m
  BY <1>1, LeastNumber
<1>3. n \in Numbers /\ gh[n].st = "none" /\ \A m \in Numbers : m < n => gh[m].st # "none"
  BY <1>2, IssuesAssumption
<1> QED  BY <1>3 DEF NextNumber

Observations == {g \in Sightings : g.st # "none"}

LEMMA Zero == 0 \notin Numbers /\ 0 \notin Pulls /\ 0 \in Tries
BY IssuesAssumption DEF Pulls, Tries

\* Changing a task's stage, decision and house within their types.
LEMMA Changed ==
  ASSUME NEW t \in Tasks, NEW s \in Stages, NEW d \in {"", "pending", "admitted", "declined"},
         NEW h \in {"simplifier", "hall", "issue"}
  PROVE  LET u == [t EXCEPT !.stage = s, !.dec = d, !.house = h] IN
         /\ u \in Tasks /\ u.stage = s /\ u.dec = d /\ u.house = h
         /\ u.simp = t.simp /\ u.att = t.att /\ u.ext = t.ext
         /\ u.blocked = t.blocked /\ u.requeue = t.requeue
BY DEF Tasks

\* Where resume() sends a task: the same house, queued, simplifying or declined.
LEMMA ResumeFits ==
  ASSUME NEW t \in Tasks, Acceptable(t), t.dec # "pending"
  PROVE  LET u == Resume(t) IN
         /\ u \in Tasks /\ Acceptable(u)
         /\ u.house = t.house /\ u.simp = t.simp /\ u.att = t.att
         /\ u.blocked = t.blocked /\ u.requeue = t.requeue
         /\ u.dec = t.dec \/ t.house = "hall"
         /\ u.stage \in {"simplifying", "awaiting_mayor", "declined", "queued"}
         /\ Appealing(t) => Appealing(u)
<1>1. CASE t.house = "hall" /\ t.dec = "" /\ AutoDeclined(t) /\ t.stage = "closed"
  <2>1. Resume(t) = [t EXCEPT !.stage = "awaiting_mayor", !.dec = "pending"]
    BY <1>1 DEF Resume
  <2> QED  BY <1>1, <2>1, IssuesAssumption DEF Tasks, Stages, Acceptable, Appealing, AutoDeclined
<1>2. CASE t.dec = "declined" \/ (t.house = "hall" /\ AutoDeclined(t) /\ ~(t.dec = "" /\ t.stage = "closed"))
  <2>1. Resume(t) = [t EXCEPT !.stage = "declined"]
    BY <1>2 DEF Resume
  <2> QED  BY <1>2, <2>1, IssuesAssumption DEF Tasks, Stages, Acceptable, Appealing, AutoDeclined
<1>3. CASE t.dec # "declined" /\ t.house = "simplifier"
  <2>1. Resume(t) = [t EXCEPT !.stage = "simplifying"]
    BY <1>3 DEF Resume
  <2> QED  BY <1>3, <2>1, IssuesAssumption DEF Tasks, Stages, Acceptable, Appealing
<1>4. CASE t.dec # "declined" /\ t.house = "hall" /\ ~AutoDeclined(t)
  <2>1. Resume(t) = [t EXCEPT !.stage = "awaiting_mayor", !.dec = "pending"]
    BY <1>4 DEF Resume
  <2> QED  BY <1>4, <2>1, IssuesAssumption DEF Tasks, Stages, Acceptable, Appealing
<1>5. CASE t.dec # "declined" /\ t.house = "issue"
  <2>1. Resume(t) = [t EXCEPT !.stage = "queued", !.house = "issue"]
    BY <1>5 DEF Resume
  <2> QED  BY <1>5, <2>1, IssuesAssumption DEF Tasks, Stages, Acceptable, Appealing
<1> QED  BY <1>1, <1>2, <1>3, <1>4, <1>5 DEF Tasks

LEMMA ArrivalFits ==
  ASSUME NEW from, mode \in {"auto", "suggest"}
  PROVE  LET u == Arrival(from) IN
         /\ u \in Tasks /\ Acceptable(u)
         /\ u.att = 0 /\ u.requeue = 0 /\ ~u.blocked
         /\ u.stage \notin {"implemented", "locked", "closed"}
         /\ u.house = "issue" => from = "simplifier"
BY Zero DEF Arrival, NewTask, Tasks, Stages, Acceptable

\* What an inventory makes of a task leaves it in its house, and calls nothing
\* implemented that was not.
LEMMA ObservedFits ==
  ASSUME NEW t \in Tasks, Acceptable(t), NEW g \in Observations
  PROVE  LET u == Observed(t, g) IN
         /\ u \in Tasks /\ Acceptable(u)
         /\ u.house = t.house /\ u.simp = t.simp /\ u.att = t.att
         /\ u.blocked = t.blocked /\ u.requeue = t.requeue
         /\ u.dec = t.dec \/ t.house = "hall"
         /\ u.stage = "implemented" => t.stage = "implemented" /\ g.st = "open"
         /\ u.stage = "locked" => g.locked \/ t.stage = "locked"
         /\ u.stage = "closed" /\ t.house = "issue" => g.st = "closed"
         /\ Shut(t) /\ g.st = "closed" => Shut(u)
         /\ Appealing(t) => Appealing(u) \/ g.locked
<1>1. CASE t.dec = "declined"
  <2>1. Observed(t, g) = t
    BY <1>1 DEF Observed
  <2> QED  BY <1>1, <2>1, IssuesAssumption DEF Acceptable, Tasks, Observations
<1>2. CASE t.dec # "declined" /\ g.st = "closed"
  <2>1. Observed(t, g) = [t EXCEPT !.stage = "closed", !.dec = IF t.dec = "pending" THEN "" ELSE t.dec]
    BY <1>2 DEF Observed
  <2> DEFINE u == Observed(t, g)
  <2>2. /\ u \in Tasks /\ u.stage = "closed" /\ u.house = t.house
        /\ u.dec = IF t.dec = "pending" THEN "" ELSE t.dec
        /\ u.simp = t.simp /\ u.att = t.att /\ u.blocked = t.blocked /\ u.requeue = t.requeue
    BY <2>1 DEF Tasks, Stages
  <2> HIDE DEF u
  <2>3. t.dec = "pending" => t.house = "hall" /\ t.stage = "awaiting_mayor"
    BY IssuesAssumption DEF Acceptable
  <2>4. Acceptable(u) /\ (u.dec = t.dec \/ t.house = "hall")
    BY <1>2, <2>2, <2>3 DEF Acceptable
  <2>5. (Shut(t) => Shut(u)) /\ (Appealing(t) => Appealing(u))
    BY <1>2, <2>2, <2>3, IssuesAssumption DEF Shut, Appealing, AutoDeclined
  <2> QED  BY <1>2, <2>2, <2>4, <2>5 DEF u
<1>3. CASE t.dec = "pending" /\ g.st # "closed"
  <2>1. Observed(t, g) = t
    BY <1>3 DEF Observed
  <2> QED  BY <1>3, <2>1, IssuesAssumption DEF Acceptable, Tasks, Observations
<1>4. CASE t.dec \notin {"declined", "pending"} /\ g.st # "closed" /\ g.locked
  <2>1. Observed(t, g) = [t EXCEPT !.stage = "locked"]
    BY <1>4 DEF Observed
  <2> QED  BY <1>4, <2>1, IssuesAssumption DEF Tasks, Stages, Acceptable
<1>5. CASE t.dec \notin {"declined", "pending"} /\ g.st # "closed" /\ ~g.locked
  <2>1. CASE t.stage \in {"closed", "locked"} \/ (t.stage = "queued" /\ t.house # "issue")
    <3>1. Observed(t, g) = Resume(t)
      BY <1>5, <2>1 DEF Observed
    <3> QED  BY <1>5, <2>1, <3>1, ResumeFits
  <2>2. CASE ~(t.stage \in {"closed", "locked"} \/ (t.stage = "queued" /\ t.house # "issue"))
    <3>1. Observed(t, g) = t
      BY <1>5, <2>2 DEF Observed
    <3> QED  BY <1>5, <2>2, <3>1 DEF Observations, Sightings, States, Tasks
  <2> QED  BY <2>1, <2>2
<1> QED  BY <1>1, <1>2, <1>3, <1>4, <1>5

\* An import counts an issue as implemented by a submitted job alone, and starts
\* it over as long as the job names the closed pull request.
LEMMA ImportedStage ==
  ASSUME NEW t \in Tasks, NEW j \in Jobs
  PROVE  /\ j = NoJob => Imported(t, j) = t
         /\ j # NoJob /\ StartingOver(t, j) => /\ Imported(t, j).requeue = t.requeue
                                              /\ Imported(t, j).stage = "queued"
         /\ j.status = "submitted" /\ ~StartingOver(t, j) =>
              Imported(t, j).stage = IF Terminal(t) THEN t.stage ELSE "implemented"
<1>1. j = NoJob => Imported(t, j) = t
  BY DEF Imported
<1>2. ASSUME j # NoJob, StartingOver(t, j)
      PROVE  Imported(t, j).requeue = t.requeue /\ Imported(t, j).stage = "queued"
  <2>1. Imported(t, j) = [t EXCEPT !.blocked = FALSE, !.stage = "queued", !.house = "issue"]
    BY <1>2, IssuesAssumption DEF Imported
  <2> QED  BY <2>1 DEF Tasks
<1>3. ASSUME j.status = "submitted", ~StartingOver(t, j)
      PROVE  Imported(t, j).stage = IF Terminal(t) THEN t.stage ELSE "implemented"
  <2> DEFINE w == [t EXCEPT !.requeue = 0, !.blocked = FALSE]
  <2>0. j # NoJob
    BY <1>3 DEF NoJob
  <2>1. j # NoJob /\ w.stage = t.stage /\ w \in Tasks
    BY <2>0, Zero DEF Tasks
  <2>2. Imported(t, j) = IF Terminal(t) THEN w ELSE [w EXCEPT !.stage = "implemented"]
    BY <1>3, <2>1, IssuesAssumption DEF Imported
  <2> HIDE DEF w
  <2> QED  BY <2>1, <2>2 DEF Tasks
<1> QED  BY <1>1, <1>2, <1>3

\* An import takes no task out of Issue Bot's house.
LEMMA ImportedFits ==
  ASSUME NEW t \in Tasks, Acceptable(t), t.house = "issue", NEW j \in Jobs
  PROVE  LET u == Imported(t, j) IN
         /\ u \in Tasks /\ Acceptable(u)
         /\ u.house = "issue" /\ u.simp = t.simp /\ u.att = t.att /\ u.dec = t.dec
         /\ u.requeue \in {0, t.requeue}
         /\ u.stage = "locked" => t.stage = "locked"
         /\ u.stage = "implemented" => t.stage = "implemented" \/ j.status = "submitted"
<1> USE IssuesAssumption DEF Tasks, Stages, Acceptable
<1>0. t # NoTask
  OBVIOUS
<1>1. CASE j = NoJob
  <2>1. Imported(t, j) = t
    BY <1>1 DEF Imported
  <2> QED  BY <2>1
<1>2. CASE j # NoJob /\ StartingOver(t, j)
  <2>1. Imported(t, j) = [t EXCEPT !.blocked = FALSE, !.stage = "queued", !.house = "issue"]
    BY <1>0, <1>2 DEF Imported
  <2> QED  BY <2>1
<1>3. CASE j # NoJob /\ ~StartingOver(t, j)
  <2> DEFINE w == [t EXCEPT !.requeue = 0, !.blocked = FALSE]
  <2>1. /\ w \in Tasks /\ w.stage = t.stage /\ w.house = t.house /\ w.dec = t.dec
        /\ w.simp = t.simp /\ w.att = t.att /\ w.requeue = 0
    OBVIOUS
  <2>2. Imported(t, j) =
          IF j.status = "blocked"
          THEN IF Terminal(t) THEN w
               ELSE [w EXCEPT !.stage = "blocked", !.house = "issue", !.blocked = TRUE]
          ELSE IF j.status = "submitted"
          THEN IF Terminal(t) THEN w ELSE [w EXCEPT !.stage = "implemented"]
          ELSE [w EXCEPT !.stage = IF w.stage = "blocked" THEN "queued" ELSE w.stage]
    BY <1>0, <1>3 DEF Imported
  <2>3. ASSUME Imported(t, j) = w
        PROVE  LET u == Imported(t, j) IN
               /\ u \in Tasks /\ Acceptable(u)
               /\ u.house = "issue" /\ u.simp = t.simp /\ u.att = t.att /\ u.dec = t.dec
               /\ u.requeue = 0 /\ u.stage = t.stage
    <3>1. Acceptable(w)
      BY <2>1 DEF Acceptable
    <3> HIDE DEF w, Tasks, Stages, Acceptable
    <3> QED  BY <2>1, <2>3, <3>1
  <2> HIDE DEF w
  <2>4. CASE Imported(t, j) = [w EXCEPT !.stage = "blocked", !.house = "issue", !.blocked = TRUE]
    BY <2>1, <2>4
  <2>5. CASE j.status = "submitted" /\ Imported(t, j) = [w EXCEPT !.stage = "implemented"]
    BY <2>1, <2>5
  <2>6. CASE Imported(t, j) = [w EXCEPT !.stage = IF w.stage = "blocked" THEN "queued" ELSE w.stage]
    BY <2>1, <2>6
  <2> QED  BY <2>2, <2>3, <2>4, <2>5, <2>6
<1> QED  BY <1>1, <1>2, <1>3

LEMMA AssessedFits ==
  ASSUME NEW t \in Tasks, InIntake(t), NEW a \in {"advice", "admit", "decline"}
  PROVE  LET u == Assessed(t, a) IN
         /\ u \in Tasks /\ Acceptable(u) /\ u.att = 0 /\ u.requeue = t.requeue
         /\ u.stage \notin {"implemented", "locked"}
         /\ u.house = "hall" \/ (u.house = "issue" /\ u.simp = "admit")
<1> DEFINE w == [t EXCEPT !.simp = a, !.att = 0, !.blocked = FALSE]
<1>1. w \in Tasks /\ w.simp = a /\ w.att = 0 /\ w.requeue = t.requeue
  BY Zero DEF Tasks
<1>2. Assessed(t, a) =
        IF a = "advice"
        THEN [w EXCEPT !.stage = "awaiting_mayor", !.house = "hall", !.dec = "pending"]
        ELSE IF a = "decline" THEN [w EXCEPT !.stage = "declined", !.house = "hall", !.dec = ""]
        ELSE [w EXCEPT !.stage = "queued", !.house = "issue", !.dec = ""]
  BY DEF Assessed
<1> HIDE DEF w
<1> USE DEF Tasks, Stages, Acceptable
<1>3. CASE Assessed(t, a) = [w EXCEPT !.stage = "awaiting_mayor", !.house = "hall", !.dec = "pending"]
  BY <1>1, <1>3
<1>4. CASE Assessed(t, a) = [w EXCEPT !.stage = "declined", !.house = "hall", !.dec = ""]
  BY <1>1, <1>4
<1>5. CASE a = "admit" /\ Assessed(t, a) = [w EXCEPT !.stage = "queued", !.house = "issue", !.dec = ""]
  BY <1>1, <1>5
<1> QED  BY <1>2, <1>3, <1>4, <1>5

LEMMA DecidedFits ==
  ASSUME NEW t \in Tasks, Acceptable(t), NEW action \in {"admit", "decline"},
         AwaitsMayor(t) \/ (action = "admit" /\ MayOverrule(t))
  PROVE  LET u == Decided(t, action) IN
         /\ u \in Tasks /\ Acceptable(u) /\ u.att = 0 /\ u.requeue = t.requeue
         /\ u.stage \notin {"implemented", "locked"}
         /\ (u.house = "hall" /\ Shut(u)) \/ (u.house = "issue" /\ u.dec = "admitted")
<1> DEFINE w == [t EXCEPT !.att = 0]
<1>1. w \in Tasks /\ w.att = 0 /\ w.requeue = t.requeue /\ w.house = "hall" /\ w.simp = t.simp
  BY Zero DEF Tasks, AwaitsMayor, MayOverrule
<1>2. Decided(t, action) =
        IF action = "decline" THEN [w EXCEPT !.dec = "declined", !.stage = "declined"]
        ELSE [w EXCEPT !.dec = "admitted", !.stage = "queued", !.house = "issue",
                       !.simp = IF MayOverrule(t) THEN "none" ELSE w.simp]
  BY DEF Decided
<1> HIDE DEF w
<1> DEFINE u == Decided(t, action)
<1>3. CASE u = [w EXCEPT !.dec = "declined", !.stage = "declined"]
  <2>1. /\ u \in Tasks /\ u.dec = "declined" /\ u.stage = "declined"
        /\ u.house = "hall" /\ u.att = 0 /\ u.requeue = t.requeue
    BY <1>1, <1>3 DEF Tasks, Stages
  <2> QED  BY <2>1, IssuesAssumption DEF Acceptable, Shut
<1>4. CASE u = [w EXCEPT !.dec = "admitted", !.stage = "queued", !.house = "issue",
                         !.simp = IF MayOverrule(t) THEN "none" ELSE w.simp]
  <2>1. /\ u \in Tasks /\ u.dec = "admitted" /\ u.stage = "queued"
        /\ u.house = "issue" /\ u.att = 0 /\ u.requeue = t.requeue
    BY <1>1, <1>4 DEF Tasks, Stages
  <2> QED  BY <2>1 DEF Acceptable
<1> QED  BY <1>2, <1>3, <1>4

-----------------------------------------------------------------------------
(***************************************************************************)
(* What a step does to a task.                                              *)
(***************************************************************************)

\* What every step leaves of a task Town has ...
Kept(n) ==
  LET t == task[n]
      u == task'[n] IN
  /\ u \in Tasks /\ Acceptable(u)
  /\ u.house = "simplifier" => u.blocked \/ u.att <= 2
  /\ u.house = "simplifier" /\ sim'.n = n => u.att <= 2
  /\ u.house = "hall" /\ jud' = n => u.att <= 2
  /\ \/ u.house = t.house /\ t.house # "issue"
     \/ t.house = "simplifier" /\ u.house = "hall"
     \/ t.house = "simplifier" /\ u.house = "issue" /\ u.simp = "admit"
     \/ t.house = "hall" /\ u.house = "issue" /\ u.dec = "admitted"
     \/ /\ t.house = "issue" /\ u.house = "issue" /\ u.simp = t.simp
        /\ u.dec = t.dec \/ \E p \in Pulls : owned[p] = n
  /\ TownClosed(n) => Shut(u)
  /\ Shut(t) => Shut(u) \/ pass.at = "rejected" \/ \E g \in pass.seen : g.n = n /\ g.st = "open"
  /\ Shut(t) /\ ClosableDecline(t) /\ pass' = pass => ClosableDecline(u) /\ Shut(u)
  /\ u.stage = "locked" => "locked" \in past[n]
  /\ n \in settled' => "locked" \in past[n] \/ Appealing(u)
  /\ u.requeue = t.requeue \/ SyncIssues \/ \E p \in Pulls : ClosePull(p)
  /\ \/ u.stage = "implemented" <=> t.stage = "implemented"
     \/ Reconcile \/ SyncIssues \/ \E p \in Pulls : ClosePull(p)

\* ... and what it makes of an issue it had no task of.
Arrived(n) ==
  LET u == task'[n] IN
  /\ n \notin settled'
  /\ u # NoTask =>
       /\ u \in Tasks /\ Acceptable(u) /\ gh[n].st # "none"
       /\ u.att = 0 /\ u.requeue = 0 /\ u.stage # "implemented"
       /\ u.stage = "locked" => "locked" \in past[n]
       /\ u.house = "issue" => gh[n].from \in Requests \cup {"simplifier"}

Moves ==
  /\ refused' = FALSE /\ task' \in [Numbers -> Tasks \cup {NoTask}]
  /\ \A n \in Numbers : IF Known(n) THEN Kept(n) ELSE Arrived(n)

\* The runs of Simplifier Bot and Mayor Bot end, or stay, or begin on an issue
\* that has not failed too often.
RunsHeld == sim' \in {sim, NoSim} /\ jud' \in {jud, 0} /\ settled' \subseteq settled

LEMMA StaysKeptIf ==
  ASSUME IssuesInv, NEW n \in Numbers, task'[n] = task[n], n \in settled' => n \in settled,
         Known(n) /\ task[n].house = "simplifier" /\ sim'.n = n => task[n].att <= 2,
         Known(n) /\ task[n].house = "hall" /\ jud' = n => task[n].att <= 2
  PROVE  IF Known(n) THEN Kept(n) ELSE Arrived(n)
<1> USE DEF IssuesInv, Typed, StoreTyped, RunsTyped, Passes
<1>1. CASE Known(n)
  <2> DEFINE t == task[n]
  <2>1. t \in Tasks /\ t.house \in {"simplifier", "hall", "issue"}
    BY <1>1 DEF Known, Tasks
  <2>2. Acceptable(t) /\ (t.house = "simplifier" => t.blocked \/ t.att <= 2)
    BY <1>1 DEF TasksFit
  <2>3. TownClosed(n) => Shut(t)
    BY DEF ClosesFit
  <2>4. t.stage = "locked" => "locked" \in past[n]
    BY <1>1 DEF ClosesFit
  <2>5. n \in settled' => "locked" \in past[n] \/ Appealing(t)
    BY DEF SettledFits
  <2> QED  BY <1>1, <2>1, <2>2, <2>3, <2>4, <2>5 DEF Kept
<1>2. CASE ~Known(n)
  BY <1>2 DEF Arrived, Known, SettledFits
<1> QED  BY <1>1, <1>2

LEMMA StaysKept ==
  ASSUME IssuesInv, NEW n \in Numbers, task'[n] = task[n], sim' \in {sim, NoSim},
         jud' \in {jud, 0}, n \in settled' => n \in settled
  PROVE  IF Known(n) THEN Kept(n) ELSE Arrived(n)
<1>1. Known(n) /\ task[n].house = "simplifier" /\ sim'.n = n => task[n].att <= 2
  BY Zero DEF IssuesInv, TasksFit, NoSim
<1>2. Known(n) /\ task[n].house = "hall" /\ jud' = n => task[n].att <= 2
  BY Zero DEF IssuesInv, TasksFit
<1> QED  BY <1>1, <1>2, StaysKeptIf

LEMMA SamePuts ==
  ASSUME IssuesInv, RunsHeld, UNCHANGED <<task, refused>>
  PROVE  Moves
<1>1. task \in [Numbers -> Tasks \cup {NoTask}] /\ refused = FALSE
  BY DEF IssuesInv, Typed, StoreTyped
<1> QED  BY <1>1, StaysKept DEF Moves, RunsHeld

\* An Update of one task that validation accepts moves that task only.
LEMMA PutMoves ==
  ASSUME IssuesInv, NEW n \in Numbers, NEW u \in Tasks, Acceptable(u), Put(n, u),
         sim' \in {sim, NoSim}, jud' \in {jud, 0}, settled' \subseteq settled \cup {n},
         task'[n] = u => IF Known(n) THEN Kept(n) ELSE Arrived(n)
  PROVE  Moves
<1>1. task \in [Numbers -> Tasks \cup {NoTask}] /\ refused = FALSE
  BY DEF IssuesInv, Typed, StoreTyped
<1>2. \A m \in Numbers : Acceptable([task EXCEPT ![n] = u][m])
  BY <1>1 DEF IssuesInv, TasksFit, Known, Acceptable
<1>3. task' = [task EXCEPT ![n] = u] /\ refused' = FALSE
  BY <1>1, <1>2 DEF Put, Commit
<1>4. ASSUME NEW m \in Numbers, m # n
      PROVE  IF Known(m) THEN Kept(m) ELSE Arrived(m)
  <2>1. task'[m] = task[m]
    BY <1>1, <1>3, <1>4
  <2> QED  BY <1>4, <2>1, StaysKept
<1> QED  BY <1>1, <1>3, <1>4 DEF Moves

LEMMA ConfirmMoves ==
  ASSUME IssuesInv, ConfirmRequest
  PROVE  Moves
<1>1. sim' \in {sim, NoSim} /\ jud' \in {jud, 0} /\ settled' = settled
  BY DEF ConfirmRequest, runVars
<1>2. CASE pub.num = 0 \/ Known(pub.num)
  BY <1>1, <1>2, SamePuts DEF ConfirmRequest, RunsHeld
<1>3. CASE pub.num # 0 /\ ~Known(pub.num)
  <2> DEFINE n == pub.num
             u == IF pub.st = "closed" THEN NewTask("issue", "closed", "", FALSE)
                  ELSE NewTask("simplifier", "simplifying", "", FALSE)
  <2>1. n \in Numbers
    BY <1>3 DEF IssuesInv, Typed, RunsTyped, Some
  <2>2. gh[n].from \in Requests /\ gh[n].st # "none"
    <3>1. pub.at = "answer"
      BY DEF ConfirmRequest
    <3>2. gh[n].from = pub.req /\ pub.req \in Requests
      BY <1>3, <3>1 DEF IssuesInv, RequestsFit
    <3>3. gh[n].st = "none" => gh[n].from = Nobody
      BY <2>1 DEF IssuesInv, RequestsFit
    <3> QED  BY <3>2, <3>3, IssuesAssumption
  <2>3. /\ u \in Tasks /\ Acceptable(u) /\ u.att = 0 /\ u.requeue = 0
        /\ u.stage \notin {"implemented", "locked"}
    BY Zero DEF NewTask, Tasks, Stages, Acceptable
  <2>4. Put(n, u)
    BY <1>3 DEF ConfirmRequest
  <2> HIDE DEF u
  <2>5. n \notin settled'
    BY <1>1, <1>3, <2>1 DEF IssuesInv, SettledFits
  <2>6. task'[n] = u => Arrived(n)
    BY <2>2, <2>3, <2>5 DEF Arrived
  <2> QED  BY <1>1, <1>3, <2>1, <2>3, <2>4, <2>6, PutMoves
<1> QED  BY <1>2, <1>3

LEMMA ReconcileMoves ==
  ASSUME IssuesInv, Reconcile
  PROVE  Moves
<1> DEFINE new == [n \in Numbers |-> Reconciled(n)]
<1> USE DEF IssuesInv, Typed, StoreTyped, RunsTyped, Passes
<1>1. sim' = sim /\ jud' = jud /\ settled' = settled /\ pass' # pass
  BY DEF Reconcile, runVars
<1>2. ASSUME NEW n \in Numbers
      PROVE  /\ new[n] \in Tasks \cup {NoTask} /\ Acceptable(new[n])
             /\ task'[n] = new[n] => IF Known(n) THEN Kept(n) ELSE Arrived(n)
  <2>1. CASE \A g \in pass.seen : g.n # n
    <3>1. new[n] = task[n]
      BY <2>1 DEF Reconciled
    <3>2. Acceptable(task[n])
      BY DEF TasksFit, Known, Acceptable
    <3> QED  BY <1>1, <3>1, <3>2, StaysKept
  <2>2. CASE ~\A g \in pass.seen : g.n # n
    <3> DEFINE g == CHOOSE g \in pass.seen : g.n = n
               t == IF Known(n) THEN task[n] ELSE Arrival(g.from)
               v == Observed(t, g)
               u == new[n]
    <3>1. /\ g \in pass.seen /\ g.n = n
          /\ u = IF Implementing(n, v) THEN [v EXCEPT !.stage = "implemented"] ELSE v
      BY <2>2 DEF Reconciled
    <3> HIDE DEF g, u
    <3>2. /\ g \in Observations /\ g.from = gh[n].from
          /\ g.st # "none" /\ gh[n].st # "none"
          /\ g.locked => "locked" \in past[n]
          /\ g.st = "open" => ~TownClosed(n)
          /\ g.st = "closed" => "closed" \in past[n] \/ Shut(task[n])
      BY <3>1 DEF Observations, SeenFits
    <3>3. Implementing(n, v) => Known(n) /\ \E p \in Pulls : owned[p] = n
      BY DEF Implementing, WorkIsHoused, AtWork
    <3>4. CASE Known(n)
      <4>1. t = task[n] /\ t \in Tasks /\ Acceptable(t)
        BY <3>4 DEF TasksFit, Known
      <4>2. /\ v \in Tasks /\ Acceptable(v)
            /\ v.house = t.house /\ v.simp = t.simp /\ v.att = t.att
            /\ v.blocked = t.blocked /\ v.requeue = t.requeue
            /\ v.dec = t.dec \/ t.house = "hall"
            /\ v.stage = "implemented" => t.stage = "implemented" /\ g.st = "open"
            /\ v.stage = "locked" => g.locked \/ t.stage = "locked"
            /\ Shut(t) /\ g.st = "closed" => Shut(v)
            /\ Appealing(t) => Appealing(v) \/ g.locked
        BY <3>2, <4>1, ObservedFits
      <4> HIDE DEF t, v
      <4>3. Implementing(n, v) => t.house = "issue"
        BY <3>3, <4>1 DEF WorkIsHoused, AtWork
      <4>4. /\ u \in Tasks /\ Acceptable(u)
            /\ u.house = t.house /\ u.simp = t.simp /\ u.att = t.att
            /\ u.blocked = t.blocked /\ u.requeue = t.requeue
            /\ u.dec = t.dec \/ t.house = "hall"
            /\ u.stage = "locked" => g.locked \/ t.stage = "locked"
            /\ Shut(t) /\ g.st = "closed" => Shut(u)
            /\ Appealing(t) => Appealing(u) \/ g.locked
        <5>1. CASE ~Implementing(n, v)
          BY <3>1, <4>2, <5>1
        <5>2. CASE Implementing(n, v)
          <6>1. /\ u \in Tasks /\ u.stage = "implemented"
                /\ u.house = v.house /\ u.simp = v.simp /\ u.att = v.att /\ u.dec = v.dec
                /\ u.blocked = v.blocked /\ u.requeue = v.requeue
            BY <3>1, <4>2, <5>2 DEF Tasks, Stages
          <6>2. Acceptable(u)
            BY <4>2, <4>3, <5>2, <6>1, IssuesAssumption DEF Acceptable
          <6> QED  BY <4>2, <4>3, <5>2, <6>1, <6>2 DEF Shut, Appealing
        <5> QED  BY <5>1, <5>2
      <4>5. t.house \in {"simplifier", "hall", "issue"}
        BY <4>1 DEF Tasks
      <4>6. /\ t.house = "simplifier" => t.blocked \/ t.att <= 2
            /\ t.house = "simplifier" /\ sim.n = n => t.att <= 2
            /\ t.house = "hall" /\ jud = n => t.att <= 2
        BY <3>4, <4>1 DEF TasksFit
      <4>7. /\ TownClosed(n) => Shut(t) /\ g.st = "closed"
            /\ t.stage = "locked" => "locked" \in past[n]
            /\ n \in settled => "locked" \in past[n] \/ Appealing(t)
        BY <3>2, <3>4, <4>1 DEF ClosesFit, SettledFits, Observations, Sightings, States
      <4>8. task'[n] = u => Kept(n)
        <5>1. Shut(t) => Shut(u) \/ (g \in pass.seen /\ g.n = n /\ g.st = "open")
          BY <3>1, <3>2, <4>4 DEF Observations, Sightings, States
        <5> QED  BY <1>1, <4>1, <4>4, <4>5, <4>6, <4>7, <3>2, <5>1 DEF Kept
      <4> QED  BY <3>4, <4>4, <4>8 DEF u
    <3>5. CASE ~Known(n)
      <4> DEFINE w == Arrival(g.from)
      <4>1. /\ w \in Tasks /\ Acceptable(w) /\ w.att = 0 /\ w.requeue = 0
            /\ w.stage \notin {"implemented", "locked", "closed"}
            /\ w.house = "issue" => g.from = "simplifier"
        BY ArrivalFits DEF GitHubTyped
      <4> HIDE DEF w
      <4>2. u = Observed(w, g)
        BY <3>1, <3>3, <3>5 DEF w
      <4>3. /\ u \in Tasks /\ Acceptable(u) /\ u.att = 0 /\ u.requeue = 0
            /\ u.stage # "implemented" /\ (u.stage = "locked" => g.locked)
            /\ u.house = "issue" => g.from = "simplifier"
        BY <3>2, <4>1, <4>2, ObservedFits
      <4>4. n \notin settled
        BY <3>5 DEF SettledFits
      <4>5. task'[n] = u => Arrived(n)
        BY <1>1, <3>2, <4>3, <4>4 DEF Arrived
      <4> QED  BY <3>5, <4>3, <4>5 DEF u
    <3> QED  BY <3>4, <3>5
  <2> QED  BY <2>1, <2>2
<1>3. task' = new /\ refused' = FALSE
  BY <1>2 DEF Reconcile, Commit
<1>4. \A n \in Numbers : task'[n] = new[n]
  BY <1>3
<1> HIDE DEF new
<1>5. task' \in [Numbers -> Tasks \cup {NoTask}]
  <2>1. new = [n \in Numbers |-> Reconciled(n)]
    BY DEF new
  <2>2. \A n \in Numbers : Reconciled(n) \in Tasks \cup {NoTask}
    BY <1>2, <2>1
  <2> QED  BY <1>3, <2>1, <2>2
<1> QED  BY <1>2, <1>3, <1>4, <1>5 DEF Moves

LEMMA ClaimMoves ==
  ASSUME IssuesInv, NEW n \in Numbers, ClaimDecline(n)
  PROVE  Moves
<1> USE DEF IssuesInv, Typed, StoreTyped, RunsTyped, Passes
<1>1. sim' = sim /\ jud' = jud /\ settled' = settled
  BY DEF ClaimDecline, runVars
<1>2. CASE ~ClosableDecline(task[n])
  BY <1>1, <1>2, SamePuts DEF ClaimDecline, RunsHeld
<1>3. CASE ClosableDecline(task[n])
  <2> DEFINE t == task[n]
             u == [t EXCEPT !.stage = ClaimedStage(t)]
  <2>1. Known(n) /\ pass' # pass /\ Put(n, u)
    BY <1>3 DEF ClaimDecline, ClaimFits, Closing
  <2>2. t \in Tasks /\ Acceptable(t)
    BY <2>1 DEF TasksFit, Known
  <2>3. /\ u \in Tasks /\ u.stage = ClaimedStage(t) /\ u.house = t.house /\ u.dec = t.dec
        /\ u.simp = t.simp /\ u.att = t.att /\ u.blocked = t.blocked /\ u.requeue = t.requeue
    BY <2>2 DEF ClaimedStage, Tasks, Stages
  <2>4. t.house = "hall" /\ t.stage # "implemented"
    BY <1>3, <2>2, IssuesAssumption DEF ClosableDecline, Acceptable
  <2>5. Acceptable(u) /\ u.stage # "implemented" /\ (u.stage = "locked" => t.stage = "locked")
    <3>1. CASE t.dec = "" /\ t.stage = "declined"
      <4>1. u.stage = "closing"
        BY <2>3, <3>1 DEF ClaimedStage
      <4> HIDE DEF u
      <4> QED  BY <2>3, <2>4, <3>1, <4>1 DEF Acceptable
    <3>2. CASE ~(t.dec = "" /\ t.stage = "declined")
      <4>1. u.stage = t.stage
        BY <2>3, <3>2 DEF ClaimedStage
      <4> HIDE DEF u
      <4> QED  BY <2>2, <2>3, <2>4, <4>1, IssuesAssumption DEF Acceptable
    <3> QED  BY <3>1, <3>2
  <2>6. (Shut(t) => Shut(u)) /\ (Appealing(t) => Appealing(u))
    BY <2>3, IssuesAssumption DEF Shut, Appealing, AutoDeclined, ClaimedStage
  <2>7. /\ TownClosed(n) => Shut(t)
        /\ t.stage = "locked" => "locked" \in past[n]
        /\ n \in settled => "locked" \in past[n] \/ Appealing(t)
        /\ jud = n => t.att <= 2
    BY <2>1, <2>4 DEF ClosesFit, SettledFits, TasksFit
  <2> HIDE DEF u
  <2>8. task'[n] = u => Kept(n)
    BY <1>1, <2>1, <2>3, <2>4, <2>5, <2>6, <2>7 DEF Kept
  <2> QED  BY <1>1, <2>1, <2>3, <2>5, <2>8, PutMoves
<1> QED  BY <1>2, <1>3

LEMMA SettleMoves ==
  ASSUME IssuesInv, SettleClose
  PROVE  Moves
<1> USE DEF IssuesInv, Typed, StoreTyped, RunsTyped, Passes
<1> DEFINE n == pass.n
           t == task[n]
<1>1. sim' = sim /\ jud' = jud /\ pass' # pass
  BY DEF SettleClose, runVars
<1>2. /\ n \in Numbers /\ Known(n) /\ t \in Tasks /\ Acceptable(t)
      /\ Shut(t) /\ ClosableDecline(t) /\ (t.stage = "locked" => "locked" \in past[n])
      /\ pass.at = "rejected" => ~TownClosed(n)
  <2>1. pass.at \in {"accepted", "rejected"}
    BY DEF SettleClose
  <2>2. n \in Numbers /\ Shut(t) /\ ClosableDecline(t) /\ (pass.at = "rejected" => ~TownClosed(n))
    BY <2>1 DEF ClaimFits, Some
  <2>3. Known(n)
    BY <2>2 DEF Shut, Known
  <2> QED  BY <2>2, <2>3 DEF TasksFit, Known, ClosesFit
<1>3. t.house = "hall" /\ t.stage # "implemented" /\ (jud = n => t.att <= 2)
  BY <1>2, IssuesAssumption DEF Shut, Acceptable, TasksFit
<1>4. CASE pass.at = "accepted"
  <2> DEFINE u == IF t.stage = "closing" THEN [t EXCEPT !.stage = "closed"] ELSE t
  <2>1. Put(n, u) /\ settled' = IF t.dec = "" THEN settled \cup {n} ELSE settled
    BY <1>2, <1>4 DEF SettleClose
  <2>2. /\ u \in Tasks /\ u.stage = IF t.stage = "closing" THEN "closed" ELSE t.stage
        /\ u.house = t.house /\ u.dec = t.dec /\ u.simp = t.simp /\ u.att = t.att
        /\ u.blocked = t.blocked /\ u.requeue = t.requeue
    <3>1. CASE t.stage = "closing"
      BY <1>2, <3>1 DEF Tasks, Stages
    <3>2. CASE t.stage # "closing"
      BY <1>2, <3>2
    <3> QED  BY <3>1, <3>2
  <2> HIDE DEF u
  <2>3. Acceptable(u) /\ Shut(u) /\ u.stage # "implemented" /\ (u.stage = "locked" => t.stage = "locked")
    BY <1>2, <1>3, <2>2, IssuesAssumption DEF Acceptable, Shut, AutoDeclined
  <2>4. n \in settled' => "locked" \in past[n] \/ Appealing(u)
    <3>1. CASE t.dec = ""
      <4>1. t.stage \in {"closing", "locked"} /\ AutoDeclined(t)
        BY <1>2, <3>1 DEF Shut, ClosableDecline
      <4> QED  BY <1>2, <1>3, <2>2, <3>1, <4>1 DEF Appealing, AutoDeclined
    <3>2. CASE t.dec # ""
      <4>1. t.dec = "declined"
        BY <1>2, <3>2 DEF Shut
      <4>2. ~Appealing(t)
        BY <4>1 DEF Appealing
      <4> QED  BY <2>1, <3>2, <4>2 DEF SettledFits
    <3> QED  BY <3>1, <3>2
  <2>5. task'[n] = u => Kept(n)
    BY <1>1, <1>2, <1>3, <2>2, <2>3, <2>4 DEF Kept
  <2> QED  BY <1>1, <1>2, <2>1, <2>2, <2>3, <2>5, PutMoves
<1>5. CASE pass.at = "rejected" /\ t.stage = "closing" /\ t.dec = ""
  <2> DEFINE u == [t EXCEPT !.stage = "declined"]
  <2>1. Put(n, u) /\ settled' = settled
    BY <1>5 DEF SettleClose
  <2>2. /\ u \in Tasks /\ u.stage = "declined"
        /\ u.house = t.house /\ u.dec = t.dec /\ u.simp = t.simp /\ u.att = t.att
        /\ u.blocked = t.blocked /\ u.requeue = t.requeue
    BY <1>2 DEF Tasks, Stages
  <2> HIDE DEF u
  <2>3. Acceptable(u)
    BY <1>3, <1>5, <2>2 DEF Acceptable
  <2>4. n \in settled => "locked" \in past[n]
    BY <1>5 DEF SettledFits, Appealing
  <2>5. task'[n] = u => Kept(n)
    BY <1>1, <1>2, <1>3, <1>5, <2>1, <2>2, <2>3, <2>4 DEF Kept
  <2> QED  BY <1>1, <1>2, <2>1, <2>2, <2>3, <2>5, PutMoves
<1>6. CASE pass.at = "rejected" /\ ~(t.stage = "closing" /\ t.dec = "")
  <2>1. UNCHANGED <<task, refused, settled>>
    BY <1>6 DEF SettleClose
  <2> QED  BY <1>1, <2>1, SamePuts DEF RunsHeld
<1> QED  BY <1>4, <1>5, <1>6 DEF SettleClose

LEMMA ClosePullMoves ==
  ASSUME IssuesInv, NEW p \in Pulls, ClosePull(p)
  PROVE  Moves
<1> USE DEF IssuesInv, Typed, StoreTyped, RunsTyped, Passes
<1>1. sim' = sim /\ jud' = jud /\ settled' = settled
  BY DEF ClosePull, runVars
<1>2. CASE ~RequeuedIssue(p)
  BY <1>1, <1>2, SamePuts DEF ClosePull, RunsHeld
<1>3. CASE RequeuedIssue(p)
  <2> DEFINE n == owned[p]
             t == task[n]
             u == [t EXCEPT !.requeue = p, !.blocked = FALSE, !.dec = "",
                            !.stage = "queued", !.house = "issue"]
  <2>1. n \in Numbers /\ Known(n) /\ Put(n, u)
    BY <1>3 DEF RequeuedIssue, Some, ClosePull
  <2>2. t \in Tasks /\ t.house = "issue"
    BY <2>1 DEF Known, WorkIsHoused, AtWork
  <2>3. /\ u \in Tasks /\ u.stage = "queued" /\ u.house = "issue" /\ u.dec = ""
        /\ u.simp = t.simp /\ Acceptable(u)
    BY <2>2 DEF Tasks, Stages, Acceptable
  <2>4. ~Shut(t) /\ ~TownClosed(n)
    BY <2>1, <2>2 DEF Shut, ClosesFit
  <2>5. n \in settled => "locked" \in past[n]
    BY <2>2 DEF SettledFits, Appealing
  <2> HIDE DEF u
  <2>6. task'[n] = u => Kept(n)
    BY <1>1, <2>1, <2>2, <2>3, <2>4, <2>5 DEF Kept
  <2> QED  BY <1>1, <2>1, <2>3, <2>6, PutMoves
<1> QED  BY <1>2, <1>3

LEMMA SimplificationMoves ==
  ASSUME IssuesInv, ApplySimplification
  PROVE  Moves
<1> USE DEF IssuesInv, Typed, StoreTyped, RunsTyped, Passes
<1> DEFINE n == sim.n
           t == task[n]
<1>1. /\ sim' = NoSim /\ jud' = jud /\ settled' = settled /\ pass' = pass
      /\ n \in Numbers /\ Known(n) /\ t \in Tasks
  <2>1. n \in Numbers /\ Known(n)
    BY DEF ApplySimplification, Some, TasksFit
  <2> QED  BY <2>1 DEF ApplySimplification, Known
<1>2. CASE UNCHANGED <<task, refused>>
  BY <1>1, <1>2, SamePuts DEF RunsHeld
<1>3. ASSUME NEW a \in {"advice", "admit", "decline"}, InIntake(t), Put(n, Assessed(t, a))
      PROVE  Moves
  <2> DEFINE u == Assessed(t, a)
  <2>1. /\ u \in Tasks /\ Acceptable(u) /\ u.att = 0 /\ u.requeue = t.requeue
        /\ u.stage \notin {"implemented", "locked"}
        /\ u.house = "hall" \/ (u.house = "issue" /\ u.simp = "admit")
    BY <1>1, <1>3, AssessedFits
  <2>2. t.house = "simplifier" /\ t.stage = "simplifying"
    BY <1>3 DEF InIntake
  <2>3. ~Shut(t) /\ ~TownClosed(n) /\ (n \in settled => "locked" \in past[n])
    BY <1>1, <2>2 DEF Shut, ClosesFit, SettledFits, Appealing
  <2> HIDE DEF u
  <2>4. task'[n] = u => Kept(n)
    BY <1>1, <2>1, <2>2, <2>3 DEF Kept
  <2>5. Put(n, u)
    BY <1>3 DEF u
  <2> QED  BY <1>1, <2>1, <2>4, <2>5, PutMoves
<1>4. ASSUME InIntake(t), Put(n, [t EXCEPT !.att = @ + 1, !.blocked = t.att >= 2])
      PROVE  Moves
  <2> DEFINE u == [t EXCEPT !.att = @ + 1, !.blocked = t.att >= 2]
  <2>1. t.house = "simplifier" /\ t.stage = "simplifying"
    BY <1>4 DEF InIntake
  <2>2. t.att \in 0 .. 2
    <3>1. t.att \in Tries /\ t.att <= 2
      BY <1>1, <2>1 DEF TasksFit, Tasks
    <3> QED  BY <3>1 DEF Tries
  <2>3. t.att + 1 \in Tries /\ (t.att + 1 <= 2 \/ t.att >= 2)
    BY <2>2 DEF Tries
  <2> DEFINE k == t.att + 1
             b == t.att >= 2
  <2>4. b \in BOOLEAN /\ u = [t EXCEPT !.att = k, !.blocked = b]
    OBVIOUS
  <2>5. k \in Tries /\ (k <= 2 \/ b)
    BY <2>3
  <2>6. Put(n, u)
    BY <1>4
  <2> HIDE DEF k, b, u
  <2>7. /\ u \in Tasks /\ u.stage = t.stage /\ u.house = t.house /\ u.dec = t.dec
        /\ u.simp = t.simp /\ u.att = k /\ u.blocked = b /\ u.requeue = t.requeue
    BY <1>1, <2>4, <2>5 DEF Tasks
  <2>8. Acceptable(t) /\ Acceptable(u)
    BY <1>1, <2>7, IssuesAssumption DEF TasksFit, Acceptable
  <2>9. ~Shut(t) /\ ~TownClosed(n) /\ (n \in settled => "locked" \in past[n])
    BY <1>1, <2>1 DEF Shut, ClosesFit, SettledFits, Appealing
  <2>10. task'[n] = u => Kept(n)
    BY <1>1, <2>1, <2>5, <2>7, <2>8, <2>9, Zero DEF Kept, NoSim
  <2> QED  BY <1>1, <2>6, <2>7, <2>8, <2>10, PutMoves
<1>5. InIntake(t) \/ UNCHANGED <<task, refused>>
  BY DEF ApplySimplification
<1>6. CASE InIntake(t)
  <2>1. \/ \E a \in {"advice", "admit", "decline"} : Put(n, Assessed(t, a))
        \/ Put(n, [t EXCEPT !.att = @ + 1, !.blocked = t.att >= 2])
    BY <1>6 DEF ApplySimplification
  <2> QED  BY <1>3, <1>4, <1>6, <2>1
<1> QED  BY <1>2, <1>5, <1>6

\* decideTask, for the operator and for Mayor Bot.
LEMMA DecideMoves ==
  ASSUME IssuesInv, NEW n \in Numbers, Known(n), NEW action \in {"admit", "decline"},
         DecideTask(n, action), sim' = sim, jud' \in {jud, 0}, pass' = pass
  PROVE  Moves
<1> USE DEF IssuesInv, Typed, StoreTyped, RunsTyped, Passes
<1> DEFINE t == task[n]
           Open == AwaitsMayor(t) \/ (action = "admit" /\ MayOverrule(t))
<1>1. CASE ~Open
  <2>1. UNCHANGED <<task, refused, settled>>
    BY <1>1 DEF DecideTask
  <2> QED  BY <2>1, SamePuts DEF RunsHeld
<1>2. CASE Open
  <2> DEFINE u == Decided(t, action)
  <2>1. t \in Tasks /\ Acceptable(t) /\ Put(n, u) /\ settled' = settled \ {n}
    BY <1>2 DEF DecideTask, Known, TasksFit
  <2>2. /\ u \in Tasks /\ Acceptable(u) /\ u.att = 0 /\ u.requeue = t.requeue
        /\ u.stage \notin {"implemented", "locked"}
        /\ (u.house = "hall" /\ Shut(u)) \/ (u.house = "issue" /\ u.dec = "admitted")
    BY <1>2, <2>1, DecidedFits
  <2>3. t.house = "hall" /\ t.stage # "implemented" /\ ~Shut(t)
    BY <1>2 DEF AwaitsMayor, MayOverrule, Shut
  <2>4. ~TownClosed(n)
    BY <2>3 DEF ClosesFit
  <2> HIDE DEF u, Open
  <2>5. task'[n] = u => Kept(n)
    BY <2>1, <2>2, <2>3, <2>4 DEF Kept
  <2>6. settled' \subseteq settled \cup {n} /\ sim' \in {sim, NoSim}
    BY <2>1
  <2> QED  BY <2>1, <2>2, <2>5, <2>6, PutMoves
<1> QED  BY <1>1, <1>2

LEMMA JudgmentMoves ==
  ASSUME IssuesInv, ApplyJudgment
  PROVE  Moves
<1> USE DEF IssuesInv, Typed, StoreTyped, RunsTyped, Passes
<1> DEFINE n == jud
           t == task[n]
<1>1. /\ sim' = sim /\ jud' = 0 /\ pass' = pass /\ settled' \subseteq settled
      /\ n \in Numbers /\ Known(n) /\ t \in Tasks /\ Acceptable(t)
  <2>1. n \in Numbers /\ Known(n)
    BY DEF ApplyJudgment, Some, TasksFit
  <2> QED  BY <2>1 DEF ApplyJudgment, DecideTask, Known, TasksFit
<1>2. CASE UNCHANGED <<task, refused, settled>>
  BY <1>1, <1>2, SamePuts DEF RunsHeld
<1>3. ASSUME NEW verdict \in {"admit", "decline"}, DecideTask(n, verdict)
      PROVE  Moves
  <2> HIDE DEF IssuesInv, Typed, StoreTyped, RunsTyped, n
  <2> QED  BY <1>1, <1>3, DecideMoves
<1>4. ASSUME AwaitsMayor(t), Put(n, [t EXCEPT !.att = @ + 1]), settled' = settled
      PROVE  Moves
  <2> DEFINE k == t.att + 1
             u == [t EXCEPT !.att = k]
  <2>1. t.house = "hall" /\ t.dec = "pending" /\ t.stage = "awaiting_mayor"
    BY <1>4 DEF AwaitsMayor
  <2>2. k \in Tries
    <3>1. t.att \in Tries /\ t.att <= 2
      BY <1>1, <2>1 DEF TasksFit, Tasks
    <3> QED  BY <3>1 DEF Tries
  <2>3. Put(n, u)
    BY <1>4
  <2> HIDE DEF k
  <2>4. /\ u \in Tasks /\ u.stage = t.stage /\ u.house = t.house /\ u.dec = t.dec
        /\ u.simp = t.simp /\ u.requeue = t.requeue
    BY <1>1, <2>2 DEF Tasks
  <2> HIDE DEF u
  <2>5. Acceptable(u) /\ ~Shut(t) /\ ~TownClosed(n) /\ (Appealing(t) => Appealing(u))
    BY <1>1, <2>1, <2>4 DEF Acceptable, Shut, ClosesFit, Appealing, AutoDeclined
  <2>6. n \in settled => "locked" \in past[n] \/ Appealing(t)
    BY DEF SettledFits
  <2>7. task'[n] = u => Kept(n)
    BY <1>1, <1>4, <2>1, <2>4, <2>5, <2>6, Zero DEF Kept
  <2> QED  BY <1>1, <1>4, <2>3, <2>4, <2>5, <2>7, PutMoves
<1>5. \/ \E verdict \in {"admit", "decline"} : DecideTask(n, verdict)
      \/ AwaitsMayor(t) /\ Put(n, [t EXCEPT !.att = @ + 1]) /\ settled' = settled
      \/ UNCHANGED <<task, refused, settled>>
  BY DEF ApplyJudgment
<1> QED  BY <1>2, <1>3, <1>4, <1>5

LEMMA RetryMoves ==
  ASSUME IssuesInv, NEW n \in Numbers, RetryIssue(n)
  PROVE  Moves
<1> USE DEF IssuesInv, Typed, StoreTyped, RunsTyped, Passes
<1> DEFINE t == task[n]
           s == IF t.stage = "blocked" THEN "queued" ELSE t.stage
           u == [t EXCEPT !.blocked = FALSE, !.att = 0, !.stage = s]
<1>1. /\ sim' = sim /\ jud' = jud /\ settled' = settled /\ pass' = pass
      /\ Known(n) /\ t \in Tasks /\ Acceptable(t) /\ Put(n, u)
  BY DEF RetryIssue, runVars, Known, TasksFit
<1>2. s \in Stages /\ (t.stage # "blocked" => s = t.stage) /\ (t.stage = "blocked" => s = "queued")
  BY <1>1 DEF Tasks, Stages
<1> HIDE DEF s
<1>3. /\ u \in Tasks /\ u.stage = s /\ u.house = t.house /\ u.dec = t.dec /\ u.ext = t.ext
      /\ u.simp = t.simp /\ u.att = 0 /\ u.requeue = t.requeue
  BY <1>1, <1>2, Zero DEF Tasks
<1> HIDE DEF u
<1>4. Acceptable(u)
  BY <1>1, <1>2, <1>3, IssuesAssumption DEF Acceptable
<1>5. t.dec = "declined" => t.stage = "declined"
  BY <1>1, IssuesAssumption DEF Acceptable
<1>6. (Shut(t) => Shut(u)) /\ (Appealing(t) => Appealing(u))
  BY <1>1, <1>2, <1>3, <1>5, IssuesAssumption DEF Shut, Appealing, AutoDeclined
<1>7. Shut(t) /\ ClosableDecline(t) => ClosableDecline(u)
  BY <1>1, <1>2, <1>3, <1>5 DEF Shut, ClosableDecline, AutoDeclined
<1>8. /\ TownClosed(n) => Shut(t)
      /\ t.stage = "locked" => "locked" \in past[n]
      /\ n \in settled => "locked" \in past[n] \/ Appealing(t)
  BY <1>1 DEF ClosesFit, SettledFits
<1>9. t.house \in {"simplifier", "hall", "issue"}
  BY <1>1 DEF Tasks
<1>10. task'[n] = u => Kept(n)
  BY <1>1, <1>2, <1>3, <1>4, <1>6, <1>7, <1>8, <1>9 DEF Kept
<1> QED  BY <1>1, <1>3, <1>4, <1>10, PutMoves

LEMMA SyncMoves ==
  ASSUME IssuesInv, SyncIssues
  PROVE  Moves
<1> USE DEF IssuesInv, Typed, StoreTyped, RunsTyped, Passes
<1> DEFINE new == [n \in Numbers |-> Imported(task[n], sync.jobs[n])]
<1>1. sim' = sim /\ jud' = jud /\ settled' = settled
  BY DEF SyncIssues, runVars
<1>2. ASSUME NEW n \in Numbers
      PROVE  /\ new[n] \in Tasks \cup {NoTask} /\ Acceptable(new[n])
             /\ task'[n] = new[n] => IF Known(n) THEN Kept(n) ELSE Arrived(n)
  <2> DEFINE t == task[n]
             j == sync.jobs[n]
             u == new[n]
  <2>1. u = Imported(t, j) /\ j \in Jobs
    OBVIOUS
  <2>2. CASE j = NoJob \/ t = NoTask
    <3>1. u = t
      BY <2>2 DEF Imported
    <3>2. t \in Tasks \cup {NoTask} /\ Acceptable(t)
      BY DEF TasksFit, Known, Acceptable
    <3>3. task'[n] = t => IF Known(n) THEN Kept(n) ELSE Arrived(n)
      BY <1>1, StaysKept
    <3> QED  BY <3>1, <3>2, <3>3
  <2>3. CASE j # NoJob /\ t # NoTask
    <3>1. Known(n) /\ t \in Tasks /\ Acceptable(t) /\ t.house = "issue"
      BY <2>3 DEF Known, TasksFit, WorkIsHoused, AtWork
    <3>2. /\ u \in Tasks /\ Acceptable(u)
          /\ u.house = "issue" /\ u.simp = t.simp /\ u.dec = t.dec
          /\ u.stage = "locked" => t.stage = "locked"
      BY <2>1, <3>1, ImportedFits
    <3>3. ~Shut(t) /\ ~TownClosed(n) /\ (n \in settled => "locked" \in past[n])
          /\ (t.stage = "locked" => "locked" \in past[n])
      BY <3>1 DEF Shut, ClosesFit, SettledFits, Appealing
    <3>4. task'[n] = u => Kept(n)
      <4> HIDE DEF u
      <4> QED  BY <1>1, <3>1, <3>2, <3>3 DEF Kept
    <3> QED  BY <3>1, <3>2, <3>4
  <2> QED  BY <2>2, <2>3
<1>3. task' = new /\ refused' = FALSE
  BY <1>2 DEF SyncIssues, Commit
<1> HIDE DEF new
<1>4. task' \in [Numbers -> Tasks \cup {NoTask}]
  <2>1. new = [n \in Numbers |-> Imported(task[n], sync.jobs[n])]
    BY DEF new
  <2>2. \A n \in Numbers : Imported(task[n], sync.jobs[n]) \in Tasks \cup {NoTask}
    BY <1>2, <2>1
  <2> QED  BY <1>3, <2>1, <2>2
<1> QED  BY <1>2, <1>3, <1>4 DEF Moves

-----------------------------------------------------------------------------
(***************************************************************************)
(* What a step does to the rest.                                            *)
(***************************************************************************)
PersonSteps(n) == PersonCloses(n) \/ PersonReopens(n) \/ PersonLocks(n)
GitHubFrame ==
  \/ UNCHANGED <<gh, past>> \/ CreateIssue \/ CloseIssue
  \/ \E from \in Filed : FileIssue(from)
  \/ \E n \in Numbers : PersonSteps(n)
PullsFrame ==
  /\ pulls' = pulls \/ EndRun \/ \E p \in Pulls : ClosePull(p)
  /\ job' = job \/ EndRun \/ \E n \in Numbers : RetryIssue(n)
  /\ owned' = owned \/ SyncIssues
SyncFrame ==
  /\ sync' = sync \/ StartPass \/ ImportAgain \/ ImportAfterRun \/ SyncIssues \/ Crash
  /\ run' = run \/ EndRun \/ ImportAfterRun \/ Crash \/ \E n \in Numbers : StartRun(n)
BotsFrame ==
  /\ sim' \in {sim, NoSim} \/ \E n \in Numbers : StartSimplifier(n)
  /\ jud' \in {jud, 0} \/ \E n \in Numbers : StartJudgment(n)
  /\ mode' = mode \/ \E m \in Modes : SetMode(m)
PassFrame ==
  \/ pass' = pass \/ StartPass \/ Observe \/ Reconcile \/ ImportAgain \/ StartClosing
  \/ (\E n \in Numbers : ClaimDecline(n)) \/ CloseIssue \/ SettleClose \/ EndPass \/ Quiet
  \/ SyncIssues \/ Crash
RequestFrame ==
  \/ UNCHANGED <<req, pub>> \/ CreateIssue \/ FindRequest \/ ConfirmRequest \/ Crash
  \/ \E r \in Requests : SubmitRequest(r) \/ PublishRequest(r)
TaskFrame ==
  \/ UNCHANGED <<task, refused, settled>> \/ ConfirmRequest \/ Reconcile \/ SettleClose
  \/ SyncIssues \/ ApplySimplification \/ ApplyJudgment
  \/ \E n \in Numbers : ClaimDecline(n) \/ RetryIssue(n)
  \/ \E p \in Pulls : ClosePull(p)
  \/ \E n \in Numbers, action \in {"admit", "decline"} : Click(n, action)

LEMMA Frames ==
  ASSUME Next
  PROVE  /\ GitHubFrame /\ PullsFrame /\ SyncFrame /\ BotsFrame /\ PassFrame /\ RequestFrame
         /\ TaskFrame
<1> USE DEF GitHubFrame, PullsFrame, SyncFrame, BotsFrame, PassFrame, RequestFrame, TaskFrame,
        runVars, storeVars, githubVars
<1>1. CASE StartPass
  BY <1>1 DEF StartPass
<1>2. CASE Observe
  BY <1>2 DEF Observe
<1>3. CASE Reconcile
  BY <1>3 DEF Reconcile
<1>4. CASE ImportAgain
  BY <1>4 DEF ImportAgain
<1>5. CASE StartClosing
  BY <1>5 DEF StartClosing
<1>6. CASE CloseIssue
  BY <1>6 DEF CloseIssue
<1>7. CASE SettleClose
  BY <1>7 DEF SettleClose
<1>8. CASE EndPass
  BY <1>8 DEF EndPass
<1>9. CASE Quiet
  BY <1>9 DEF Quiet
<1>10. CASE SyncIssues
  BY <1>10 DEF SyncIssues
<1>11. CASE CreateIssue
  BY <1>11 DEF CreateIssue
<1>12. CASE FindRequest
  BY <1>12 DEF FindRequest
<1>13. CASE ConfirmRequest
  BY <1>13 DEF ConfirmRequest
<1>14. CASE ApplySimplification
  BY <1>14 DEF ApplySimplification
<1>15. CASE ApplyJudgment
  BY <1>15 DEF ApplyJudgment
<1>16. CASE EndRun
  BY <1>16 DEF EndRun
<1>17. CASE ImportAfterRun
  BY <1>17 DEF ImportAfterRun
<1>18. CASE Crash
  BY <1>18 DEF Crash
<1>19. ASSUME NEW n \in Numbers, ClaimDecline(n)
       PROVE  GitHubFrame /\ PullsFrame /\ SyncFrame /\ BotsFrame /\ PassFrame /\ RequestFrame /\ TaskFrame
  BY <1>19 DEF ClaimDecline
<1>20. ASSUME NEW p \in Pulls, ClosePull(p)
       PROVE  GitHubFrame /\ PullsFrame /\ SyncFrame /\ BotsFrame /\ PassFrame /\ RequestFrame /\ TaskFrame
  BY <1>20 DEF ClosePull
<1>21. ASSUME NEW from \in Filed, FileIssue(from)
       PROVE  GitHubFrame /\ PullsFrame /\ SyncFrame /\ BotsFrame /\ PassFrame /\ RequestFrame /\ TaskFrame
  BY <1>21 DEF FileIssue
<1>22. ASSUME NEW n \in Numbers, PersonSteps(n)
       PROVE  GitHubFrame /\ PullsFrame /\ SyncFrame /\ BotsFrame /\ PassFrame /\ RequestFrame /\ TaskFrame
  BY <1>22 DEF PersonSteps, PersonCloses, PersonReopens, PersonLocks, PersonEdits
<1>23. ASSUME NEW m \in Modes, SetMode(m)
       PROVE  GitHubFrame /\ PullsFrame /\ SyncFrame /\ BotsFrame /\ PassFrame /\ RequestFrame /\ TaskFrame
  BY <1>23 DEF SetMode
<1>24. ASSUME NEW r \in Requests, SubmitRequest(r)
       PROVE  GitHubFrame /\ PullsFrame /\ SyncFrame /\ BotsFrame /\ PassFrame /\ RequestFrame /\ TaskFrame
  BY <1>24 DEF SubmitRequest
<1>25. ASSUME NEW r \in Requests, PublishRequest(r)
       PROVE  GitHubFrame /\ PullsFrame /\ SyncFrame /\ BotsFrame /\ PassFrame /\ RequestFrame /\ TaskFrame
  BY <1>25 DEF PublishRequest
<1>26. ASSUME NEW n \in Numbers, StartSimplifier(n)
       PROVE  GitHubFrame /\ PullsFrame /\ SyncFrame /\ BotsFrame /\ PassFrame /\ RequestFrame /\ TaskFrame
  BY <1>26 DEF StartSimplifier
<1>27. ASSUME NEW n \in Numbers, StartJudgment(n)
       PROVE  GitHubFrame /\ PullsFrame /\ SyncFrame /\ BotsFrame /\ PassFrame /\ RequestFrame /\ TaskFrame
  BY <1>27 DEF StartJudgment
<1>28. ASSUME NEW n \in Numbers, StartRun(n)
       PROVE  GitHubFrame /\ PullsFrame /\ SyncFrame /\ BotsFrame /\ PassFrame /\ RequestFrame /\ TaskFrame
  BY <1>28 DEF StartRun
<1>29. ASSUME NEW n \in Numbers, RetryIssue(n)
       PROVE  GitHubFrame /\ PullsFrame /\ SyncFrame /\ BotsFrame /\ PassFrame /\ RequestFrame /\ TaskFrame
  BY <1>29 DEF RetryIssue
<1>30. ASSUME NEW n \in Numbers, NEW action \in {"admit", "decline"}, Click(n, action)
       PROVE  GitHubFrame /\ PullsFrame /\ SyncFrame /\ BotsFrame /\ PassFrame /\ RequestFrame /\ TaskFrame
  BY <1>30 DEF Click
<1> HIDE DEF GitHubFrame, PullsFrame, SyncFrame, BotsFrame, PassFrame, RequestFrame, TaskFrame
<1> QED
  BY <1>1, <1>2, <1>3, <1>4, <1>5, <1>6, <1>7, <1>8, <1>9, <1>10, <1>11, <1>12, <1>13, <1>14, <1>15,
     <1>16, <1>17, <1>18, <1>19, <1>20, <1>21, <1>22, <1>23, <1>24, <1>25, <1>26, <1>27, <1>28, <1>29, <1>30 DEF Next, PassStep, PersonSteps

LEMMA TaskMoves ==
  ASSUME IssuesInv, Next
  PROVE  Moves
<1>1. CASE UNCHANGED <<task, refused, settled>>
  <2>1. task \in [Numbers -> Tasks \cup {NoTask}] /\ refused = FALSE
    BY DEF IssuesInv, Typed, StoreTyped
  <2>2. ASSUME NEW n \in Numbers, Known(n), task[n].house = "simplifier", sim'.n = n
        PROVE  task[n].att <= 2
    <3>1. CASE sim' \in {sim, NoSim}
      BY <2>2, <3>1, Zero DEF IssuesInv, TasksFit, NoSim
    <3>2. ASSUME NEW m \in Numbers, StartSimplifier(m)
          PROVE  task[n].att <= 2
      BY <2>2, <3>2 DEF StartSimplifier, IssuesInv, TasksFit
    <3> QED  BY <3>1, <3>2, Frames DEF BotsFrame
  <2>3. ASSUME NEW n \in Numbers, Known(n), task[n].house = "hall", jud' = n
        PROVE  task[n].att <= 2
    <3>1. CASE jud' \in {jud, 0}
      BY <2>3, <3>1, Zero DEF IssuesInv, TasksFit
    <3>2. ASSUME NEW m \in Numbers, StartJudgment(m)
          PROVE  task[n].att <= 2
      <4>1. task[n].att < 3 /\ task[n].att \in Tries
        BY <2>1, <2>3, <3>2 DEF StartJudgment, Tasks, Known
      <4> QED  BY <4>1 DEF Tries
    <3> QED  BY <3>1, <3>2, Frames DEF BotsFrame
  <2>4. \A n \in Numbers : IF Known(n) THEN Kept(n) ELSE Arrived(n)
    BY <1>1, <2>2, <2>3, StaysKeptIf
  <2> QED  BY <1>1, <2>1, <2>4 DEF Moves
<1>2. ASSUME NEW n \in Numbers, NEW action \in {"admit", "decline"}, Click(n, action)
      PROVE  Moves
  <2>1. /\ Known(n) /\ DecideTask(n, action) /\ sim' = sim /\ jud' \in {jud, 0} /\ pass' = pass
    BY <1>2 DEF Click, runVars
  <2> QED  BY <2>1, DecideMoves
<1> QED
  BY <1>1, <1>2, Frames, ConfirmMoves, ReconcileMoves, ClaimMoves, SettleMoves, SyncMoves,
     SimplificationMoves, JudgmentMoves, RetryMoves, ClosePullMoves DEF TaskFrame

LEMMA GitHubMoves ==
  ASSUME IssuesInv, Next, NEW n \in Numbers
  PROVE  /\ past[n] \subseteq past'[n]
         /\ gh[n].st # "none" => gh'[n].st # "none" /\ gh'[n].from = gh[n].from
         /\ TownClosed(n)' => TownClosed(n) \/ (CloseIssue /\ n = pass.n)
         /\ gh'[n].locked => gh[n].locked \/ "locked" \in past'[n]
<1> USE DEF IssuesInv, Typed, StoreTyped, GitHubTyped
<1>1. CASE UNCHANGED <<gh, past>>
  BY <1>1 DEF TownClosed
<1>2. ASSUME NEW from, RoomLeft, gh' = Opened(from), past' = past
      PROVE  /\ past[n] \subseteq past'[n]
             /\ gh[n].st # "none" => gh'[n].st # "none" /\ gh'[n].from = gh[n].from
             /\ TownClosed(n)' => TownClosed(n)
             /\ gh'[n].locked => gh[n].locked
  BY <1>2, NextNumberIsFree DEF Opened, TownClosed
<1>3. CASE CreateIssue
  BY <1>1, <1>2, <1>3 DEF CreateIssue
<1>4. CASE CloseIssue
  <2>1. past' = past /\ (gh' = gh \/ gh' = [gh EXCEPT ![pass.n].st = "closed"])
    BY <1>4 DEF CloseIssue, Closed
  <2>2. gh[pass.n].st # "none"
    <3>1. pass.at \in {"call", "accepted", "rejected"}
      BY <1>4 DEF CloseIssue
    <3>2. pass.n \in Numbers /\ Shut(task[pass.n])
      BY <3>1 DEF ClaimFits, RunsTyped, Passes, Some
    <3> QED  BY <3>2 DEF TasksFit, Known, Shut
  <2> QED  BY <1>1, <1>4, <2>1, <2>2 DEF TownClosed
<1>5. ASSUME NEW from \in Filed, FileIssue(from)
      PROVE  /\ past[n] \subseteq past'[n]
             /\ gh[n].st # "none" => gh'[n].st # "none" /\ gh'[n].from = gh[n].from
             /\ TownClosed(n)' => TownClosed(n)
             /\ gh'[n].locked => gh[n].locked
  BY <1>2, <1>5 DEF FileIssue
<1>6. ASSUME NEW m \in Numbers, PersonSteps(m)
      PROVE  /\ past[n] \subseteq past'[n]
             /\ gh[n].st # "none" => gh'[n].st # "none" /\ gh'[n].from = gh[n].from
             /\ TownClosed(n)' => TownClosed(n)
             /\ gh'[n].locked => gh[n].locked \/ "locked" \in past'[n]
  BY <1>6 DEF PersonSteps, PersonCloses, PersonReopens, PersonLocks, PersonEdits, TownClosed
<1> QED  BY <1>1, <1>3, <1>4, <1>5, <1>6, Frames DEF GitHubFrame

-----------------------------------------------------------------------------
(***************************************************************************)
(* Every step keeps the types.                                              *)
(***************************************************************************)
LEMMA StoreTypedStep ==
  ASSUME IssuesInv, Next
  PROVE  StoreTyped'
<1> USE DEF IssuesInv, Typed, StoreTyped
<1>1. task' \in [Numbers -> Tasks \cup {NoTask}] /\ refused' = FALSE
  BY TaskMoves DEF Moves
<1>2. req' \in [Requests -> [status : {"none", "queued", "uncertain", "confirmed"}, num : Some]]
  <2>1. CASE UNCHANGED <<req, pub>> \/ CreateIssue \/ FindRequest \/ Crash
    BY <2>1 DEF CreateIssue, FindRequest, Crash, storeVars
  <2>2. CASE ConfirmRequest
    <3>1. req' = req \/ req' = [req EXCEPT ![pub.req] = [status |-> "confirmed", num |-> pub.num]]
      BY <2>2 DEF ConfirmRequest
    <3>2. [status |-> "confirmed", num |-> pub.num]
            \in [status : {"none", "queued", "uncertain", "confirmed"}, num : Some]
      BY DEF RunsTyped
    <3> QED  BY <3>1, <3>2
  <2>3. ASSUME NEW r \in Requests, SubmitRequest(r) \/ PublishRequest(r)
        PROVE  req' \in [Requests -> [status : {"none", "queued", "uncertain", "confirmed"}, num : Some]]
    BY <2>3 DEF SubmitRequest, PublishRequest
  <2> QED  BY <2>1, <2>2, <2>3, Frames DEF RequestFrame
<1>3. owned' \in [Pulls -> Some]
  <2>1. CASE SyncIssues
    <3>1. ASSUME NEW p \in Pulls
          PROVE  (IF \E n \in Numbers : sync.jobs[n].pr = p /\ Submitted(n, sync.jobs[n])
                  THEN CHOOSE n \in Numbers : sync.jobs[n].pr = p ELSE owned[p]) \in Some
      BY DEF Some
    <3> QED  BY <2>1, <3>1 DEF SyncIssues
  <2> QED  BY <2>1, Frames DEF PullsFrame
<1>4. settled' \subseteq Numbers
  <2>1. CASE SettleClose
    <3>1. pass.n \in Numbers
      BY <2>1 DEF SettleClose, ClaimFits, RunsTyped, Passes, Some
    <3> QED  BY <2>1, <3>1 DEF SettleClose
  <2>2. CASE ApplyJudgment
    BY <2>2 DEF ApplyJudgment, DecideTask
  <2>3. ASSUME NEW n \in Numbers, NEW action \in {"admit", "decline"}, Click(n, action)
        PROVE  settled' \subseteq Numbers
    BY <2>3 DEF Click, DecideTask
  <2> QED
    BY <2>1, <2>2, <2>3, Frames DEF TaskFrame, ConfirmRequest, Reconcile, SyncIssues,
       ApplySimplification, ClaimDecline, RetryIssue, ClosePull
<1>5. past' \in [Numbers -> SUBSET {"closed", "locked"}]
  <2>1. ASSUME NEW n \in Numbers, PersonSteps(n)
        PROVE  past' \in [Numbers -> SUBSET {"closed", "locked"}]
    BY <2>1 DEF PersonSteps, PersonCloses, PersonReopens, PersonLocks, PersonEdits
  <2> QED  BY <2>1, Frames DEF GitHubFrame, CreateIssue, CloseIssue, FileIssue
<1> QED  BY <1>1, <1>2, <1>3, <1>4, <1>5

LEMMA GitHubTypedStep ==
  ASSUME IssuesInv, Next
  PROVE  GitHubTyped'
<1> USE DEF IssuesInv, Typed, GitHubTyped
<1>1. gh' \in [Numbers -> [st : States, locked : BOOLEAN, from : Filers \cup {Nobody}]]
  <2>1. ASSUME NEW from \in Filers, RoomLeft, gh' = Opened(from)
        PROVE  gh' \in [Numbers -> [st : States, locked : BOOLEAN, from : Filers \cup {Nobody}]]
    BY <2>1, NextNumberIsFree DEF Opened, States
  <2>2. CASE CreateIssue
    BY <2>1, <2>2 DEF CreateIssue, RequestsFit, Filers
  <2>3. CASE CloseIssue
    BY <2>3 DEF CloseIssue, Closed, States
  <2>4. ASSUME NEW from \in Filed, FileIssue(from)
        PROVE  gh' \in [Numbers -> [st : States, locked : BOOLEAN, from : Filers \cup {Nobody}]]
    BY <2>1, <2>4 DEF FileIssue, Filers
  <2>5. ASSUME NEW n \in Numbers, PersonSteps(n)
        PROVE  gh' \in [Numbers -> [st : States, locked : BOOLEAN, from : Filers \cup {Nobody}]]
    <3>1. \E b \in BOOLEAN, st \in {"open", "closed"} :
             gh' = [gh EXCEPT ![n] = [gh[n] EXCEPT !.st = st]]
             \/ gh' = [gh EXCEPT ![n] = [gh[n] EXCEPT !.locked = b]]
      BY <2>5 DEF PersonSteps, PersonCloses, PersonReopens, PersonLocks, PersonEdits
    <3> QED  BY <3>1 DEF States
  <2> QED  BY <2>2, <2>3, <2>4, <2>5, Frames DEF GitHubFrame
<1>2. pulls' \in [Pulls -> States] /\ job' \in [Numbers -> Jobs]
  <2>1. CASE EndRun
    <3> USE DEF RunsTyped
    <3>1. CASE UNCHANGED <<job, pulls>>
      BY <3>1
    <3>2. ASSUME NEW p \in Pulls, job' = [job EXCEPT ![run.n] = [status |-> "submitted", pr |-> p]],
                 pulls' = [pulls EXCEPT ![p] = "open"]
          PROVE  pulls' \in [Pulls -> States] /\ job' \in [Numbers -> Jobs]
      <4>1. [status |-> "submitted", pr |-> p] \in Jobs
        BY DEF Jobs
      <4> QED  BY <3>2, <4>1 DEF States
    <3>3. ASSUME NEW st \in {"pending", "blocked"}, job' = [job EXCEPT ![run.n] = [status |-> st, pr |-> 0]],
                 pulls' = pulls
          PROVE  pulls' \in [Pulls -> States] /\ job' \in [Numbers -> Jobs]
      <4>1. [status |-> st, pr |-> 0] \in Jobs
        BY DEF Jobs
      <4> QED  BY <3>3, <4>1
    <3> QED  BY <2>1, <3>1, <3>2, <3>3 DEF EndRun
  <2>2. ASSUME NEW p \in Pulls, ClosePull(p)
        PROVE  pulls' \in [Pulls -> States] /\ job' = job
    BY <2>2 DEF ClosePull, States
  <2>3. ASSUME NEW n \in Numbers, RetryIssue(n)
        PROVE  pulls' = pulls /\ job' \in [Numbers -> Jobs]
    BY <2>3 DEF RetryIssue, Jobs, githubVars
  <2> QED  BY <2>1, <2>2, <2>3, Frames DEF PullsFrame
<1>3. mode' \in {"auto", "suggest"}
  BY Frames, IssuesAssumption DEF BotsFrame, SetMode
<1> QED  BY <1>1, <1>2, <1>3

LEMMA RunsTypedStep ==
  ASSUME IssuesInv, Next
  PROVE  RunsTyped'
<1> USE DEF IssuesInv, Typed, RunsTyped
<1>1. pub' \in [req : Requests \cup {Nobody}, at : {"idle", "create", "find", "answer"},
                num : Some, st : States]
  <2>1. gh' \in [Numbers -> [st : States, locked : BOOLEAN, from : Filers \cup {Nobody}]]
    BY GitHubTypedStep DEF GitHubTyped
  <2>2. ASSUME NEW n \in Some, Answered(n)
        PROVE  pub' \in [req : Requests \cup {Nobody}, at : {"idle", "create", "find", "answer"},
                         num : Some, st : States]
    BY <2>1, <2>2 DEF Answered, Some, States
  <2>3. CASE CreateIssue
    BY <2>2, <2>3, NextNumberIsFree DEF CreateIssue, Some
  <2>4. CASE FindRequest
    <3>1. Cardinality(Receipts(pub.req)) = 1 => \E n \in Receipts(pub.req) : TRUE
      BY FS_EmptySet
    <3> QED  BY <2>2, <2>4, <3>1 DEF FindRequest, Some, Receipts
  <2>5. CASE ConfirmRequest \/ Crash
    <3>1. pub' = [req |-> Nobody, at |-> "idle", num |-> 0, st |-> "open"]
      BY <2>5 DEF ConfirmRequest, Crash, IdlePub
    <3> QED  BY <3>1 DEF Some, States
  <2>6. ASSUME NEW r \in Requests, SubmitRequest(r) \/ PublishRequest(r)
        PROVE  pub' \in [req : Requests \cup {Nobody}, at : {"idle", "create", "find", "answer"},
                         num : Some, st : States]
    BY <2>6 DEF SubmitRequest, PublishRequest, IdlePub, Some, States
  <2> QED  BY <2>3, <2>4, <2>5, <2>6, Frames DEF RequestFrame
<1>2. pass' \in Passes
  <2>1. \A at \in {"idle", "sync", "observe", "read", "import", "sync2", "writes", "close",
                   "call", "accepted", "rejected"} : at \in PassPlaces
    BY DEF PassPlaces, Later, Closing
  <2>2. IdlePass \in Passes
    BY <2>1 DEF IdlePass, Some, Passes
  <2>3. CASE StartPass \/ EndPass \/ Quiet \/ Crash
    BY <2>1, <2>2, <2>3 DEF StartPass, EndPass, Quiet, Crash, Passes
  <2>4. CASE Observe
    <3> DEFINE seen == {[n |-> n, st |-> gh[n].st, locked |-> gh[n].locked, from |-> gh[n].from] :
                          n \in {m \in Numbers : gh[m].st # "none"}}
               prs == {p \in Pulls : pulls[p] = "open"}
    <3>1. seen \subseteq Sightings /\ prs \subseteq Pulls
      BY DEF Sightings, GitHubTyped
    <3>2. pass' = IdlePass \/ pass' = [pass EXCEPT !.at = "read", !.prs = prs, !.seen = seen]
      BY <2>4 DEF Observe
    <3> HIDE DEF seen, prs
    <3> QED  BY <2>1, <2>2, <3>1, <3>2 DEF Passes
  <2>5. CASE Reconcile
    <3> DEFINE prs == {p \in pass.prs : owned[p] # 0}
    <3>1. prs \subseteq Pulls /\ pass' = [pass EXCEPT !.at = "import", !.prs = prs]
      BY <2>5 DEF Reconcile, Passes
    <3> HIDE DEF prs
    <3> QED  BY <2>1, <3>1 DEF Passes
  <2>6. CASE ImportAgain \/ CloseIssue \/ SettleClose
    <3>1. \E at \in {"sync2", "accepted", "rejected", "close"} :
             pass' = [pass EXCEPT !.at = at] \/ pass' = [pass EXCEPT !.at = at, !.n = 0]
      BY <2>6 DEF ImportAgain, CloseIssue, SettleClose
    <3>2. PICK at \in PassPlaces :
             pass' = [pass EXCEPT !.at = at] \/ pass' = [pass EXCEPT !.at = at, !.n = 0]
      BY <2>1, <3>1
    <3>3. CASE pass' = [pass EXCEPT !.at = at]
      BY <3>3 DEF Passes
    <3>4. CASE pass' = [pass EXCEPT !.at = at, !.n = 0]
      BY <3>4 DEF Passes, Some
    <3> QED  BY <3>2, <3>3, <3>4
  <2>7. CASE SyncIssues
    <3>1. pass' = pass \/ \E at \in {"observe", "writes"} : pass' = [pass EXCEPT !.at = at]
      BY <2>7 DEF SyncIssues
    <3> QED  BY <2>1, <3>1 DEF Passes
  <2>8. CASE StartClosing
    <3> DEFINE todo == {g.n : g \in {h \in pass.seen : /\ h.st = "open" /\ Known(h.n)
                                                       /\ ClosableDecline(task[h.n])}}
    <3>1. todo \subseteq Numbers /\ pass' = [pass EXCEPT !.at = "close", !.seen = {}, !.todo = todo]
      BY <2>8 DEF StartClosing, Sightings, Passes
    <3> HIDE DEF todo
    <3> QED  BY <2>1, <3>1 DEF Passes
  <2>9. ASSUME NEW n \in Numbers, ClaimDecline(n)
        PROVE  pass' \in Passes
    <3> DEFINE todo == pass.todo \ {n}
    <3>1. /\ todo \subseteq Numbers /\ n \in Some
          /\ \/ pass' = [pass EXCEPT !.at = "call", !.todo = todo, !.n = n]
             \/ pass' = [pass EXCEPT !.todo = todo]
      BY <2>9 DEF ClaimDecline, Some, Passes
    <3> HIDE DEF todo
    <3> QED  BY <2>1, <3>1 DEF Passes
  <2> QED  BY <2>3, <2>4, <2>5, <2>6, <2>7, <2>8, <2>9, Frames DEF PassFrame
<1>3. sync' \in [by : {"nobody", "pass", "run"}, jobs : [Numbers -> Jobs]]
  BY Frames, Zero DEF SyncFrame, StartPass, ImportAgain, ImportAfterRun, SyncIssues, Crash, IdleSync,
     NoJob, Jobs, GitHubTyped
<1>4. sim' \in [n : Some, mode : {"auto", "suggest"}] /\ jud' \in Some
  BY Frames DEF BotsFrame, StartSimplifier, StartJudgment, NoSim, Some, GitHubTyped
<1>5. run' \in [n : Some, superseded : Pulls \cup {0}, at : {"idle", "working", "import"}]
  <2>1. ASSUME NEW n \in Numbers, StartRun(n)
        PROVE  run' \in [n : Some, superseded : Pulls \cup {0}, at : {"idle", "working", "import"}]
    <3>1. task[n].requeue \in Pulls \cup {0}
      BY <2>1 DEF StartRun, StoreTyped, Known, Tasks
    <3> QED  BY <2>1, <3>1 DEF StartRun, Some
  <2> QED  BY <2>1, Frames DEF SyncFrame, EndRun, ImportAfterRun, Crash, NoRun, Some
<1> QED  BY <1>1, <1>2, <1>3, <1>4, <1>5

-----------------------------------------------------------------------------
(***************************************************************************)
(* Every step keeps the invariant, conjunct by conjunct.                    *)
(***************************************************************************)

\* A task stays known, and an issue stays on GitHub with its filer.
LEMMA KnownStays ==
  ASSUME IssuesInv, Next, NEW n \in Numbers, Known(n)
  PROVE  Kept(n) /\ Known(n)' /\ gh[n].st # "none" /\ gh'[n].st # "none" /\ gh'[n].from = gh[n].from
<1>1. Kept(n)
  BY TaskMoves DEF Moves
<1>2. task'[n] # NoTask
  BY <1>1, IssuesAssumption DEF Kept
<1>3. gh[n].st # "none"
  BY DEF IssuesInv, TasksFit
<1> QED  BY <1>1, <1>2, <1>3, GitHubMoves DEF Known

LEMMA TasksFitStep ==
  ASSUME IssuesInv, Next
  PROVE  TasksFit'
<1> USE DEF IssuesInv, Typed, RunsTyped
<1>1. ASSUME NEW n \in Numbers, Known(n)'
      PROVE  /\ Acceptable(task'[n]) /\ gh'[n].st # "none"
             /\ task'[n].house = "simplifier" => task'[n].blocked \/ task'[n].att <= 2
             /\ task'[n].house = "simplifier" /\ sim'.n = n => task'[n].att <= 2
             /\ task'[n].house = "hall" /\ jud' = n => task'[n].att <= 2
  <2>1. CASE Known(n)
    BY <2>1, KnownStays DEF Kept
  <2>2. CASE ~Known(n)
    <3>1. Arrived(n) /\ task'[n] # NoTask
      BY <1>1, <2>2, TaskMoves DEF Moves, Known
    <3>2. task'[n].att <= 2
      BY <3>1 DEF Arrived
    <3> QED  BY <3>1, <3>2, GitHubMoves DEF Arrived
  <2> QED  BY <2>1, <2>2
<1>2. sim'.n # 0 => task'[sim'.n] # NoTask
  <2>1. CASE sim' \in {sim, NoSim}
    BY <2>1, KnownStays DEF TasksFit, NoSim, Some, Known
  <2>2. ASSUME NEW n \in Numbers, StartSimplifier(n)
        PROVE  sim'.n = n /\ Known(n)
    BY <2>2 DEF StartSimplifier
  <2> QED  BY <2>1, <2>2, KnownStays, Frames DEF BotsFrame, Known
<1>3. jud' # 0 => task'[jud'] # NoTask
  <2>1. CASE jud' \in {jud, 0}
    BY <2>1, KnownStays DEF TasksFit, Some, Known
  <2>2. ASSUME NEW n \in Numbers, StartJudgment(n)
        PROVE  jud' = n /\ Known(n)
    BY <2>2 DEF StartJudgment
  <2> QED  BY <2>1, <2>2, KnownStays, Frames DEF BotsFrame, Known
<1> QED  BY <1>1, <1>2, <1>3 DEF TasksFit, Known

\* A pull request keeps the issue it implements, and an import gives it one.
LEMMA OwnedGrows ==
  ASSUME IssuesInv, Next, NEW p \in Pulls
  PROVE  /\ owned[p] # 0 => owned'[p] = owned[p]
         /\ owned'[p] # owned[p] =>
              SyncIssues /\ owned'[p] \in Numbers /\ sync.jobs[owned'[p]].pr = p
         /\ SyncIssues /\ owned[p] = 0 => \A n \in Numbers :
              sync.jobs[n].pr = p /\ Submitted(n, sync.jobs[n]) => owned'[p] = n
<1> USE DEF IssuesInv, Typed, StoreTyped
<1>1. CASE ~SyncIssues
  BY <1>1, Frames DEF PullsFrame
<1>2. CASE SyncIssues
  <2>1. owned'[p] = IF \E n \in Numbers : sync.jobs[n].pr = p /\ Submitted(n, sync.jobs[n])
                    THEN CHOOSE n \in Numbers : sync.jobs[n].pr = p ELSE owned[p]
    BY <1>2 DEF SyncIssues
  <2>2. \A n, m \in Numbers : Names(n, p) /\ Names(m, p) => n = m
    BY DEF PullsFit
  <2>3. CASE \E n \in Numbers : sync.jobs[n].pr = p /\ Submitted(n, sync.jobs[n])
    <3>1. owned'[p] \in Numbers /\ sync.jobs[owned'[p]].pr = p
      BY <2>1, <2>3
    <3>2. owned[p] # 0 => owned[p] = owned'[p]
      BY <2>2, <3>1 DEF Names, Some
    <3>3. \A n \in Numbers : sync.jobs[n].pr = p => owned'[p] = n
      BY <2>2, <3>1 DEF Names
    <3> QED  BY <1>2, <3>1, <3>2, <3>3
  <2>4. CASE ~\E n \in Numbers : sync.jobs[n].pr = p /\ Submitted(n, sync.jobs[n])
    BY <2>1, <2>4
  <2> QED  BY <2>3, <2>4
<1> QED  BY <1>1, <1>2

LEMMA OwnedStays ==
  ASSUME IssuesInv, Next, NEW p \in Pulls, NEW n \in Numbers, owned[p] = n
  PROVE  owned'[p] = n
<1>1. n # 0
  BY Zero
<1> QED  BY <1>1, OwnedGrows

LEMMA OwnedBySync ==
  ASSUME IssuesInv, Next, SyncIssues, NEW p \in Pulls, NEW n \in Numbers, sync.jobs[n].pr = p,
         Submitted(n, sync.jobs[n])
  PROVE  owned'[p] = n
<1>1. CASE owned[p] = 0
  BY <1>1, OwnedGrows
<1>2. CASE owned[p] # 0
  <2>1. owned[p] \in Numbers
    BY <1>2 DEF IssuesInv, Typed, StoreTyped, Some
  <2>2. owned[p] = n
    BY <2>1 DEF IssuesInv, PullsFit, Names
  <2> QED  BY <2>2, OwnedStays
<1> QED  BY <1>1, <1>2

LEMMA WorkIsHousedStep ==
  ASSUME IssuesInv, Next
  PROVE  WorkIsHoused'
<1> USE DEF IssuesInv, Typed, StoreTyped, RunsTyped, GitHubTyped
<1>1. ASSUME NEW n \in Numbers, Known(n), task[n].house = "issue"
      PROVE  Known(n)' /\ task'[n].house = "issue"
  BY <1>1, KnownStays DEF Kept
<1>2. ASSUME NEW n \in Numbers, AtWork(n)', ~AtWork(n)
      PROVE  Known(n) /\ task[n].house = "issue"
  <2>1. \/ job'[n] # NoJob /\ job[n] = NoJob
        \/ sync'.jobs[n] # NoJob /\ sync.jobs[n] = NoJob /\ job[n] = NoJob
        \/ run'.at # "idle" /\ run'.n = n /\ ~(run.at # "idle" /\ run.n = n)
        \/ \E p \in Pulls : owned'[p] = n /\ owned[p] # n
    BY <1>2 DEF AtWork
  <2>2. ~(job'[n] # NoJob /\ job[n] = NoJob)
    <3>1. CASE EndRun
      <4>1. run.n # n
        BY <1>2, <3>1 DEF AtWork, EndRun
      <4> QED  BY <3>1, <4>1 DEF EndRun
    <3>2. ASSUME NEW m \in Numbers, RetryIssue(m)
          PROVE  job[n] = NoJob => job'[n] = NoJob
      BY <3>2 DEF RetryIssue, NoJob
    <3> QED  BY <3>1, <3>2, Frames DEF PullsFrame
  <2>3. ~(sync'.jobs[n] # NoJob /\ sync.jobs[n] = NoJob /\ job[n] = NoJob)
    BY Frames DEF SyncFrame, StartPass, ImportAgain, ImportAfterRun, SyncIssues, Crash, IdleSync
  <2>4. ASSUME run'.at # "idle" /\ run'.n = n /\ ~(run.at # "idle" /\ run.n = n)
        PROVE  Known(n) /\ task[n].house = "issue"
    <3>1. ~EndRun /\ run' # run /\ ~ImportAfterRun /\ ~Crash
      BY <2>4 DEF EndRun, ImportAfterRun, Crash, NoRun
    <3> QED  BY <2>4, <3>1, Frames DEF SyncFrame, StartRun
  <2>5. ASSUME NEW p \in Pulls, owned'[p] = n, owned[p] # n
        PROVE  AtWork(n)
    <3>1. sync.jobs[n].pr = p
      BY <2>5, OwnedGrows
    <3> QED  BY <3>1, Zero DEF AtWork, NoJob
  <2> QED  BY <1>2, <2>1, <2>2, <2>3, <2>4, <2>5
<1>3. \A n \in Numbers : AtWork(n)' => Known(n)' /\ task'[n].house = "issue"
  BY <1>1, <1>2 DEF WorkIsHoused
<1>4. run'.at # "idle" => run'.n # 0
  BY Frames, Zero DEF SyncFrame, EndRun, ImportAfterRun, Crash, StartRun, NoRun, WorkIsHoused
<1> QED  BY <1>3, <1>4 DEF WorkIsHoused

\* Only the publisher makes an issue of a request, and only from "create".
LEMMA Filings ==
  ASSUME IssuesInv, Next
  PROVE  \/ \A n \in Numbers : gh'[n].from = gh[n].from /\ (gh'[n].st = "none" <=> gh[n].st = "none")
         \/ \E from \in Filers : /\ RoomLeft /\ gh' = Opened(from)
                                 /\ from \in Filed \/ (CreateIssue /\ from = pub.req /\ pub.at = "create")
<1> USE DEF IssuesInv, Typed, GitHubTyped, RunsTyped
<1>1. CASE UNCHANGED gh
  BY <1>1
<1>2. CASE CreateIssue
  <2>1. pub.at = "create" /\ pub.req \in Requests
    BY <1>2 DEF CreateIssue, RequestsFit
  <2> QED  BY <1>1, <1>2, <2>1 DEF CreateIssue, Filers
<1>3. CASE CloseIssue
  <2>1. pass.at \in {"call", "accepted", "rejected"}
    BY <1>3 DEF CloseIssue
  <2>2. pass.n \in Numbers /\ gh[pass.n].st # "none"
    BY <2>1 DEF ClaimFits, Passes, Some, Shut, TasksFit, Known
  <2>3. gh' = gh \/ gh' = [gh EXCEPT ![pass.n].st = "closed"]
    BY <1>3 DEF CloseIssue, Closed
  <2> QED  BY <2>2, <2>3
<1>4. ASSUME NEW from \in Filed, FileIssue(from)
      PROVE  RoomLeft /\ gh' = Opened(from) /\ from \in Filers
  BY <1>4 DEF FileIssue, Filers
<1>5. ASSUME NEW m \in Numbers, PersonSteps(m)
      PROVE  \A n \in Numbers : gh'[n].from = gh[n].from /\ (gh'[n].st = "none" <=> gh[n].st = "none")
  BY <1>5 DEF PersonSteps, PersonCloses, PersonReopens, PersonLocks, PersonEdits
<1> QED  BY <1>1, <1>2, <1>3, <1>4, <1>5, Frames DEF GitHubFrame

LEMMA OneIsSome ==
  ASSUME NEW S, Cardinality(S) = 1
  PROVE  S # {}
BY FS_EmptySet

NewReceipts(r) == {n \in Numbers : gh'[n].from = r}

LEMMA RequestsFitStep ==
  ASSUME IssuesInv, Next
  PROVE  RequestsFit'
<1> USE DEF IssuesInv, Typed, StoreTyped, GitHubTyped, RunsTyped
<1>1. Requests \cap Filed = {} /\ Nobody \notin Requests \cup Filed /\ Nobody \notin Filers
  BY IssuesAssumption DEF Filers
<1>2. /\ \A n \in Numbers : gh[n].st = "none" <=> gh[n].from = Nobody
      /\ \A n, m \in Numbers : gh[n].from = gh[m].from /\ gh[n].from \in Requests => n = m
  BY DEF RequestsFit
<1>3. \A n \in Numbers : gh[n].from # Nobody => gh'[n].from = gh[n].from
  BY <1>2, GitHubMoves
<1>4. ASSUME NEW from \in Filers, RoomLeft, gh' = Opened(from)
      PROVE  /\ NextNumber \in Numbers /\ gh[NextNumber].from = Nobody
             /\ \A n \in Numbers \ {NextNumber} : gh'[n] = gh[n]
             /\ gh'[NextNumber].from = from /\ gh'[NextNumber].st = "open"
  BY <1>2, <1>4, NextNumberIsFree DEF Opened
<1>5. \A n \in Numbers : gh'[n].st = "none" <=> gh'[n].from = Nobody
  <2>1. CASE \A n \in Numbers : gh'[n].from = gh[n].from /\ (gh'[n].st = "none" <=> gh[n].st = "none")
    BY <1>2, <2>1
  <2>2. ASSUME NEW from \in Filers, RoomLeft, gh' = Opened(from), NEW n \in Numbers
        PROVE  gh'[n].st = "none" <=> gh'[n].from = Nobody
    BY <1>1, <1>2, <1>4, <2>2
  <2> QED  BY <2>1, <2>2, Filings
<1>6. ASSUME NEW r \in Requests
      PROVE  \/ NewReceipts(r) = Receipts(r)
             \/ /\ CreateIssue /\ r = pub.req /\ pub.at = "create"
                /\ RoomLeft /\ NewReceipts(r) = {NextNumber}
  <2>1. ASSUME NEW from \in Filers, RoomLeft, gh' = Opened(from), from # r
        PROVE  NewReceipts(r) = Receipts(r)
    <3>1. \A n \in Numbers : gh'[n].from = r <=> gh[n].from = r
      BY <1>1, <1>4, <2>1
    <3> QED  BY <3>1 DEF Receipts, NewReceipts
  <2>2. ASSUME RoomLeft, gh' = Opened(r), pub.at = "create", r = pub.req
        PROVE  NewReceipts(r) = {NextNumber}
    <3>1. Receipts(r) = {} /\ r \in Filers
      BY <2>2 DEF RequestsFit, Filers
    <3>2. \A n \in Numbers : gh'[n].from = r <=> n = NextNumber
      BY <1>4, <2>2, <3>1 DEF Receipts
    <3> QED  BY <1>4, <2>2, <3>1, <3>2 DEF NewReceipts
  <2>3. CASE \A n \in Numbers : gh'[n].from = gh[n].from
    BY <2>3 DEF Receipts, NewReceipts
  <2> QED  BY <1>1, <2>1, <2>2, <2>3, Filings
<1>7. \A n, m \in Numbers : gh'[n].from = gh'[m].from /\ gh'[n].from \in Requests => n = m
  <2>1. SUFFICES ASSUME NEW n \in Numbers, NEW m \in Numbers, gh'[n].from = gh'[m].from,
                        gh'[n].from \in Requests
                 PROVE  n = m
    OBVIOUS
  <2>2. PICK r \in Requests : gh'[n].from = r /\ gh'[m].from = r
    BY <2>1
  <2>3. n \in NewReceipts(r) /\ m \in NewReceipts(r)
    BY <2>2 DEF NewReceipts
  <2>4. \A j, k \in Receipts(r) : j = k
    BY <1>2 DEF Receipts
  <2> QED  BY <1>6, <2>3, <2>4
<1>8. ASSUME NEW r \in Requests
      PROVE  /\ req'[r].status \in {"none", "queued"} => NewReceipts(r) = {}
             /\ req'[r].status = "confirmed" => req'[r].num # 0 /\ gh'[req'[r].num].from = r
  <2>1. /\ req[r].status \in {"none", "queued"} => Receipts(r) = {}
        /\ req[r].status = "confirmed" => req[r].num # 0 /\ gh[req[r].num].from = r
    BY DEF RequestsFit
  <2>2. req[r].status = "confirmed" => gh'[req[r].num].from = r
    <3>1. req[r].status = "confirmed" => req[r].num \in Numbers
      BY <2>1 DEF Some
    <3> QED  BY <1>1, <1>3, <2>1, <3>1
  <2>3. CASE CreateIssue
    <3>1. req' = req /\ (r = pub.req => req[r].status \in {"uncertain", "confirmed"})
      BY <2>3 DEF CreateIssue, RequestsFit
    <3> QED  BY <1>6, <2>1, <2>2, <3>1
  <2>4. CASE ~CreateIssue
    <3>1. NewReceipts(r) = Receipts(r)
      BY <1>6, <2>4
    <3>2. CASE req'[r] = req[r]
      BY <2>1, <2>2, <3>1, <3>2
    <3>3. CASE ConfirmRequest /\ req'[r] # req[r]
      <4>1. /\ pub.req = r /\ pub.num # 0 /\ pub.at = "answer"
            /\ req' = [req EXCEPT ![pub.req] = [status |-> "confirmed", num |-> pub.num]] /\ gh' = gh
        BY <3>3 DEF ConfirmRequest, githubVars
      <4>2. gh[pub.num].from = pub.req
        BY <4>1 DEF RequestsFit
      <4> QED  BY <4>1, <4>2
    <3>4. ASSUME NEW q \in Requests, SubmitRequest(q) \/ PublishRequest(q), req'[r] # req[r]
          PROVE  /\ req'[r].status \in {"queued", "uncertain"}
                 /\ req'[r].status = "queued" => req[r].status = "none"
      BY <3>4 DEF SubmitRequest, PublishRequest
    <3> QED
      BY <2>1, <2>4, <3>1, <3>2, <3>3, <3>4, Frames DEF RequestFrame, FindRequest, Crash, storeVars
  <2> QED  BY <2>3, <2>4
<1> DEFINE PubFits ==
      /\ pub'.at # "idle" => pub'.req \in Requests /\ req'[pub'.req].status \in {"uncertain", "confirmed"}
      /\ pub'.at = "create" => NewReceipts(pub'.req) = {}
      /\ pub'.at = "answer" /\ pub'.num # 0 => gh'[pub'.num].from = pub'.req
<1>9. PubFits
  <2>0. /\ pub.at # "idle" => pub.req \in Requests /\ req[pub.req].status \in {"uncertain", "confirmed"}
        /\ pub.at = "create" => Receipts(pub.req) = {}
        /\ pub.at = "answer" /\ pub.num # 0 => gh[pub.num].from = pub.req
    BY DEF RequestsFit
  <2>1. CASE ConfirmRequest \/ Crash
    <3>1. pub' = IdlePub
      BY <2>1 DEF ConfirmRequest, Crash
    <3>2. pub'.at = "idle"
      BY <3>1 DEF IdlePub
    <3> QED  BY <3>2
  <2>2. CASE CreateIssue
    <3>1. /\ pub'.req = pub.req /\ pub'.at = "answer" /\ req' = req /\ pub.req \in Requests
          /\ req[pub.req].status \in {"uncertain", "confirmed"}
          /\ pub'.num # 0 => RoomLeft /\ gh' = Opened(pub.req) /\ pub'.num = NextNumber
      BY <2>0, <2>2 DEF CreateIssue, Answered
    <3>2. pub.req \in Filers
      BY <3>1 DEF Filers
    <3> QED  BY <1>4, <3>1, <3>2
  <2>3. CASE FindRequest
    <3> DEFINE n == CHOOSE n \in Receipts(pub.req) : TRUE
    <3>1. /\ pub'.req = pub.req /\ pub'.at = "answer" /\ req' = req /\ gh' = gh /\ pub.req \in Requests
          /\ req[pub.req].status \in {"uncertain", "confirmed"}
          /\ pub'.num # 0 => Cardinality(Receipts(pub.req)) = 1 /\ pub'.num = n
      BY <2>0, <2>3 DEF FindRequest, Answered
    <3>2. Cardinality(Receipts(pub.req)) = 1 => Receipts(pub.req) # {}
      BY OneIsSome
    <3>3. Receipts(pub.req) # {} => n \in Receipts(pub.req)
      OBVIOUS
    <3>4. pub'.num # 0 => gh[pub'.num].from = pub.req
      BY <3>1, <3>2, <3>3 DEF Receipts
    <3> QED  BY <3>1, <3>4
  <2>4. ASSUME NEW r \in Requests, PublishRequest(r)
        PROVE  PubFits
    <3>1. /\ pub'.req = r /\ pub'.at \in {"create", "find"} /\ gh' = gh
          /\ req'[r].status = "uncertain" /\ (pub'.at = "create" => req[r].status = "queued")
      BY <2>4 DEF PublishRequest, IdlePub, githubVars
    <3>2. req[r].status = "queued" => Receipts(r) = {}
      BY DEF RequestsFit
    <3> QED  BY <3>1, <3>2 DEF Receipts, NewReceipts
  <2>5. ASSUME pub' = pub, ~CreateIssue, pub.at # "idle" => req'[pub.req] = req[pub.req]
        PROVE  PubFits
    <3>1. pub.at = "answer" /\ pub.num # 0 => gh'[pub.num].from = pub.req
      <4>1. pub.at = "answer" /\ pub.num # 0 => pub.num \in Numbers
        BY DEF Some
      <4> QED  BY <1>1, <1>3, <2>0, <4>1
    <3>2. pub.at = "create" => NewReceipts(pub.req) = {}
      BY <1>6, <2>0, <2>5
    <3> QED  BY <2>0, <2>5, <3>1, <3>2
  <2>6. ASSUME NEW r \in Requests, SubmitRequest(r)
        PROVE  pub' = pub /\ ~CreateIssue /\ (pub.at # "idle" => req'[pub.req] = req[pub.req])
    BY <2>0, <2>6 DEF SubmitRequest, CreateIssue, Answered
  <2>7. CASE UNCHANGED <<req, pub>>
    <3>1. CASE CreateIssue
      BY <2>2, <3>1
    <3>2. CASE ~CreateIssue
      BY <2>5, <2>7, <3>2
    <3> QED  BY <3>1, <3>2
  <2> HIDE DEF PubFits
  <2> QED  BY <2>1, <2>2, <2>3, <2>4, <2>5, <2>6, <2>7, Frames DEF RequestFrame
<1> QED  BY <1>5, <1>7, <1>8, <1>9 DEF RequestsFit, Receipts, NewReceipts

\* A run of Issue Bot ends as it was, or replaces a job without a pull request,
\* or one whose pull request Town closed.
Ends(n) ==
  /\ n \in Numbers /\ (job[n].pr # 0 => pulls[job[n].pr] = "closed")
  /\ \/ \E p \in Pulls : /\ pulls[p] = "none" /\ pulls' = [pulls EXCEPT ![p] = "open"]
                         /\ job' = [job EXCEPT ![n] = [status |-> "submitted", pr |-> p]]
     \/ /\ pulls' = pulls
        /\ \E st \in {"pending", "blocked"} : job' = [job EXCEPT ![n] = [status |-> st, pr |-> 0]]

LEMMA RunEnds ==
  ASSUME IssuesInv, EndRun
  PROVE  UNCHANGED <<job, pulls>> \/ Ends(run.n)
<1>1. CASE ~Workable(job[run.n])
  BY <1>1 DEF EndRun
<1>2. CASE Workable(job[run.n])
  <2>1. run.n \in Numbers
    BY DEF EndRun, IssuesInv, WorkIsHoused, Typed, RunsTyped, Some
  <2>2. job[run.n].pr # 0 => pulls[job[run.n].pr] = "closed"
    <3>1. job[run.n].status \in {"none", "pending"} => job[run.n].pr = 0
      BY <2>1 DEF IssuesInv, PullsFit, JobFits
    <3> QED  BY <1>2, <3>1 DEF Workable, IssuesInv, Requeues
  <2> QED  BY <1>2, <2>1, <2>2 DEF EndRun, Ends
<1> QED  BY <1>1, <1>2

\* What happens to the pull requests and to the jobs that name them.
LEMMA PullMoves ==
  ASSUME IssuesInv, Next, NEW p \in Pulls
  PROVE  /\ \/ pulls'[p] = pulls[p]
            \/ pulls[p] = "none" /\ pulls'[p] = "open" /\ EndRun /\ Ends(run.n)
               /\ job' = [job EXCEPT ![run.n] = [status |-> "submitted", pr |-> p]]
            \/ pulls[p] = "open" /\ pulls'[p] = "closed" /\ ClosePull(p)
         /\ \A n \in Numbers :
              \/ job'[n].pr = job[n].pr
              \/ n = run.n /\ Ends(n) /\ (job'[n].pr = p => pulls[p] = "none" /\ pulls'[p] = "open")
         /\ \A n \in Numbers : JobFits(job'[n])
<1> USE DEF IssuesInv, Typed, GitHubTyped
<1>1. \A n \in Numbers : JobFits(job[n])
  BY DEF PullsFit
<1>2. ASSUME NEW n \in Numbers, RetryIssue(n)
      PROVE  pulls' = pulls /\ \A m \in Numbers : job'[m].pr = job[m].pr /\ JobFits(job'[m])
  BY <1>1, <1>2 DEF RetryIssue, githubVars, Jobs, JobFits
<1>3. ASSUME NEW q \in Pulls, ClosePull(q)
      PROVE  pulls' = [pulls EXCEPT ![q] = "closed"] /\ pulls[q] = "open" /\ job' = job
  BY <1>3 DEF ClosePull
<1>4. CASE EndRun
  <2>1. CASE UNCHANGED <<job, pulls>>
    BY <1>1, <2>1
  <2>2. ASSUME NEW q \in Pulls, Ends(run.n), pulls[q] = "none", pulls' = [pulls EXCEPT ![q] = "open"],
               job' = [job EXCEPT ![run.n] = [status |-> "submitted", pr |-> q]]
        PROVE  /\ \/ pulls'[p] = pulls[p]
                  \/ pulls[p] = "none" /\ pulls'[p] = "open"
                     /\ job' = [job EXCEPT ![run.n] = [status |-> "submitted", pr |-> p]]
               /\ \A n \in Numbers :
                    \/ job'[n].pr = job[n].pr
                    \/ n = run.n /\ Ends(n) /\ (job'[n].pr = p => pulls[p] = "none" /\ pulls'[p] = "open")
               /\ \A n \in Numbers : JobFits(job'[n])
    BY <1>1, <2>2, Zero DEF JobFits, Ends
  <2>3. ASSUME NEW st \in {"pending", "blocked"}, Ends(run.n), pulls' = pulls,
               job' = [job EXCEPT ![run.n] = [status |-> st, pr |-> 0]]
        PROVE  /\ \A n \in Numbers :
                    \/ job'[n].pr = job[n].pr
                    \/ n = run.n /\ Ends(n) /\ job'[n].pr # p
               /\ \A n \in Numbers : JobFits(job'[n])
    BY <1>1, <2>3, Zero DEF JobFits, Ends
  <2>4. UNCHANGED <<job, pulls>> \/ Ends(run.n)
    BY <1>4, RunEnds
  <2> QED  BY <1>4, <2>1, <2>2, <2>3, <2>4 DEF Ends
<1>5. CASE UNCHANGED <<job, pulls>>
  BY <1>1, <1>5
<1> QED
  BY <1>1, <1>2, <1>3, <1>4, <1>5, Frames DEF PullsFrame

LEMMA SyncMoves2 ==
  ASSUME IssuesInv, Next
  PROVE  sync' = sync \/ sync' = IdleSync \/ (sync'.by # "nobody" /\ sync'.jobs = job /\ sync.by = "nobody")
BY Frames DEF SyncFrame, StartPass, ImportAgain, ImportAfterRun, SyncIssues, Crash

LEMMA SyncOpen ==
  ASSUME IssuesInv, Next, sync'.by # "nobody"
  PROVE  sync' = sync \/ sync'.jobs = job
<1>1. IdleSync.by = "nobody"
  BY DEF IdleSync
<1> QED  BY <1>1, SyncMoves2

\* The only new name of a pull request is the job that opened it.
LEMMA NamesFit ==
  ASSUME IssuesInv, Next, NEW p \in Pulls, NEW n \in Numbers, Names(n, p)'
  PROVE  Names(n, p) \/ (pulls[p] = "none" /\ pulls'[p] = "open" /\ n = run.n)
<1> USE DEF IssuesInv, Typed
<1>1. CASE job'[n].pr = p
  <2>1. job[n].pr = p \/ (n = run.n /\ pulls[p] = "none" /\ pulls'[p] = "open")
    BY <1>1, PullMoves
  <2> QED  BY <2>1 DEF Names
<1>2. CASE sync'.jobs[n].pr = p
  BY <1>2, SyncMoves2, Zero DEF Names, IdleSync, NoJob
<1>3. CASE owned'[p] = n
  BY <1>3, OwnedGrows DEF Names
<1> QED  BY <1>1, <1>2, <1>3 DEF Names

LEMMA PullsFitStep ==
  ASSUME IssuesInv, Next
  PROVE  PullsFit'
<1> USE DEF IssuesInv, Typed, GitHubTyped
<1>1. \A n \in Numbers : JobFits(job'[n]) /\ JobFits(sync'.jobs[n])
  <2>1. \A n \in Numbers : JobFits(job[n]) /\ JobFits(sync.jobs[n])
    BY DEF PullsFit
  <2>2. \A n \in Numbers : JobFits(IdleSync.jobs[n])
    BY DEF JobFits, IdleSync, NoJob
  <2>3. \A n \in Numbers : JobFits(sync'.jobs[n])
    BY <2>1, <2>2, SyncMoves2
  <2>4. CASE Pulls # {}
    BY <2>3, <2>4, PullMoves
  <2>5. CASE Pulls = {}
    <3>1. \A n \in Numbers : JobFits(job'[n])
      <4>1. CASE EndRun
        <5>1. UNCHANGED <<job, pulls>> \/ Ends(run.n)
          BY <4>1, RunEnds
        <5>2. ASSUME Ends(run.n)
              PROVE  \A n \in Numbers : JobFits(job'[n])
          <6>1. PICK st \in {"pending", "blocked"} : job' = [job EXCEPT ![run.n] = [status |-> st, pr |-> 0]]
            BY <2>5, <5>2 DEF Ends
          <6>2. JobFits([status |-> st, pr |-> 0])
            BY DEF JobFits
          <6> QED  BY <2>1, <6>1, <6>2
        <5> QED  BY <2>1, <5>1, <5>2
      <4>2. ASSUME NEW n \in Numbers, RetryIssue(n)
            PROVE  \A m \in Numbers : JobFits(job'[m])
        BY <2>1, <4>2 DEF RetryIssue, Jobs, JobFits
      <4> QED  BY <2>1, <4>1, <4>2, Frames DEF PullsFrame
    <3> QED  BY <2>3, <3>1
  <2> QED  BY <2>4, <2>5
<1>2. ASSUME NEW p \in Pulls, NEW n \in Numbers, Names(n, p)'
      PROVE  pulls'[p] # "none"
  <2>1. Names(n, p) => pulls[p] # "none"
    BY DEF PullsFit
  <2> QED  BY <1>2, <2>1, NamesFit, PullMoves
<1>3. ASSUME NEW p \in Pulls, NEW n \in Numbers, NEW m \in Numbers, Names(n, p)', Names(m, p)'
      PROVE  n = m
  <2>1. /\ Names(n, p) \/ Names(m, p) => pulls[p] # "none"
        /\ Names(n, p) /\ Names(m, p) => n = m
    BY DEF PullsFit
  <2> QED  BY <1>3, <2>1, NamesFit
<1>4. ASSUME NEW p \in Pulls, pulls'[p] = "open"
      PROVE  \E n \in Numbers : job'[n].pr = p
  <2>1. CASE pulls[p] = "open"
    <3>1. PICK n \in Numbers : job[n].pr = p
      BY <2>1 DEF PullsFit
    <3>2. ~Ends(n)
      BY <2>1, <3>1, Zero DEF Ends
    <3> QED  BY <3>1, <3>2, PullMoves
  <2>2. CASE pulls[p] # "open"
    <3>1. run.n \in Numbers /\ job' = [job EXCEPT ![run.n] = [status |-> "submitted", pr |-> p]]
      BY <1>4, <2>2, PullMoves DEF Ends
    <3> QED  BY <3>1
  <2> QED  BY <2>1, <2>2
<1>5. sync'.by = "nobody" => sync' = IdleSync
  BY SyncMoves2 DEF PullsFit
<1>6. run'.at = "idle" => run' = NoRun
  BY Frames DEF SyncFrame, EndRun, ImportAfterRun, Crash, StartRun, PullsFit, RunsTyped
<1> QED  BY <1>1, <1>2, <1>3, <1>4, <1>5, <1>6 DEF PullsFit

\* An open pull request of Town's own is the one its issue's job names.
LEMMA OwnedIsNamed ==
  ASSUME IssuesInv, NEW p \in Pulls, NEW n \in Numbers, owned[p] = n, pulls[p] = "open"
  PROVE  job[n].pr = p
BY DEF IssuesInv, PullsFit, Names

\* Closing a pull request changes the task that starts over for it, if any.
LEMMA PullCloses ==
  ASSUME IssuesInv, NEW p \in Pulls, ClosePull(p)
  PROVE  \/ UNCHANGED task
         \/ /\ RequeuedIssue(p) /\ owned[p] \in Numbers
            /\ task'[owned[p]].requeue = p /\ task'[owned[p]].stage = "queued"
            /\ \A m \in Numbers : m # owned[p] => task'[m] = task[m]
<1>1. CASE ~RequeuedIssue(p)
  BY <1>1 DEF ClosePull
<1>2. CASE RequeuedIssue(p)
  <2> DEFINE u == [task[owned[p]] EXCEPT !.requeue = p, !.blocked = FALSE, !.dec = "",
                                         !.stage = "queued", !.house = "issue"]
  <2>1. owned[p] \in Numbers /\ task[owned[p]] \in Tasks /\ task \in [Numbers -> Tasks \cup {NoTask}]
    BY <1>2 DEF RequeuedIssue, Some, Known, IssuesInv, Typed, StoreTyped
  <2>2. Put(owned[p], u)
    BY <1>2 DEF ClosePull
  <2>3. u.requeue = p /\ u.stage = "queued"
    BY <2>1 DEF Tasks
  <2> HIDE DEF u
  <2>4. UNCHANGED task \/ task' = [task EXCEPT ![owned[p]] = u]
    BY <2>2 DEF Put, Commit
  <2> QED  BY <1>2, <2>1, <2>3, <2>4
<1> QED  BY <1>1, <1>2

LEMMA Requeued ==
  ASSUME IssuesInv, Next, NEW n \in Numbers, Known(n)'
  PROVE  \/ task'[n].requeue = 0 /\ (SyncIssues \/ ~Known(n))
         \/ Known(n) /\ task'[n].requeue = task[n].requeue
         \/ /\ Known(n) /\ task'[n].requeue \in Pulls /\ ClosePull(task'[n].requeue)
            /\ owned[task'[n].requeue] = n /\ pulls[task'[n].requeue] = "open"
<1> USE DEF IssuesInv, Typed, StoreTyped
<1>1. CASE ~Known(n)
  BY <1>1, TaskMoves DEF Moves, Arrived, Known
<1>2. CASE Known(n) /\ SyncIssues
  <2>1. task'[n] = Imported(task[n], sync.jobs[n])
    <3>1. Moves
      BY TaskMoves
    <3> QED  BY <1>2, <3>1 DEF SyncIssues, Commit, Moves
  <2>2. task[n] \in Tasks /\ Acceptable(task[n])
    BY <1>2 DEF Known, TasksFit
  <2>3. CASE sync.jobs[n] = NoJob
    <3>1. task'[n] = task[n]
      BY <2>1, <2>3 DEF Imported
    <3> QED  BY <1>2, <3>1
  <2>4. CASE sync.jobs[n] # NoJob
    <3>1. task[n].house = "issue" /\ sync.jobs[n] \in Jobs
      BY <1>2, <2>4 DEF WorkIsHoused, AtWork, RunsTyped
    <3>2. task'[n].requeue \in {0, task[n].requeue}
      BY <2>1, <2>2, <3>1, ImportedFits
    <3> QED  BY <1>2, <3>2
  <2> QED  BY <2>3, <2>4
<1>3. ASSUME NEW p \in Pulls, Known(n), ClosePull(p)
      PROVE  task'[n].requeue = task[n].requeue \/
             (task'[n].requeue = p /\ owned[p] = n /\ pulls[p] = "open")
  <2>1. pulls[p] = "open"
    BY <1>3 DEF ClosePull
  <2>2. UNCHANGED task \/ (task'[owned[p]].requeue = p /\ (n # owned[p] => task'[n] = task[n]))
    <3> HIDE DEF IssuesInv, Typed, StoreTyped
    <3> QED  BY <1>3, PullCloses
  <2> QED  BY <2>1, <2>2
<1>4. CASE Known(n) /\ ~SyncIssues /\ ~\E p \in Pulls : ClosePull(p)
  BY <1>4, TaskMoves DEF Moves, Kept
<1> QED  BY <1>1, <1>2, <1>3, <1>4

LEMMA RequeuesStep ==
  ASSUME IssuesInv, Next
  PROVE  Requeues'
<1> USE DEF IssuesInv, Typed, StoreTyped, GitHubTyped
<1>1. ASSUME NEW p \in Pulls, pulls[p] = "closed"
      PROVE  pulls'[p] = "closed"
  BY <1>1, PullMoves
<1>2. run'.superseded # 0 => pulls'[run'.superseded] = "closed"
  <2>1. run.superseded \in Pulls \cup {0}
    BY DEF RunsTyped
  <2>2. run.superseded # 0 => pulls'[run.superseded] = "closed"
    BY <1>1, <2>1 DEF Requeues
  <2>3. ASSUME NEW n \in Numbers, StartRun(n)
        PROVE  run'.superseded # 0 => pulls'[run'.superseded] = "closed"
    <3>1. run'.superseded = task[n].requeue /\ Known(n)
      BY <2>3 DEF StartRun
    <3>2. task[n].requeue \in Pulls \cup {0}
      BY <3>1 DEF Known, Tasks
    <3> QED  BY <1>1, <3>1, <3>2 DEF Requeues
  <2> QED
    BY <2>2, <2>3, Frames DEF SyncFrame, EndRun, ImportAfterRun, Crash, NoRun, RunsTyped
<1>3. ASSUME NEW n \in Numbers, Known(n)', task'[n].requeue # 0
      PROVE  pulls'[task'[n].requeue] = "closed"
  <2>1. CASE Known(n) /\ task'[n].requeue = task[n].requeue
    <3>1. task[n].requeue \in Pulls /\ pulls[task[n].requeue] = "closed"
      BY <1>3, <2>1 DEF Known, Tasks, Requeues
    <3> QED  BY <1>1, <2>1, <3>1
  <2>2. CASE task'[n].requeue \in Pulls /\ ClosePull(task'[n].requeue)
    BY <2>2 DEF ClosePull
  <2> QED  BY <1>3, <2>1, <2>2, Requeued
<1>4. ASSUME sync'.by # "nobody", NEW p \in Pulls, NEW n \in Numbers,
             owned'[p] = n, pulls'[p] = "open"
      PROVE  sync'.jobs[n].pr = p
  <2>1. ~SyncIssues
    BY <1>4 DEF SyncIssues, IdleSync
  <2>2. owned[p] = n
    BY <1>4, <2>1, OwnedGrows
  <2>3. pulls[p] = "open"
    <3>1. pulls[p] # "none"
      BY <2>2 DEF PullsFit, Names
    <3> QED  BY <1>4, <3>1, PullMoves
  <2>4. job[n].pr = p
    BY <2>2, <2>3, OwnedIsNamed
  <2>5. sync' = sync \/ sync'.jobs = job
    BY <1>4, SyncOpen
  <2>6. CASE sync' = sync
    BY <1>4, <2>2, <2>3, <2>6 DEF Requeues
  <2> QED  BY <2>4, <2>5, <2>6
<1>5. ASSUME sync'.by # "nobody", NEW n \in Numbers, Known(n)', task'[n].requeue # 0,
             job'[n].pr = task'[n].requeue
      PROVE  sync'.jobs[n] = NoJob \/ sync'.jobs[n].pr = task'[n].requeue
  <2> DEFINE p == task'[n].requeue
  <2>1. p \in Pulls /\ pulls'[p] = "closed" /\ pulls[p] # "none"
    <3>1. p \in Pulls
      BY <1>5, TaskMoves, IssuesAssumption DEF Moves, Known, Tasks
    <3> QED  BY <1>3, <1>5, <3>1, PullMoves
  <2>2. job[n].pr = p
    <3>1. job'[n].pr = p
      BY <1>5
    <3> HIDE DEF p
    <3> QED  BY <2>1, <3>1, PullMoves
  <2>3. CASE sync'.jobs = job
    BY <2>2, <2>3
  <2>4. CASE sync' = sync
    <3>1. CASE Known(n) /\ p = task[n].requeue
      BY <1>5, <2>2, <2>4, <3>1 DEF Requeues
    <3>2. CASE owned[p] = n /\ pulls[p] = "open"
      BY <1>5, <2>1, <2>4, <3>2 DEF Requeues
    <3> QED  BY <1>5, <3>1, <3>2, Requeued
  <2>5. sync' = sync \/ sync'.jobs = job
    BY <1>5, SyncOpen
  <2> QED  BY <2>3, <2>4, <2>5
<1> QED  BY <1>2, <1>3, <1>4, <1>5 DEF Requeues, Known

\* The pull request a pass closes is of an issue that counts as implemented,
\* which starts over, or that people closed.
LEMMA ClosingPull ==
  ASSUME IssuesInv, Next, NEW p \in Pulls, ClosePull(p), NEW n \in Numbers, Names(n, p)
  PROVE  /\ owned[p] = n /\ Known(n)
         /\ \/ "closed" \in past[n]
            \/ task'[n].requeue = p /\ task'[n].stage = "queued" /\ RequeuedIssue(p)
<1> USE DEF IssuesInv, Typed, StoreTyped
<1>1. p \in pass.prs /\ pass.at \in Later /\ pulls[p] = "open"
  BY DEF ClosePull, Later, Closing
<1>2. owned[p] # 0 /\ (task[owned[p]].stage = "implemented" \/ "closed" \in past[owned[p]])
  BY <1>1 DEF PassFits
<1>3. owned[p] = n
  BY <1>2 DEF PullsFit, Names, Some
<1>4. Known(n) /\ task[n] \in Tasks /\ Acceptable(task[n]) /\ task[n].house = "issue"
  BY <1>3 DEF WorkIsHoused, AtWork, TasksFit, Known
<1>5. ASSUME "closed" \notin past[n]
      PROVE  task'[n].requeue = p /\ task'[n].stage = "queued" /\ RequeuedIssue(p)
  <2>1. task[n].stage = "implemented" /\ task[n].dec # "declined"
    BY <1>2, <1>3, <1>4, <1>5, IssuesAssumption DEF Acceptable
  <2>2. task[n].requeue # p
    BY <1>1, <1>4, Zero DEF Requeues
  <2>3. \A q \in Pulls \ {p} : owned[q] = n => pulls[q] # "open"
    BY <1>1, <1>3, OwnedIsNamed
  <2>4. RequeuedIssue(p)
    BY <1>3, <1>4, <2>1, <2>2, <2>3, Zero DEF RequeuedIssue
  <2>5. task' # task
    <3>1. task'[n].requeue = p
      <4> DEFINE u == [task[n] EXCEPT !.requeue = p, !.blocked = FALSE, !.dec = "",
                                      !.stage = "queued", !.house = "issue"]
      <4>1. Put(n, u) /\ u.requeue = p
        BY <1>3, <1>4, <2>4 DEF ClosePull, Tasks
      <4> HIDE DEF u
      <4> QED  BY <4>1, TaskMoves DEF Put, Commit, Moves
    <3> QED  BY <2>2, <3>1
  <2> QED  BY <1>3, <2>4, <2>5, PullCloses
<1> QED  BY <1>3, <1>4, <1>5

LEMMA SyncSets ==
  ASSUME IssuesInv, Next, SyncIssues, NEW n \in Numbers
  PROVE  task'[n] = Imported(task[n], sync.jobs[n])
BY TaskMoves DEF SyncIssues, Commit, Moves

LEMMA ClosedRestartsStep ==
  ASSUME IssuesInv, Next
  PROVE  ClosedRestarts'
<1> USE DEF IssuesInv, Typed, StoreTyped, GitHubTyped, RunsTyped
\* What a job named and Town had closed still starts its issue over.
<1>1. ASSUME NEW n \in Numbers, NEW j \in Jobs, Restarting(n, j), j.pr # 0, pulls'[j.pr] = "closed",
             j = job[n] \/ j = sync.jobs[n], "closed" \notin past'[n],
             SyncIssues => j = job[n]
      PROVE  task'[n].requeue = j.pr
  <2> DEFINE p == j.pr
  <2>1. p \in Pulls /\ "closed" \notin past[n] /\ Names(n, p)
    BY <1>1, GitHubMoves DEF Jobs, Names
  <2>2. CASE pulls[p] # "closed"
    <3>1. ClosePull(p)
      BY <1>1, <2>1, <2>2, PullMoves
    <3> HIDE DEF p
    <3>2. task'[n].requeue = p
      BY <2>1, <3>1, ClosingPull
    <3> QED  BY <3>2 DEF p
  <2>3. CASE pulls[p] = "closed"
    <3>1. task[n].requeue = p /\ Known(n)
      BY <1>1, <2>1, <2>3, Zero DEF Restarting, WorkIsHoused, AtWork, Names, NoJob
    <3>2. CASE SyncIssues
      <4>1. task[n] \in Tasks /\ job[n].pr = p
        BY <1>1, <3>1, <3>2 DEF Known
      <4>2. sync.jobs[n] = NoJob \/ sync.jobs[n].pr = p
        BY <1>1, <3>1, <3>2, <4>1 DEF Requeues, SyncIssues
      <4>3. sync.jobs[n] # NoJob => StartingOver(task[n], sync.jobs[n])
        BY <1>1, <3>1, <4>2 DEF StartingOver
      <4>4. Imported(task[n], sync.jobs[n]).requeue = task[n].requeue
        <5>1. sync.jobs[n] \in Jobs
          OBVIOUS
        <5> QED  BY <4>1, <4>3, <5>1, ImportedStage
      <4>5. task'[n].requeue = task[n].requeue
        BY <3>2, <4>4, SyncSets
      <4> QED  BY <3>1, <4>5
    <3>3. ASSUME NEW q \in Pulls, ClosePull(q)
          PROVE  task'[n].requeue = p
      <4>1. CASE Names(n, q)
        <5>1. owned[q] = n /\ pulls[q] = "open"
          BY <3>3, <4>1, ClosingPull DEF ClosePull
        <5>2. job[n].pr = q /\ (sync.by # "nobody" => sync.jobs[n].pr = q)
          BY <5>1, OwnedIsNamed DEF Requeues
        <5>3. sync.by = "nobody" => sync.jobs[n].pr = 0
          BY DEF PullsFit, IdleSync, NoJob
        <5> QED  BY <1>1, <2>3, <5>1, <5>2, <5>3
      <4>2. CASE ~Names(n, q)
        <5>1. Known(n)' /\ ~(owned[q] = n)
          BY <3>1, <4>2, KnownStays DEF Names
        <5>2. ~SyncIssues
          BY <3>3 DEF ClosePull, SyncIssues, IdleSync, PullsFit
        <5>3. \A r \in Pulls : ClosePull(r) => r = q
          BY <3>3 DEF ClosePull
        <5>4. task'[n].requeue = task[n].requeue
          <6> HIDE DEF Typed, StoreTyped, GitHubTyped, RunsTyped, p
          <6> QED  BY <3>1, <5>1, <5>2, <5>3, Requeued
        <5> QED  BY <3>1, <5>4
      <4> QED  BY <4>1, <4>2
    <3>4. CASE ~SyncIssues /\ ~\E q \in Pulls : ClosePull(q)
      BY <3>1, <3>4, KnownStays DEF Kept
    <3> QED  BY <3>2, <3>3, <3>4
  <2> QED  BY <2>2, <2>3
<1>2. ASSUME NEW n \in Numbers, job'[n].pr # 0, pulls'[job'[n].pr] = "closed", "closed" \notin past'[n]
      PROVE  task'[n].requeue = job'[n].pr
  <2> DEFINE p == job'[n].pr
  <2>1. p \in Pulls
    <3>1. job'[n] \in Jobs
      BY GitHubTypedStep DEF GitHubTyped
    <3> QED  BY <1>2, <3>1 DEF Jobs
  <2>2. job[n].pr = p
    <3>1. job'[n].pr = p /\ pulls'[p] # "open"
      BY <1>2
    <3> HIDE DEF p
    <3> QED  BY <2>1, <3>1, PullMoves
  <2>3. Restarting(n, job[n])
    BY DEF ClosedRestarts
  <2> QED  BY <1>1, <1>2, <2>2, <2>3
<1>3. ASSUME NEW n \in Numbers, sync'.jobs[n].pr # 0, pulls'[sync'.jobs[n].pr] = "closed",
             "closed" \notin past'[n]
      PROVE  task'[n].requeue = sync'.jobs[n].pr
  <2>1. sync' # IdleSync
    BY <1>3 DEF IdleSync, NoJob
  <2>2. ~SyncIssues
    BY <2>1 DEF SyncIssues
  <2>3. Restarting(n, job[n]) /\ Restarting(n, sync.jobs[n])
    BY DEF ClosedRestarts
  <2>4. CASE sync' = sync
    BY <1>1, <1>3, <2>2, <2>3, <2>4
  <2>5. CASE sync'.jobs = job
    BY <1>1, <1>3, <2>2, <2>3, <2>5
  <2> QED  BY <2>1, <2>4, <2>5, SyncMoves2
<1> QED  BY <1>2, <1>3 DEF ClosedRestarts, Restarting

LEMMA ImplementedStep ==
  ASSUME IssuesInv, Next
  PROVE  ImplementedHasPull'
<1> USE DEF IssuesInv, Typed, StoreTyped, GitHubTyped, RunsTyped
<1>1. SUFFICES ASSUME NEW n \in Numbers, Known(n)', task'[n].stage = "implemented",
                      "closed" \notin past'[n]
               PROVE  \E p \in Pulls : owned'[p] = n /\ pulls'[p] = "open"
  BY DEF ImplementedHasPull
<1>2. "closed" \notin past[n]
  BY <1>1, GitHubMoves
<1>3. ASSUME Known(n), task[n].stage = "implemented"
      PROVE  \E p \in Pulls : owned'[p] = n /\ pulls'[p] = "open"
  <2>1. PICK p \in Pulls : owned[p] = n /\ pulls[p] = "open"
    BY <1>2, <1>3 DEF ImplementedHasPull
  <2>2. owned'[p] = n
    BY <2>1, OwnedStays
  <2>3. ~ClosePull(p)
    BY <1>1, <1>2, <2>1, ClosingPull DEF Names
  <2>4. pulls'[p] = "open"
    BY <2>1, <2>3, PullMoves
  <2> QED  BY <2>2, <2>4
<1>4. CASE Reconcile /\ ~(Known(n) /\ task[n].stage = "implemented")
  <2>1. task' = [m \in Numbers |-> Reconciled(m)]
    BY <1>4, TaskMoves DEF Reconcile, Commit, Moves
  <2>2. task'[n] = Reconciled(n) /\ Known(n)
    BY <1>1, <2>1, TaskMoves DEF Moves, Arrived, Known
  <2>3. ~(\A g \in pass.seen : g.n # n)
    BY <1>1, <1>4, <2>2 DEF Reconciled
  <2> DEFINE g == CHOOSE g \in pass.seen : g.n = n
             t == Observed(task[n], g)
  <2>4. Reconciled(n) = IF Implementing(n, t) THEN [t EXCEPT !.stage = "implemented"] ELSE t
    BY <2>2, <2>3 DEF Reconciled
  <2>5. g \in Observations
    BY <2>3 DEF Observations, SeenFits, Passes
  <2>6. t.stage # "implemented"
    BY <1>4, <2>2, <2>5, ObservedFits DEF Known, TasksFit
  <2>7. Implementing(n, t)
    BY <1>1, <2>2, <2>4, <2>6
  <2>8. PICK p \in pass.prs : owned[p] = n
    BY <2>7 DEF Implementing
  <2>9. p \in Pulls /\ pulls[p] = "open"
    BY <1>4 DEF Reconcile, PassFits, Passes
  <2>10. owned' = owned /\ pulls' = pulls
    BY <1>4 DEF Reconcile, githubVars
  <2> QED  BY <2>8, <2>9, <2>10
<1>5. CASE SyncIssues /\ ~(Known(n) /\ task[n].stage = "implemented")
  <2> DEFINE t == task[n]
             j == sync.jobs[n]
  <2>1. Known(n) /\ task'[n] = Imported(t, j) /\ t \in Tasks /\ j \in Jobs /\ t.stage # "implemented"
    BY <1>1, <1>5, SyncSets, TaskMoves DEF Moves, Arrived, Known
  <2>2. j # NoJob /\ ~StartingOver(t, j)
    BY <1>1, <2>1, ImportedStage
  <2>3. j.status = "submitted" /\ j.pr # 0
    <3>1. t.house = "issue" /\ Acceptable(t)
      BY <2>1, <2>2 DEF WorkIsHoused, AtWork, TasksFit
    <3>2. j.status = "submitted"
      BY <1>1, <2>1, <3>1, ImportedFits
    <3> QED  BY <3>2 DEF PullsFit, JobFits
  <2> DEFINE p == j.pr
  <2>4. p \in Pulls /\ Names(n, p) /\ pulls[p] # "none"
    BY <2>1, <2>3 DEF Jobs, Names, PullsFit
  <2>5. pulls[p] = "open"
    <3>1. Restarting(n, j)
      BY DEF ClosedRestarts
    <3>2. pulls[p] # "closed"
      BY <1>2, <2>2, <2>3, <3>1 DEF Restarting, StartingOver
    <3> QED  BY <2>4, <3>2 DEF States
  <2>6. owned'[p] = n
    <3>1. Submitted(n, j)
      BY <2>1, <2>2, <2>3 DEF Submitted, Known
    <3>2. j.pr = p
      OBVIOUS
    <3> HIDE DEF p
    <3> QED  BY <1>5, <2>4, <3>1, <3>2, OwnedBySync
  <2>7. pulls' = pulls
    BY <1>5 DEF SyncIssues, githubVars
  <2> QED  BY <2>4, <2>5, <2>6, <2>7
<1>6. CASE ~Reconcile /\ ~SyncIssues /\ ~(Known(n) /\ task[n].stage = "implemented")
  <2>1. Known(n)
    BY <1>1, TaskMoves DEF Moves, Arrived, Known
  <2>2. PICK p \in Pulls : ClosePull(p)
    BY <1>1, <1>6, <2>1, KnownStays DEF Kept
  <2>3. UNCHANGED task \/ task'[n] = task[n] \/ task'[n].stage = "queued"
    BY <2>2, PullCloses
  <2> QED  BY <1>1, <1>6, <2>1, <2>3
<1> QED  BY <1>3, <1>4, <1>5, <1>6

\* What a reconciled pass counts as Town's own is the work of implemented issues.
LEMMA PrsStay ==
  ASSUME IssuesInv, Next, pass.at \in Later, NEW p \in Pulls, p \in pass.prs
  PROVE  /\ owned'[p] # 0
         /\ pulls'[p] = "open" =>
              task'[owned'[p]].stage = "implemented" \/ "closed" \in past'[owned'[p]]
<1> DEFINE n == owned[p]
<1>0. /\ StoreTyped /\ GitHubTyped /\ RunsTyped /\ WorkIsHoused /\ PullsFit /\ Requeues
      /\ n # 0 /\ (pulls[p] = "open" => task[n].stage = "implemented" \/ "closed" \in past[n])
  BY DEF IssuesInv, Typed, PassFits
<1>1. n \in Numbers /\ owned'[p] = n /\ Known(n) /\ Names(n, p)
  <2>1. n \in Numbers
    BY <1>0 DEF StoreTyped, Some
  <2> QED  BY <1>0, <2>1, OwnedStays DEF WorkIsHoused, AtWork, Names
<1>2. SUFFICES ASSUME pulls'[p] = "open", "closed" \notin past'[n]
               PROVE  task'[n].stage = "implemented"
  BY <1>1, Zero
<1>3. pulls[p] = "open" /\ "closed" \notin past[n]
  BY <1>0, <1>1, <1>2, GitHubMoves, PullMoves DEF PullsFit
<1>4. task[n].stage = "implemented" /\ job[n].pr = p
  BY <1>0, <1>1, <1>3, OwnedIsNamed
<1> HIDE DEF n
<1>5. CASE SyncIssues
  <2>1. sync.jobs[n].pr = p /\ sync.jobs[n].status = "submitted" /\ sync.jobs[n] \in Jobs
    <3>1. sync.by # "nobody" /\ sync.jobs[n].pr = p
      BY <1>0, <1>1, <1>3, <1>5 DEF SyncIssues, Requeues, n
    <3> QED  BY <1>0, <1>1, <3>1, Zero DEF PullsFit, JobFits, RunsTyped
  <2>2. task[n] \in Tasks /\ task[n].requeue # p
    BY <1>0, <1>1, <1>3, Zero DEF Known, Requeues, StoreTyped
  <2>3. ~StartingOver(task[n], sync.jobs[n])
    BY <2>1, <2>2 DEF StartingOver
  <2>4. Imported(task[n], sync.jobs[n]).stage = "implemented"
    BY <1>4, <2>1, <2>2, <2>3, ImportedStage DEF Terminal
  <2> QED  BY <1>1, <1>5, <2>4, SyncSets
<1>6. ASSUME NEW q \in Pulls, ClosePull(q)
      PROVE  task'[n].stage = "implemented"
  <2>1. q # p /\ pulls[q] = "open"
    BY <1>0, <1>1, <1>2, <1>6 DEF ClosePull, GitHubTyped
  <2>2. owned[q] # n
    BY <1>1, <1>4, <2>1, OwnedIsNamed
  <2> QED  BY <1>1, <1>4, <1>6, <2>2, PullCloses
<1>7. CASE ~SyncIssues /\ ~\E q \in Pulls : ClosePull(q)
  <2>1. ~Reconcile
    BY DEF Reconcile, Later, Closing
  <2> QED  BY <1>1, <1>4, <1>7, <2>1, KnownStays DEF Kept
<1> QED  BY <1>5, <1>6, <1>7

\* What a step makes of the pass, field by field.
Sighted == {[n |-> n, st |-> gh[n].st, locked |-> gh[n].locked, from |-> gh[n].from] :
              n \in {m \in Numbers : gh[m].st # "none"}}
Candidates == {g.n : g \in {h \in pass.seen : /\ h.st = "open" /\ Known(h.n)
                                              /\ ClosableDecline(task[h.n])}}
PassIs(at, seen, prs, todo, n) ==
  /\ pass'.at = at /\ pass'.seen = seen /\ pass'.prs = prs /\ pass'.todo = todo /\ pass'.n = n
Goes(from, to) == pass.at = from /\ PassIs(to, pass.seen, pass.prs, pass.todo, pass.n)
Releases == PassIs("close", pass.seen, pass.prs, pass.todo, 0)
PassSteps ==
  \/ pass' = pass
  \/ PassIs("idle", {}, {}, {}, 0) /\ ~CloseIssue
  \/ StartPass /\ sync.by = "nobody" /\ PassIs("sync", {}, {}, {}, 0)
  \/ Observe /\ PassIs("read", Sighted, {p \in Pulls : pulls[p] = "open"}, pass.todo, pass.n)
  \/ Reconcile /\ pass.at = "read"
     /\ PassIs("import", pass.seen, {p \in pass.prs : owned[p] # 0}, pass.todo, pass.n)
  \/ ImportAgain /\ sync.by = "nobody" /\ Goes("import", "sync2")
  \/ SyncIssues /\ sync.by = "pass" /\ (Goes("sync", "observe") \/ Goes("sync2", "writes"))
  \/ StartClosing /\ pass.at = "writes" /\ PassIs("close", {}, pass.prs, Candidates, pass.n)
  \/ \E n \in pass.todo : ClaimDecline(n) /\ pass.at = "close" /\
       (\/ ClosableDecline(task[n]) /\ PassIs("call", pass.seen, pass.prs, pass.todo \ {n}, n)
        \/ ~ClosableDecline(task[n]) /\ PassIs("close", pass.seen, pass.prs, pass.todo \ {n}, pass.n))
  \/ CloseIssue /\ Goes("call", "accepted")
  \/ CloseIssue /\ Goes("call", "rejected") /\ UNCHANGED gh
  \/ CloseIssue /\ pass.at = "call" /\ Releases
  \/ SettleClose /\ pass.at \in {"accepted", "rejected"} /\ Releases

LEMMA PassMoves ==
  ASSUME IssuesInv, Next
  PROVE  PassSteps
<1>0. /\ pass \in Passes /\ pass' \in Passes /\ sync.by \in {"nobody", "pass", "run"}
      /\ sync.by = "pass" => pass.at \in {"sync", "sync2"}
  BY RunsTypedStep DEF IssuesInv, PassFits, Typed, RunsTyped
<1>1. IdlePass.at = "idle" /\ IdlePass.seen = {} /\ IdlePass.prs = {} /\ IdlePass.todo = {} /\ IdlePass.n = 0
  BY DEF IdlePass
<1> USE DEF Passes, PassSteps, PassIs, Goes, Releases
<1>2. CASE pass' = IdlePass
  <2>1. ~CloseIssue
    <3>1. CloseIssue => pass'.at \in {"accepted", "rejected", "close"}
      BY <1>0 DEF CloseIssue
    <3> QED  BY <1>1, <1>2, <3>1
  <2> QED  BY <1>1, <1>2, <2>1
<1>3. CASE StartPass
  <2>1. pass' = [IdlePass EXCEPT !.at = "sync"] /\ sync.by = "nobody"
    BY <1>3 DEF StartPass
  <2>2. PassIs("sync", {}, {}, {}, 0)
    BY <2>1 DEF IdlePass
  <2> QED  BY <1>3, <2>1, <2>2
<1>4. CASE Observe /\ pass' # IdlePass
  <2>1. PassIs("read", Sighted, {p \in Pulls : pulls[p] = "open"}, pass.todo, pass.n)
    BY <1>0, <1>4 DEF Observe, Sighted
  <2> QED  BY <1>4, <2>1
<1>5. CASE Reconcile
  <2>1. pass.at = "read" /\ PassIs("import", pass.seen, {p \in pass.prs : owned[p] # 0}, pass.todo, pass.n)
    BY <1>0, <1>5 DEF Reconcile
  <2> QED  BY <1>5, <2>1
<1>6. CASE ImportAgain
  BY <1>0, <1>6 DEF ImportAgain
<1>7. CASE SyncIssues
  BY <1>0, <1>7 DEF SyncIssues
<1>8. CASE StartClosing
  <2>1. pass.at = "writes" /\ PassIs("close", {}, pass.prs, Candidates, pass.n)
    BY <1>0, <1>8 DEF StartClosing, Candidates
  <2> QED  BY <1>8, <2>1
<1>9. ASSUME NEW n \in Numbers, ClaimDecline(n)
      PROVE  PassSteps
  <2>1. n \in pass.todo /\ pass.at = "close"
    BY <1>9 DEF ClaimDecline
  <2>2. CASE ClosableDecline(task[n])
    <3>1. PassIs("call", pass.seen, pass.prs, pass.todo \ {n}, n)
      BY <1>0, <1>9, <2>2 DEF ClaimDecline
    <3> QED  BY <1>9, <2>1, <2>2, <3>1
  <2>3. CASE ~ClosableDecline(task[n])
    <3>1. PassIs("close", pass.seen, pass.prs, pass.todo \ {n}, pass.n)
      BY <1>0, <1>9, <2>1, <2>3 DEF ClaimDecline
    <3> QED  BY <1>9, <2>1, <2>3, <3>1
  <2> QED  BY <2>2, <2>3
<1>10. CASE CloseIssue
  <2>1. pass.at = "call"
    BY <1>10 DEF CloseIssue
  <2>2. CASE pass' = [pass EXCEPT !.at = "accepted"]
    BY <1>0, <1>10, <2>1, <2>2
  <2>3. CASE pass' = [pass EXCEPT !.at = "rejected"] /\ UNCHANGED gh
    BY <1>0, <1>10, <2>1, <2>3
  <2>4. CASE pass' = [pass EXCEPT !.at = "close", !.n = 0]
    BY <1>0, <1>10, <2>1, <2>4
  <2> QED  BY <1>10, <2>2, <2>3, <2>4 DEF CloseIssue
<1>11. CASE SettleClose
  BY <1>0, <1>11 DEF SettleClose
<1> HIDE DEF PassSteps
<1>12. CASE pass' = pass
  BY <1>12 DEF PassSteps
<1> QED
  BY <1>2, <1>3, <1>4, <1>5, <1>6, <1>7, <1>8, <1>9, <1>10, <1>11, <1>12, Frames
     DEF PassFrame, EndPass, Quiet, Crash

LEMMA PassFitsStep ==
  ASSUME IssuesInv, Next
  PROVE  PassFits'
<1>0. /\ StoreTyped /\ GitHubTyped /\ RunsTyped /\ PassFits /\ PullsFit /\ TasksFit /\ WorkIsHoused
      /\ SeenFits /\ Requeues
  BY DEF IssuesInv, Typed
<1> USE DEF PassPlaces, Later, Closing
<1>1. ASSUME pass'.at = "read", NEW p \in pass'.prs
      PROVE  /\ pulls'[p] = "open"
             /\ \A n \in Numbers : Names(n, p)' => \E g \in pass'.seen : g.n = n
  <2>1. CASE Observe
    <3>1. /\ p \in Pulls /\ pulls[p] = "open" /\ UNCHANGED <<pulls, job, owned, sync>>
          /\ pass'.seen = {[n |-> n, st |-> gh[n].st, locked |-> gh[n].locked, from |-> gh[n].from] :
                             n \in {m \in Numbers : gh[m].st # "none"}}
      <4>1. pass'.seen = Sighted /\ pass'.prs = {q \in Pulls : pulls[q] = "open"}
        <5>1. pass.at = "observe"
          BY <2>1 DEF Observe
        <5> QED  BY <1>1, <5>1, PassMoves DEF PassSteps, PassIs, Goes, Releases
      <4> QED  BY <1>1, <2>1, <4>1 DEF Observe, storeVars, githubVars, Sighted
    <3>2. ASSUME NEW n \in Numbers, Names(n, p)
          PROVE  \E g \in pass'.seen : g.n = n
      <4>1. AtWork(n)
        BY <3>1, <3>2, Zero DEF Names, AtWork, NoJob
      <4>2. gh[n].st # "none"
        BY <1>0, <4>1 DEF WorkIsHoused, TasksFit
      <4> DEFINE g == [n |-> n, st |-> gh[n].st, locked |-> gh[n].locked, from |-> gh[n].from]
      <4>3. g \in pass'.seen /\ g.n = n
        BY <3>1, <4>2
      <4> QED  BY <4>3
    <3> QED  BY <3>1, <3>2 DEF Names
  <2>2. CASE pass' = pass /\ pass.at = "read"
    <3>1. p \in Pulls /\ pulls[p] = "open" /\ p \in pass.prs
      BY <1>0, <1>1, <2>2 DEF PassFits, RunsTyped, Passes
    <3>2. ~ClosePull(p)
      BY <2>2 DEF ClosePull
    <3>3. pulls'[p] = "open"
      BY <3>1, <3>2, PullMoves
    <3>4. ASSUME NEW n \in Numbers, Names(n, p)'
          PROVE  Names(n, p)
      BY <3>1, <3>4, NamesFit
    <3> QED  BY <1>0, <1>1, <2>2, <3>1, <3>3, <3>4 DEF PassFits
  <2>3. pass'.at = "read" => Observe \/ (pass' = pass /\ pass.at = "read")
    BY PassMoves DEF PassSteps, PassIs, Goes, Releases
  <2> QED  BY <1>1, <2>1, <2>2, <2>3
<1>2. ASSUME pass'.at \in Later, NEW p \in pass'.prs
      PROVE  /\ owned'[p] # 0
             /\ pulls'[p] = "open" =>
                  task'[owned'[p]].stage = "implemented" \/ "closed" \in past'[owned'[p]]
  <2>1. p \in Pulls
    BY <1>2, RunsTypedStep DEF RunsTyped, Passes
  <2>2. CASE pass.at \in Later /\ p \in pass.prs
    BY <2>1, <2>2, PrsStay
  <2>3. CASE Reconcile
    <3> DEFINE n == owned[p]
               g == CHOOSE g \in pass.seen : g.n = n
               t == Observed(task[n], g)
    <3>1. /\ p \in pass.prs /\ pass.at = "read" /\ n # 0 /\ pulls[p] = "open"
          /\ UNCHANGED <<owned, pulls, past>>
      <4>1. pass.at = "read"
        BY <2>3 DEF Reconcile
      <4>2. p \in pass.prs /\ n # 0
        BY <1>2, <2>3, <4>1, PassMoves DEF PassSteps, PassIs, Goes, Releases, Reconcile
      <4> QED  BY <1>0, <2>3, <4>1, <4>2 DEF Reconcile, githubVars, PassFits
    <3>2. n \in Numbers
      BY <1>0, <2>1, <3>1 DEF StoreTyped, Some
    <3>3. Known(n) /\ task[n] \in Tasks /\ Acceptable(task[n]) /\ task[n].house = "issue"
      BY <1>0, <2>1, <3>2 DEF WorkIsHoused, AtWork, TasksFit, Known, StoreTyped
    <3>4. \E g1 \in pass.seen : g1.n = n
      BY <1>0, <2>1, <3>1, <3>2 DEF PassFits, Names
    <3>5. g \in pass.seen /\ g.n = n
      BY <3>4
    <3> HIDE DEF g
    <3>6. /\ g \in Observations
          /\ g.st = "closed" => "closed" \in past[n] \/ Shut(task[n])
      BY <1>0, <3>5 DEF SeenFits, Observations, RunsTyped, Passes
    <3>7. /\ t \in Tasks /\ t.requeue = task[n].requeue
          /\ t.stage = "closed" => g.st = "closed"
      BY <3>3, <3>6, ObservedFits
    <3>8. ~Shut(task[n])
      BY <3>3 DEF Shut
    <3>9. t.requeue # p
      BY <1>0, <2>1, <3>1, <3>2, <3>3, <3>7, Zero DEF Requeues
    <3>10. task'[n] = Reconciled(n)
      BY <2>3, <3>2, TaskMoves DEF Reconcile, Commit, Moves
    <3>11. Reconciled(n) = IF Implementing(n, t) THEN [t EXCEPT !.stage = "implemented"] ELSE t
      BY <3>3, <3>4 DEF Reconciled, g
    <3>12. CASE t.stage # "closed"
      <4>1. Implementing(n, t)
        BY <3>1, <3>9, <3>12 DEF Implementing
      <4>2. task'[n] = [t EXCEPT !.stage = "implemented"]
        BY <3>10, <3>11, <4>1
      <4> HIDE DEF t
      <4>3. task'[n].stage = "implemented"
        BY <3>7, <4>2 DEF Tasks
      <4> QED  BY <3>1, <4>3
    <3>13. CASE t.stage = "closed"
      BY <3>1, <3>6, <3>7, <3>8, <3>13
    <3> QED  BY <3>12, <3>13
  <2> QED  BY <1>2, <2>2, <2>3, PassMoves DEF PassSteps, PassIs, Goes, Releases
<1>3. sync'.by = "pass" => pass'.at \in {"sync", "sync2"}
  <2>1. SUFFICES ASSUME sync'.by = "pass" PROVE pass'.at \in {"sync", "sync2"}
    OBVIOUS
  <2>2. IdleSync.by = "nobody"
    BY DEF IdleSync
  <2>3. CASE StartPass \/ ImportAgain
    <3>1. StartPass => pass'.at = "sync"
      BY DEF StartPass, IdlePass
    <3>2. ImportAgain => pass'.at = "sync2"
      BY <1>0 DEF ImportAgain, RunsTyped, Passes
    <3> QED  BY <2>3, <3>1, <3>2
  <2>4. CASE sync' = sync /\ ~SyncIssues /\ ~Crash
    <3>1. pass.at \in {"sync", "sync2"}
      BY <1>0, <2>1, <2>4 DEF PassFits
    <3>2. pass' # pass => StartPass \/ ImportAgain
      BY <2>4, <3>1, Frames DEF PassFrame, Observe, Reconcile, StartClosing, SettleClose, CloseIssue,
         EndPass, Quiet, ClaimDecline
    <3> QED  BY <2>3, <3>1, <3>2
  <2>5. ~SyncIssues /\ ~Crash /\ ~ImportAfterRun
    BY <2>1, <2>2 DEF SyncIssues, Crash, ImportAfterRun
  <2> QED  BY <2>3, <2>4, <2>5, Frames DEF SyncFrame
<1>4. pass'.at \in {"idle", "sync", "observe"} \cup Closing => pass'.seen = {}
  <2>1. pass.at \in {"idle", "sync", "observe"} \cup Closing => pass.seen = {}
    BY <1>0 DEF PassFits
  <2> QED  BY <2>1, PassMoves DEF PassSteps, PassIs, Goes, Releases
<1> QED  BY <1>1, <1>2, <1>3, <1>4 DEF PassFits, Names

LEMMA ClosesFitStep ==
  ASSUME IssuesInv, Next
  PROVE  ClosesFit'
<1>0. ClosesFit /\ TasksFit /\ ClaimFits
  BY DEF IssuesInv
<1>1. ASSUME NEW n \in Numbers, TownClosed(n)'
      PROVE  Shut(task'[n])
  <2>1. CASE TownClosed(n)
    <3>1. Known(n)
      BY <1>0, <2>1 DEF ClosesFit, Shut, Known
    <3> QED  BY <2>1, <3>1, KnownStays DEF Kept
  <2>2. CASE CloseIssue /\ n = pass.n
    BY <1>0, <2>2 DEF CloseIssue, ClaimFits, storeVars
  <2> QED  BY <1>1, <2>1, <2>2, GitHubMoves
<1>2. ASSUME NEW n \in Numbers, gh'[n].locked
      PROVE  "locked" \in past'[n]
  BY <1>0, <1>2, GitHubMoves DEF ClosesFit
<1>3. ASSUME NEW n \in Numbers, Known(n)', task'[n].stage = "locked"
      PROVE  "locked" \in past'[n]
  <2>1. "locked" \in past[n]
    BY <1>3, TaskMoves DEF Moves, Kept, Arrived, Known
  <2> QED  BY <2>1, GitHubMoves
<1> QED  BY <1>1, <1>2, <1>3 DEF ClosesFit

LEMMA SeenFitsStep ==
  ASSUME IssuesInv, Next
  PROVE  SeenFits'
<1>0. /\ ClosesFit /\ TasksFit /\ SeenFits /\ PassFits /\ pass.seen \subseteq Sightings
      /\ gh \in [Numbers -> [st : States, locked : BOOLEAN, from : Filers \cup {Nobody}]]
  BY DEF IssuesInv, Typed, RunsTyped, Passes, GitHubTyped
<1>1. CASE pass'.seen = {}
  BY <1>1 DEF SeenFits
<1>2. CASE Observe /\ pass'.seen = Sighted
  <2>1. UNCHANGED <<gh, task, past>>
    BY <1>2 DEF Observe, storeVars, githubVars
  <2>2. ASSUME NEW g \in Sighted
        PROVE  /\ g.n \in Numbers /\ g.st = gh[g.n].st /\ g.locked = gh[g.n].locked
               /\ g.from = gh[g.n].from /\ g.st # "none"
               /\ g = [n |-> g.n, st |-> gh[g.n].st, locked |-> gh[g.n].locked, from |-> gh[g.n].from]
    BY <2>2 DEF Sighted
  <2>3. ASSUME NEW g \in Sighted
        PROVE  /\ g.locked => "locked" \in past[g.n]
               /\ g.st = "open" => ~TownClosed(g.n)
               /\ g.st = "closed" => "closed" \in past[g.n] \/ Shut(task[g.n])
    BY <1>0, <2>2 DEF TownClosed, ClosesFit
  <2>4. \A n \in Numbers : TownClosed(n)' <=> TownClosed(n)
    BY <2>1 DEF TownClosed
  <2>5. \A g, h \in Sighted : g.n = h.n => g = h
    <3>1. SUFFICES ASSUME NEW g \in Sighted, NEW h \in Sighted, g.n = h.n PROVE g = h
      OBVIOUS
    <3>2. /\ g = [n |-> g.n, st |-> gh[g.n].st, locked |-> gh[g.n].locked, from |-> gh[g.n].from]
          /\ h = [n |-> h.n, st |-> gh[h.n].st, locked |-> gh[h.n].locked, from |-> gh[h.n].from]
      BY <2>2
    <3> QED  BY <3>1, <3>2
  <2>6. \A g \in Sighted :
          /\ g.st # "none" /\ gh'[g.n].st # "none" /\ gh'[g.n].from = g.from
          /\ g.locked => "locked" \in past'[g.n]
          /\ g.st = "open" => ~TownClosed(g.n)'
          /\ g.st = "closed" => "closed" \in past'[g.n] \/ Shut(task'[g.n])
    BY <2>1, <2>2, <2>3, <2>4
  <2> QED  BY <1>2, <2>5, <2>6 DEF SeenFits, TownClosed
<1>3. CASE pass'.seen = pass.seen /\ pass.seen # {}
  <2>1. pass.at \notin {"idle", "sync", "observe"} \cup Closing
    BY <1>0, <1>3 DEF PassFits
  <2>2. ASSUME NEW g \in pass.seen
        PROVE  /\ gh'[g.n].st # "none" /\ gh'[g.n].from = g.from
               /\ g.locked => "locked" \in past'[g.n]
               /\ g.st = "open" => ~TownClosed(g.n)'
               /\ g.st = "closed" => "closed" \in past'[g.n] \/ Shut(task'[g.n])
    <3> DEFINE n == g.n
    <3>1. n \in Numbers /\ gh[n].st # "none" /\ gh[n].from = g.from
      BY <1>0 DEF SeenFits, Sightings
    <3>2. /\ g.locked => "locked" \in past[n]
          /\ g.st = "open" => ~TownClosed(n)
          /\ g.st = "closed" => "closed" \in past[n] \/ Shut(task[n])
      BY <1>0 DEF SeenFits
    <3>3. ~CloseIssue
      BY <2>1 DEF CloseIssue, Closing
    <3>4. g.st = "closed" => ~\E h \in pass.seen : h.n = n /\ h.st = "open"
      BY <1>0 DEF SeenFits
    <3>5. ASSUME Shut(task[n]), g.st = "closed"
          PROVE  Shut(task'[n])
      <4>1. Known(n)
        BY <3>5 DEF Shut, Known
      <4>2. pass.at # "rejected"
        BY <2>1 DEF Closing
      <4> HIDE DEF n
      <4> QED  BY <3>1, <3>4, <3>5, <4>1, <4>2, KnownStays DEF Kept
    <3> HIDE DEF n
    <3>6. /\ gh'[n].st # "none" /\ gh'[n].from = gh[n].from /\ past[n] \subseteq past'[n]
          /\ TownClosed(n)' => TownClosed(n)
      BY <3>1, <3>3, GitHubMoves
    <3>7. n = g.n
      BY DEF n
    <3> QED  BY <3>1, <3>2, <3>5, <3>6, <3>7 DEF TownClosed
  <2>3. /\ \A g, h \in pass.seen : g.n = h.n => g = h
        /\ \A g \in pass.seen : g.st # "none"
    BY <1>0 DEF SeenFits
  <2> QED  BY <1>3, <2>2, <2>3 DEF SeenFits, TownClosed
<1> QED  BY <1>1, <1>2, <1>3, PassMoves DEF PassSteps, PassIs, Goes, Releases

LEMMA ClaimFitsStep ==
  ASSUME IssuesInv, Next
  PROVE  ClaimFits'
<1>0. /\ ClaimFits /\ SeenFits /\ TasksFit /\ pass \in Passes
  BY DEF IssuesInv, Typed, RunsTyped
<1>1. ASSUME pass'.at \in {"call", "accepted", "rejected"}
      PROVE  /\ pass'.n # 0 /\ pass'.n \notin pass'.todo
             /\ Shut(task'[pass'.n]) /\ ClosableDecline(task'[pass'.n])
  <2>1. CASE pass' = pass
    <3>1. /\ pass.n # 0 /\ pass.n \notin pass.todo /\ Shut(task[pass.n]) /\ ClosableDecline(task[pass.n])
      BY <1>0, <1>1, <2>1 DEF ClaimFits
    <3>2. pass.n \in Numbers /\ Known(pass.n)
      BY <1>0, <3>1 DEF Passes, Some, Shut, Known
    <3>3. Kept(pass.n)
      BY <3>2, KnownStays
    <3> QED  BY <2>1, <3>1, <3>3 DEF Kept
  <2>2. CASE CloseIssue /\ pass.at = "call" /\ pass'.n = pass.n /\ pass'.todo = pass.todo
    BY <1>0, <2>2 DEF ClaimFits, CloseIssue, storeVars
  <2>3. ASSUME NEW n \in pass.todo, ClaimDecline(n), ClosableDecline(task[n]),
               PassIs("call", pass.seen, pass.prs, pass.todo \ {n}, n)
        PROVE  /\ pass'.n # 0 /\ pass'.n \notin pass'.todo
               /\ Shut(task'[pass'.n]) /\ ClosableDecline(task'[pass'.n])
    <3> DEFINE t == task[n]
               u == [t EXCEPT !.stage = ClaimedStage(t)]
    <3>1. n \in Numbers /\ Known(n)
      BY <1>0, <2>3 DEF Passes, ClaimFits, ClaimDecline, Closing
    <3>2. t \in Tasks /\ Acceptable(t) /\ task \in [Numbers -> Tasks \cup {NoTask}]
      BY <1>0, <3>1 DEF IssuesInv, Typed, StoreTyped, Known, TasksFit
    <3>3. /\ u \in Tasks /\ u.stage = ClaimedStage(t) /\ u.house = t.house /\ u.dec = t.dec
          /\ u.simp = t.simp /\ u.ext = t.ext
      BY <3>2 DEF ClaimedStage, Tasks, Stages
    <3>4. task'[n] = u
      <4>1. Put(n, u)
        BY <2>3 DEF ClaimDecline
      <4> HIDE DEF u
      <4> QED  BY <3>1, <3>2, <4>1, TaskMoves DEF Put, Commit, Moves
    <3>5. t.dec = "declined" => t.house = "hall"
      BY <3>2, IssuesAssumption DEF Acceptable
    <3>6. Shut(u) /\ ClosableDecline(u)
      <4> HIDE DEF u
      <4> QED  BY <2>3, <3>3, <3>5, IssuesAssumption DEF Shut, ClosableDecline, ClaimedStage, AutoDeclined
    <3> QED  BY <2>3, <3>1, <3>4, <3>6, Zero DEF PassIs
  <2> QED  BY <1>1, <2>1, <2>2, <2>3, PassMoves DEF PassSteps, PassIs, Goes, Releases
<1>2. ASSUME NEW n \in Numbers, pass'.at \in Closing, n \in pass'.todo
      PROVE  Known(n)' /\ ~TownClosed(n)'
  <2>1. Known(n) /\ ~TownClosed(n) /\ (CloseIssue => n # pass.n)
    <3>1. CASE pass.at \in Closing /\ n \in pass.todo
      BY <1>0, <3>1 DEF ClaimFits, CloseIssue
    <3>2. CASE StartClosing /\ n \in Candidates
      <4>1. PICK g \in pass.seen : g.st = "open" /\ Known(g.n) /\ n = g.n
        BY <3>2 DEF Candidates
      <4>2. ~CloseIssue
        BY <3>2 DEF StartClosing, CloseIssue
      <4> QED  BY <1>0, <4>1, <4>2 DEF SeenFits
    <3> QED  BY <1>2, <3>1, <3>2, PassMoves DEF PassSteps, PassIs, Goes, Releases, Closing
  <2> QED  BY <2>1, KnownStays, GitHubMoves
<1>3. ASSUME pass'.at \in {"call", "rejected"}, NEW m \in Numbers, m = pass'.n
      PROVE  ~(gh'[m].st = "closed" /\ "closed" \notin past'[m])
  <2>1. ASSUME ~TownClosed(m), ~CloseIssue
        PROVE  ~(gh'[m].st = "closed" /\ "closed" \notin past'[m])
    <3>1. TownClosed(m)' => TownClosed(m)
      BY <2>1, GitHubMoves
    <3> QED  BY <2>1, <3>1 DEF TownClosed
  <2>2. CASE pass' = pass
    <3>1. ~CloseIssue
      BY <1>0, <1>3, <2>2 DEF CloseIssue, Passes
    <3>2. ~TownClosed(m)
      BY <1>0, <1>3, <2>2 DEF ClaimFits
    <3> QED  BY <2>1, <3>1, <3>2
  <2>3. CASE CloseIssue /\ Goes("call", "rejected") /\ UNCHANGED gh
    <3>1. past' = past /\ m = pass.n
      BY <1>3, <2>3 DEF CloseIssue, Goes, PassIs
    <3>2. ~TownClosed(pass.n)
      BY <1>0, <2>3 DEF ClaimFits, Goes
    <3> QED  BY <2>3, <3>1, <3>2 DEF TownClosed
  <2>4. ASSUME NEW n \in pass.todo, pass.at = "close", pass'.n = n
        PROVE  ~(gh'[m].st = "closed" /\ "closed" \notin past'[m])
    <3>1. ~CloseIssue
      BY <2>4 DEF CloseIssue
    <3>2. ~TownClosed(m)
      BY <1>0, <1>3, <2>4 DEF ClaimFits, Closing
    <3> QED  BY <2>1, <3>1, <3>2
  <2>5. \/ pass' = pass
        \/ CloseIssue /\ Goes("call", "rejected") /\ UNCHANGED gh
        \/ \E n \in pass.todo : pass.at = "close" /\ pass'.n = n
    BY <1>3, PassMoves DEF PassSteps, PassIs, Goes, Releases
  <2> QED  BY <2>2, <2>3, <2>4, <2>5
<1>4. pass'.at \in {"call", "rejected"} => ~(gh'[pass'.n].st = "closed" /\ "closed" \notin past'[pass'.n])
  <2>1. pass' \in Passes
    BY RunsTypedStep DEF RunsTyped
  <2> QED  BY <1>1, <1>3, <2>1 DEF Passes, Some
<1>5. \A n \in pass'.todo : n \in Numbers
  BY RunsTypedStep DEF RunsTyped, Passes
<1> QED  BY <1>1, <1>2, <1>4, <1>5 DEF ClaimFits, TownClosed, Known

\* A settled close is recorded as closed, and the record lasts until someone
\* decides.
LEMMA SettledFitsStep ==
  ASSUME IssuesInv, Next
  PROVE  SettledFits'
<1>1. ASSUME NEW n \in settled'
      PROVE  Known(n)' /\ ("locked" \in past'[n] \/ Appealing(task'[n]))
  <2>1. n \in Numbers
    BY StoreTypedStep DEF StoreTyped
  <2>2. Known(n)
    BY <1>1, <2>1, TaskMoves DEF Moves, Arrived
  <2>3. Known(n)' /\ ("locked" \in past[n] \/ Appealing(task'[n]))
    BY <1>1, <2>1, <2>2, KnownStays DEF Kept
  <2> QED  BY <2>1, <2>3, GitHubMoves
<1> QED  BY <1>1 DEF SettledFits, Known

\* A task enters Issue Bot's house through the intake alone.
LEMMA IntakeFitsStep ==
  ASSUME IssuesInv, Next
  PROVE  IntakeFits'
<1>1. ASSUME NEW n \in Numbers, Known(n)', task'[n].house = "issue"
      PROVE  \/ task'[n].simp = "admit" \/ task'[n].dec = "admitted"
             \/ gh'[n].from \in Requests \cup {"simplifier"}
             \/ \E p \in Pulls : owned'[p] = n
  <2>1. CASE ~Known(n)
    <3>1. Arrived(n) /\ task'[n] # NoTask
      BY <1>1, <2>1, TaskMoves DEF Moves, Known
    <3> QED  BY <1>1, <3>1, GitHubMoves DEF Arrived
  <2>2. CASE Known(n) /\ task[n].house = "issue"
    <3>1. \/ task[n].simp = "admit" \/ task[n].dec = "admitted"
          \/ gh[n].from \in Requests \cup {"simplifier"}
          \/ \E p \in Pulls : owned[p] = n
      BY <2>2 DEF IssuesInv, IntakeFits, PassedIntake
    <3>2. /\ task'[n].simp = task[n].simp
          /\ task'[n].dec = task[n].dec \/ \E p \in Pulls : owned[p] = n
          /\ gh'[n].from = gh[n].from
      BY <2>2, KnownStays DEF Kept
    <3>3. (\E p \in Pulls : owned[p] = n) => \E p \in Pulls : owned'[p] = n
      BY OwnedStays
    <3> QED  BY <3>1, <3>2, <3>3
  <2>3. CASE Known(n) /\ task[n].house # "issue"
    BY <1>1, <2>3, KnownStays DEF Kept
  <2> QED  BY <2>1, <2>2, <2>3
<1> QED  BY <1>1 DEF IntakeFits, PassedIntake, Known

-----------------------------------------------------------------------------
(***************************************************************************)
(* Theorems.                                                                *)
(***************************************************************************)
LEMMA IssuesInit ==
  ASSUME Init
  PROVE  IssuesInv
<1> USE DEF Init, NoJob, Absent, IdlePub, IdlePass, IdleSync, NoSim, NoRun
<1>1. \A n \in Numbers : ~Known(n) /\ ~AtWork(n)
  BY Zero DEF Known, AtWork
<1>2. Typed
  <2>1. StoreTyped
    BY Zero DEF StoreTyped, Some
  <2>2. GitHubTyped
    BY DEF GitHubTyped, States, Jobs
  <2>3. RunsTyped
    <3>1. sync \in [by : {"nobody", "pass", "run"}, jobs : [Numbers -> Jobs]]
      BY DEF Jobs
    <3>2. pass \in Passes
      BY DEF Passes, PassPlaces, Later, Closing, Some
    <3> QED  BY <3>1, <3>2 DEF RunsTyped, Some, States
  <2> QED  BY <2>1, <2>2, <2>3 DEF Typed
<1>3. TasksFit /\ SettledFits /\ IntakeFits /\ SeenFits
  BY <1>1 DEF TasksFit, SettledFits, IntakeFits, SeenFits
<1>4. WorkIsHoused
  BY <1>1 DEF WorkIsHoused
<1>5. \A r \in Requests : Receipts(r) = {}
  BY IssuesAssumption DEF Receipts
<1>6. RequestsFit
  BY <1>5, IssuesAssumption DEF RequestsFit
<1>7. \A p \in Pulls, n \in Numbers : ~Names(n, p)
  BY Zero DEF Names
<1>8. PullsFit
  BY <1>7, Zero DEF PullsFit, JobFits
<1>9. Requeues /\ ClosedRestarts /\ ImplementedHasPull
  BY <1>1 DEF Requeues, ClosedRestarts, Restarting, ImplementedHasPull
<1>10. PassFits /\ ClaimFits
  BY DEF PassFits, ClaimFits, Later, Closing
<1>11. ClosesFit
  BY <1>1 DEF ClosesFit, TownClosed
<1> QED  BY <1>2, <1>3, <1>4, <1>6, <1>8, <1>9, <1>10, <1>11 DEF IssuesInv

\* Every step of the issues' life keeps the inductive invariant: what the pass,
\* the publisher, the bots' runs and people do in any order and after any crash.
LEMMA IssuesStep ==
  ASSUME IssuesInv, [Next]_vars
  PROVE  IssuesInv'
<1>1. CASE Next
  BY <1>1, StoreTypedStep, GitHubTypedStep, RunsTypedStep, TasksFitStep, WorkIsHousedStep,
     RequestsFitStep, PullsFitStep, RequeuesStep, ClosedRestartsStep, ImplementedStep,
     PassFitsStep, ClosesFitStep, SeenFitsStep, ClaimFitsStep, SettledFitsStep, IntakeFitsStep
     DEF IssuesInv, Typed
<1>2. CASE UNCHANGED vars
  <2> USE <1>2 DEF vars, storeVars, githubVars, runVars, IssuesInv, Known, TownClosed
  <2>1. Typed' /\ TasksFit' /\ WorkIsHoused' /\ RequestsFit'
    BY DEF Typed, StoreTyped, GitHubTyped, RunsTyped, TasksFit, WorkIsHoused, AtWork,
           RequestsFit, Receipts
  <2>2. PullsFit' /\ Requeues' /\ ClosedRestarts' /\ ImplementedHasPull'
    BY DEF PullsFit, Names, Requeues, ClosedRestarts, Restarting, ImplementedHasPull
  <2>3. PassFits' /\ ClosesFit' /\ SeenFits' /\ ClaimFits'
    BY DEF PassFits, Names, ClosesFit, SeenFits, ClaimFits
  <2>4. SettledFits' /\ IntakeFits'
    BY DEF SettledFits, IntakeFits, PassedIntake
  <2> QED  BY <2>1, <2>2, <2>3, <2>4
<1> QED  BY <1>1, <1>2

\* The inductive invariant holds of every behaviour of the issues.
THEOREM IssuesInvariant == Spec => []IssuesInv
<1>1. Init => IssuesInv
  BY IssuesInit
<1>2. IssuesInv /\ [Next]_vars => IssuesInv'
  BY IssuesStep
<1> QED  BY <1>1, <1>2, PTL DEF Spec

\* The store's validation refuses no Update of these handlers, whatever they
\* interleave with: tasks keep their shape, and a confirmed request names the
\* issue that was filed for it (validate, confirmRequest).
THEOREM IssuesTyped == Spec => []TypeOK
<1>1. IssuesInv => TypeOK
  <2> SUFFICES ASSUME IssuesInv PROVE TypeOK
    OBVIOUS
  <2>1. ASSUME NEW n \in Numbers, Known(n)
        PROVE  task[n] \in Tasks /\ gh[n].st # "none"
    BY <2>1 DEF IssuesInv, Typed, StoreTyped, TasksFit, Known
  <2>2. ~refused /\ \A r \in Requests : req[r].status = "confirmed" => gh[req[r].num].from = r
    BY DEF IssuesInv, Typed, StoreTyped, RequestsFit
  <2> QED  BY <2>1, <2>2 DEF TypeOK, Tasks
<1> QED  BY <1>1, IssuesInvariant, PTL

\* A submission becomes at most one issue over any number of lost answers and
\* restarts, and an issue counted as implemented has an open pull request of
\* Town's own (publishRequest, reconcileIssue, closeRetiredPulls).
THEOREM IssueWorkIsBacked == Spec => []WorkIsBacked
<1>1. IssuesInv => WorkIsBacked
  <2> SUFFICES ASSUME IssuesInv PROVE WorkIsBacked
    OBVIOUS
  <2>1. ASSUME NEW r \in Requests
        PROVE  Cardinality(Receipts(r)) <= 1
    <3>1. \A n, m \in Receipts(r) : n = m
      BY DEF Receipts, IssuesInv, RequestsFit
    <3>2. CASE Receipts(r) = {}
      BY <3>2, FS_EmptySet
    <3>3. CASE Receipts(r) # {}
      <4>1. PICK n \in Receipts(r) : Receipts(r) = {n}
        BY <3>1, <3>3
      <4> QED  BY <4>1, FS_Singleton
    <3> QED  BY <3>2, <3>3
  <2> QED  BY <2>1 DEF WorkIsBacked, OnePublication, IssuesInv
<1> QED  BY <1>1, IssuesInvariant, PTL

\* Every decision about an issue stands until a person takes it back: the
\* decline behind a close on its way, the appeal of an issue Town closed, and
\* the intake before Issue Bot's work (closeDeclinedProposals, resume, decideTask).
THEOREM IssueDecisionsHold == Spec => []DecisionsHold
<1>1. IssuesInv => DecisionsHold
  <2> SUFFICES ASSUME IssuesInv PROVE DecisionsHold
    OBVIOUS
  <2>1. ASSUME pass.at = "call"
        PROVE  ClosableDecline(task[pass.n]) /\ Shut(task[pass.n]) /\ pass.n \in Numbers
    BY <2>1 DEF IssuesInv, ClaimFits, Typed, RunsTyped, Passes, Some
  <2>2. ClaimStands
    BY <2>1 DEF ClaimStands
  <2>3. AppealHonored
    <3> SUFFICES ASSUME pass.at = "call", pass.n \in settled, "locked" \notin past[pass.n]
                 PROVE  task[pass.n].dec = "declined"
      BY DEF AppealHonored
    <3>1. Appealing(task[pass.n])
      BY DEF IssuesInv, SettledFits
    <3> QED  BY <2>1, <3>1 DEF Appealing, ClosableDecline, AutoDeclined
  <2>4. NoWorkBeforeIntake
    <3> SUFFICES ASSUME run.at = "working"
                 PROVE  PassedIntake(run.n) \/ gh[run.n].from \in Requests
      BY DEF NoWorkBeforeIntake
    <3>1. run.n \in Numbers /\ AtWork(run.n)
      BY DEF IssuesInv, WorkIsHoused, Typed, RunsTyped, Some, AtWork
    <3> QED  BY <3>1 DEF IssuesInv, WorkIsHoused, IntakeFits
  <2> QED  BY <2>2, <2>3, <2>4 DEF DecisionsHold
<1> QED  BY <1>1, IssuesInvariant, PTL
=============================================================================
