---------------------------- MODULE IssueBotProofs ----------------------------
(***************************************************************************)
(* Theorems about the instances of Issue Bot (IssueBot), for any number of   *)
(* them, any budget and any number of faults and events.                    *)
(***************************************************************************)
EXTENDS IssueBot, FiniteSetTheorems, SequenceTheorems, WellFoundedInduction, TLAPS

-----------------------------------------------------------------------------
(***************************************************************************)
(* The inductive invariant.                                                 *)
(***************************************************************************)

\* Places where a run's copy of the job is what it saved, where it has a claim
\* of its own, and where its agent's work is done but not yet proposed.
Saved  == {"idle", "sync", "scan", "elect", "post", "confirm", "yield", "deliver"}
Trying == {"elect", "post", "confirm", "yield", "final"} \cup Leased
Ahead  == {"elect", "post", "confirm", "open", "charge"}
Late   == {"verify", "push", "recheck", "create"}

\* A submitted job names a pull request a bot opened and nobody superseded.
Published(ps, j) ==
    j.status = "submitted" =>
        /\ j.url \in DOMAIN ps /\ ps[j.url].kind = "bot"
        /\ j.url \notin j.superseded
Claimless(j) == j.claim.n = 0 <=> j.claim.status = "none"

\* One instance's job: the copy of a run has the claim and the budget that are
\* saved, and may only have tried more often than is saved.
JobFits(b) ==
    /\ mem[b].superseded = disk[b].superseded /\ disk[b].superseded \subseteq DOMAIN pulls
    /\ requeue[b] \in DOMAIN pulls \cup {0}
    /\ Published(pulls, disk[b]) /\ Published(pulls, mem[b])
    /\ Claimless(disk[b]) /\ Claimless(mem[b])
    /\ agentRuns[b] <= disk[b].tries /\ disk[b].tries <= mem[b].tries
    /\ pc[b] \in Saved => mem[b] = disk[b]
    /\ pc[b] \in Trying => mem[b].claim = disk[b].claim /\ mem[b].claim.status = "working"
    /\ pc[b] \in Ahead => mem[b].tries < Attempts
    /\ pc[b] = "agent" => agentRuns[b] > 0
    /\ pc[b] = "sync" => mem[b].owed /\ mem[b].claim.status # "working"

\* CommentOf, of any list of comments.
Comment(cs, b, n) ==
    LET mine == {i \in DOMAIN cs : cs[i].bot = b /\ cs[i].n = n}
    IN IF mine = {} THEN 0 ELSE CHOOSE i \in mine : TRUE
Id(b) == Comment(comments, b, mem[b].claim.n)

\* The comment of the claim an instance works under stands on GitHub, and the
\* end of a saved claim is told there or owed.
Leads(b) ==
    pc[b] \in Leased \cup {"confirm"} =>
        Id(b) # 0 /\ comments[Id(b)].status = "working" /\ comments[Id(b)].live

EndTold(b) ==
    LET i == Comment(comments, b, disk[b].claim.n)
    IN  i # 0 /\ disk[b].claim.status # "working" =>
            disk[b].owed \/ comments[i].status = disk[b].claim.status

\* Leases may overlap, since an old claim that is taken up again is lower than a
\* later one that was already confirmed; but of two instances whose agents are
\* done, the one on its way to publish has the lower claim.
Turns ==
    \A b, c \in Bots : b # c /\ pc[b] \in {"push", "create"} /\ pc[c] \in Late => Id(b) < Id(c)

\* Whoever creates a pull request knows every earlier one as superseded.
Sole ==
    /\ \A b \in Bots : pc[b] = "create" =>
          \A p \in DOMAIN pulls : pulls[p].kind = "bot" => p \in mem[b].superseded
    /\ \A p \in DOMAIN pulls : pulls[p].kind = "bot" => pulls[p].by \in Bots

Named == \A i \in DOMAIN comments : comments[i].n # 0

BotInv ==
    /\ TypeOK
    /\ \A b \in Bots : JobFits(b) /\ Leads(b) /\ EndTold(b)
    /\ Turns /\ Sole /\ Named /\ ClaimsAreUnique /\ OnePullPerIssue

-----------------------------------------------------------------------------
(***************************************************************************)
(* What a step does to a run, a job, the comments and the pull requests.     *)
(***************************************************************************)
LEMMA Constants ==
    /\ Attempts \in Nat \ {0} /\ MaxFaults \in Nat /\ MaxEvents \in Nat /\ 0 \in 0..Attempts
    /\ None \notin Bots
BY IssueConstants

\* The jobs and runs of the others rest, and all of them stay well typed.
RunTyped(b) ==
    /\ pc' \in [Bots -> Places] /\ mem' \in [Bots -> Jobs] /\ disk' \in [Bots -> Jobs]
    /\ faults' \in 0..MaxFaults
    /\ \A c \in Bots \ {b} : pc'[c] = pc[c] /\ mem'[c] = mem[c] /\ disk'[c] = disk[c]
Becomes(b, place, m, d) == pc'[b] = place /\ mem'[b] = m /\ disk'[b] = d
Ended(b) == Becomes(b, "idle", disk[b], disk[b])

LEMMA FaultTyped ==
    ASSUME TypeOK, Fault \/ UNCHANGED faults
    PROVE  faults' \in 0..MaxFaults
BY Constants DEF TypeOK, Fault

LEMMA SaveIs ==
    ASSUME TypeOK, NEW b \in Bots, NEW j \in Jobs, NEW place \in Places, Save(b, j, place)
    PROVE  RunTyped(b) /\ Becomes(b, place, j, j)
BY FaultTyped DEF TypeOK, Save, Goto, RunTyped, Becomes

LEMMA EndsIs ==
    ASSUME TypeOK, NEW b \in Bots, Ends(b), Fault \/ UNCHANGED faults
    PROVE  RunTyped(b) /\ Ended(b)
BY FaultTyped DEF TypeOK, Ends, Goto, RunTyped, Ended, Becomes, Places

LEMMA SaveOrEndIs ==
    ASSUME TypeOK, NEW b \in Bots, NEW j \in Jobs, NEW place \in Places, SaveOrEnd(b, j, place)
    PROVE  RunTyped(b) /\ (Becomes(b, place, j, j) \/ Ended(b))
BY SaveIs, EndsIs DEF SaveOrEnd

LEMMA SaveOrQuitIs ==
    ASSUME TypeOK, NEW b \in Bots, NEW j \in Jobs, NEW place \in Places, SaveOrQuit(b, j, place)
    PROVE  RunTyped(b) /\ (Becomes(b, place, j, j) \/ Becomes(b, "final", j, disk[b]))
<1>1. CASE Save(b, j, place)
  BY <1>1, SaveIs
<1>2. CASE Fault /\ mem' = [mem EXCEPT ![b] = j] /\ Goto(b, "final") /\ UNCHANGED disk
  BY <1>2, FaultTyped DEF TypeOK, Goto, RunTyped, Becomes, Places
<1> QED  BY <1>1, <1>2 DEF SaveOrQuit

LEMMA GotoIs ==
    ASSUME TypeOK, NEW b \in Bots, NEW place \in Places, Goto(b, place), UNCHANGED <<mem, disk>>,
           Fault \/ UNCHANGED faults
    PROVE  RunTyped(b) /\ Becomes(b, place, mem[b], disk[b])
BY FaultTyped DEF TypeOK, Goto, RunTyped, Becomes

\* A comment is known by its instance and its claim.
LEMMA CommentIs ==
    ASSUME NEW cs \in Seq(Comments), NEW b, NEW n
    PROVE  /\ Comment(cs, b, n) # 0 => /\ Comment(cs, b, n) \in DOMAIN cs
                                       /\ cs[Comment(cs, b, n)].bot = b
                                       /\ cs[Comment(cs, b, n)].n = n
           /\ Comment(cs, b, n) = 0 => ~\E i \in DOMAIN cs : cs[i].bot = b /\ cs[i].n = n
<1> DEFINE mine == {i \in DOMAIN cs : cs[i].bot = b /\ cs[i].n = n}
<1>1. CASE mine = {}
  <2>1. Comment(cs, b, n) = 0
    BY <1>1 DEF Comment
  <2> QED  BY <1>1, <2>1
<1>2. CASE mine # {}
  <2>1. Comment(cs, b, n) \in mine
    BY <1>2 DEF Comment
  <2>2. 0 \notin DOMAIN cs
    OBVIOUS
  <2> QED  BY <2>1, <2>2
<1> QED  BY <1>1, <1>2

LEMMA CommentOfIs == \A b, n : CommentOf(b, n) = Comment(comments, b, n)
BY DEF CommentOf, Comment

\* Nobody but b writes comments, and a new one is of a claim that has none.
CommentsMove(b) ==
    /\ comments' \in Seq(Comments) /\ DOMAIN comments \subseteq DOMAIN comments'
    /\ \A i \in DOMAIN comments :
          /\ comments'[i].bot = comments[i].bot /\ comments'[i].n = comments[i].n
          /\ comments[i].bot # b => comments'[i] = comments[i]
    /\ \A i, k \in DOMAIN comments' \ DOMAIN comments : i = k
    /\ \A i \in DOMAIN comments' \ DOMAIN comments :
          /\ comments'[i].bot = b /\ comments'[i].n # 0
          /\ ~\E k \in DOMAIN comments : comments[k].bot = b /\ comments[k].n = comments'[i].n

\* A claim's comment stays its comment: ids are never reused or reordered.
LEMMA CommentsStay ==
    ASSUME TypeOK, Named, ClaimsAreUnique, NEW b \in Bots, CommentsMove(b)
    PROVE  /\ Named' /\ ClaimsAreUnique'
           /\ \A c \in Bots, n \in Nat :
                 Comment(comments, c, n) # 0 \/ c # b =>
                    Comment(comments', c, n) = Comment(comments, c, n)
<1>1. Named'
  BY DEF Named, CommentsMove
<1>2. ASSUME NEW i \in DOMAIN comments', NEW k \in DOMAIN comments', i # k
      PROVE  <<comments'[i].bot, comments'[i].n>> # <<comments'[k].bot, comments'[k].n>>
  <2>1. CASE i \in DOMAIN comments /\ k \in DOMAIN comments
    BY <1>2, <2>1 DEF CommentsMove, ClaimsAreUnique
  <2>2. CASE i \notin DOMAIN comments
    BY <1>2, <2>2 DEF CommentsMove
  <2>3. CASE k \notin DOMAIN comments
    BY <1>2, <2>3 DEF CommentsMove
  <2> QED  BY <2>1, <2>2, <2>3
<1>3. ClaimsAreUnique'
  BY <1>2 DEF ClaimsAreUnique
<1>4. ASSUME NEW c \in Bots, NEW n \in Nat, Comment(comments, c, n) # 0 \/ c # b
      PROVE  Comment(comments', c, n) = Comment(comments, c, n)
  <2> DEFINE mine == {i \in DOMAIN comments : comments[i].bot = c /\ comments[i].n = n}
             now == {i \in DOMAIN comments' : comments'[i].bot = c /\ comments'[i].n = n}
  <2>1. mine \subseteq now
    BY DEF CommentsMove
  <2>2. CASE mine = {}
    <3>1. Comment(comments, c, n) = 0
      BY <2>2 DEF Comment
    <3>2. c # b
      BY <1>4, <3>1
    <3>3. now = {}
      BY <2>2, <3>2 DEF CommentsMove
    <3> QED  BY <3>1, <3>3 DEF Comment
  <2>3. CASE mine # {}
    <3>1. Comment(comments, c, n) = CHOOSE i \in mine : TRUE
      BY <2>3 DEF Comment
    <3>2. \A i, k \in now : i = k
      BY <1>3 DEF ClaimsAreUnique
    <3>3. now = mine
      BY <2>1, <2>3, <3>2
    <3>4. Comment(comments', c, n) = CHOOSE i \in now : TRUE
      BY <2>3, <3>3 DEF Comment
    <3> QED  BY <3>1, <3>3, <3>4
  <2> QED  BY <2>2, <2>3
<1> QED  BY <1>1, <1>3, <1>4

\* An instance posts or edits the one comment of a claim.
LEMMA CommentWritten ==
    ASSUME TypeOK, Named, ClaimsAreUnique, NEW b \in Bots, NEW cm \in Comments, cm.bot = b, cm.n # 0,
           comments' = IF Comment(comments, b, cm.n) = 0 THEN Append(comments, cm)
                       ELSE [comments EXCEPT ![Comment(comments, b, cm.n)] = cm]
    PROVE  /\ CommentsMove(b) /\ Comment(comments', b, cm.n) # 0 /\ comments'[Comment(comments', b, cm.n)] = cm
<1> DEFINE n == cm.n
           i == Comment(comments, b, n)
<1>1. comments \in Seq(Comments) /\ n \in Nat
  BY DEF TypeOK, Comments
<1>2. CASE i = 0
  <2>1. ~\E k \in DOMAIN comments : comments[k].bot = b /\ comments[k].n = n
    BY <1>1, <1>2, CommentIs
  <2>2. comments' = Append(comments, cm)
    BY <1>2
  <2>3. /\ comments' \in Seq(Comments) /\ Len(comments) \in Nat
        /\ DOMAIN comments' = DOMAIN comments \cup {Len(comments) + 1}
        /\ comments'[Len(comments) + 1] = cm
        /\ \A k \in DOMAIN comments : comments'[k] = comments[k]
    BY <1>1, <2>2
  <2>4. CommentsMove(b)
    BY <2>1, <2>3 DEF CommentsMove
  <2>5. {k \in DOMAIN comments' : comments'[k].bot = b /\ comments'[k].n = n} = {Len(comments) + 1}
    BY <2>1, <2>3
  <2>6. Comment(comments', b, n) = Len(comments) + 1
    BY <2>5 DEF Comment
  <2> QED  BY <2>3, <2>4, <2>6
<1>3. CASE i # 0
  <2>1. i \in DOMAIN comments /\ comments[i].bot = b /\ comments[i].n = n
    BY <1>1, <1>3, CommentIs
  <2> HIDE DEF i
  <2>2. comments' = [comments EXCEPT ![i] = cm]
    BY <1>3 DEF i
  <2>3. /\ comments' \in Seq(Comments) /\ DOMAIN comments' = DOMAIN comments /\ comments'[i] = cm
        /\ \A k \in DOMAIN comments : k # i => comments'[k] = comments[k]
    <3> DEFINE new == [comments EXCEPT ![i] = cm]
    <3>1. i \in 1 .. Len(comments) /\ DOMAIN comments = 1 .. Len(comments)
      BY <1>1, <2>1, LenProperties
    <3>2. new \in Seq(Comments) /\ Len(new) = Len(comments)
          /\ \A k \in 1 .. Len(comments) : new[k] = IF k = i THEN cm ELSE comments[k]
      BY <1>1, <3>1, ExceptSeq
    <3>3. DOMAIN new = 1 .. Len(comments)
      BY <3>1
    <3> HIDE DEF new
    <3> QED  BY <2>2, <3>1, <3>2, <3>3 DEF new
  <2>4. CommentsMove(b)
    BY <2>1, <2>3 DEF CommentsMove
  <2>5. Comment(comments', b, n) = Comment(comments, b, n)
    BY <1>1, <1>3, <2>4, CommentsStay DEF i
  <2> QED  BY <1>3, <2>3, <2>4, <2>5 DEF i
<1> QED  BY <1>2, <1>3

\* The other instances' claims are told as before.
LEMMA OthersTold ==
    ASSUME BotInv, NEW b \in Bots, CommentsMove(b) \/ UNCHANGED comments, RunTyped(b)
    PROVE  /\ Named' /\ ClaimsAreUnique'
           /\ \A n \in Nat : Comment(comments, b, n) # 0 =>
                 Comment(comments', b, n) = Comment(comments, b, n)
           /\ \A c \in Bots \ {b} : Id(c)' = Id(c) /\ Leads(c)' /\ EndTold(c)'
<1>1. /\ Named' /\ ClaimsAreUnique'
      /\ \A c \in Bots, n \in Nat : Comment(comments, c, n) # 0 \/ c # b =>
            Comment(comments', c, n) = Comment(comments, c, n)
  <2>1. CASE CommentsMove(b)
    BY <2>1, CommentsStay DEF BotInv
  <2>2. CASE UNCHANGED comments
    BY <2>2 DEF BotInv, Named, ClaimsAreUnique
  <2> QED  BY <2>1, <2>2
<1>2. ASSUME NEW c \in Bots \ {b}
      PROVE  Id(c)' = Id(c) /\ Leads(c)' /\ EndTold(c)'
  <2>1. mem'[c] = mem[c] /\ disk'[c] = disk[c] /\ pc'[c] = pc[c]
    BY DEF RunTyped
  <2>2. /\ mem[c].claim.n \in Nat /\ disk[c].claim.n \in Nat /\ comments \in Seq(Comments)
    BY DEF BotInv, TypeOK, Jobs, Claims
  <2>3. Id(c)' = Id(c)
    BY <1>1, <2>1, <2>2 DEF Id
  <2>4. ASSUME NEW n \in Nat, Comment(comments, c, n) # 0
        PROVE  comments'[Comment(comments, c, n)] = comments[Comment(comments, c, n)]
    <3>1. Comment(comments, c, n) \in DOMAIN comments /\ comments[Comment(comments, c, n)].bot = c
      BY <2>2, <2>4, CommentIs
    <3> QED  BY <3>1 DEF CommentsMove
  <2>5. Leads(c)'
    <3>1. Leads(c)
      BY DEF BotInv
    <3> QED  BY <2>1, <2>2, <2>3, <2>4, <3>1 DEF Leads, Id
  <2>6. EndTold(c)'
    <3>1. EndTold(c)
      BY DEF BotInv
    <3>2. Comment(comments', c, disk[c].claim.n) = Comment(comments, c, disk[c].claim.n)
      BY <1>1, <2>2
    <3> QED  BY <2>1, <2>2, <2>4, <3>1, <3>2 DEF EndTold
  <2> QED  BY <2>3, <2>5, <2>6
<1> QED  BY <1>1, <1>2

-----------------------------------------------------------------------------
(***************************************************************************)
(* One instance's job.                                                      *)
(***************************************************************************)

LEMMA FunctionIsASeq ==
    ASSUME NEW S, NEW k \in Nat, NEW f \in [1..k -> S]
    PROVE  f \in Seq(S)
OBVIOUS

\* Pull requests are never taken back: they keep their number and their author.
PullsMove ==
    /\ pulls' \in Seq(Pulls) /\ DOMAIN pulls \subseteq DOMAIN pulls'
    /\ \A p \in DOMAIN pulls : pulls'[p].kind = pulls[p].kind /\ pulls'[p].by = pulls[p].by

LEMMA PullsRest ==
    ASSUME TypeOK, UNCHANGED pulls
    PROVE  PullsMove
BY DEF TypeOK, PullsMove

LEMMA OthersFit ==
    ASSUME BotInv, NEW b \in Bots, RunTyped(b), PullsMove,
           \A c \in Bots \ {b} : requeue'[c] = requeue[c] /\ agentRuns'[c] = agentRuns[c]
    PROVE  \A c \in Bots \ {b} : JobFits(c)'
<1> SUFFICES ASSUME NEW c \in Bots \ {b} PROVE JobFits(c)'
  OBVIOUS
<1>1. JobFits(c)
  BY DEF BotInv
<1>2. /\ mem'[c] = mem[c] /\ disk'[c] = disk[c] /\ pc'[c] = pc[c]
      /\ requeue'[c] = requeue[c] /\ agentRuns'[c] = agentRuns[c]
  BY DEF RunTyped
<1>3. Published(pulls', disk[c]) /\ Published(pulls', mem[c])
  BY <1>1 DEF JobFits, Published, PullsMove
<1> QED  BY <1>1, <1>2, <1>3 DEF JobFits, PullsMove

\* What a run's copy becomes without touching the claim or the budget.
Keeps(j, k) ==
    /\ k \in Jobs /\ Published(pulls', k)
    /\ k.claim = j.claim /\ k.tries = j.tries /\ k.superseded = j.superseded /\ k.owed = j.owed

\* A step of a run that leaves the budget and the claim to a later one.
LEMMA RestFits ==
    ASSUME BotInv, NEW b \in Bots, PullsMove, NEW place, NEW m,
           Keeps(mem[b], m), UNCHANGED <<requeue, agentRuns>>,
           \/ Becomes(b, place, m, m)
           \/ Becomes(b, place, m, disk[b]) /\ (place \in Saved => m = mem[b] /\ mem[b] = disk[b]),
           place \in Trying => mem[b].claim = disk[b].claim /\ mem[b].claim.status = "working",
           place \in Ahead => mem[b].tries < Attempts,
           place \notin {"agent", "sync"}
    PROVE  JobFits(b)'
<1>1. JobFits(b)
  BY DEF BotInv
<1>2. Published(pulls', disk[b])
  BY <1>1 DEF JobFits, Published, PullsMove
<1>3. /\ agentRuns[b] \in Int /\ disk[b].tries \in Int /\ mem[b].tries \in Int
      /\ agentRuns[b] <= mem[b].tries
  BY <1>1 DEF BotInv, TypeOK, Jobs, JobFits
<1>4. /\ pc'[b] = place /\ mem'[b] = m /\ disk'[b] \in {m, disk[b]}
      /\ requeue' = requeue /\ agentRuns' = agentRuns
  BY DEF Becomes
<1>5. /\ mem'[b].superseded = disk'[b].superseded /\ disk'[b].superseded \subseteq DOMAIN pulls'
      /\ requeue'[b] \in DOMAIN pulls' \cup {0}
  BY <1>1, <1>4 DEF JobFits, Keeps, PullsMove
<1>6. /\ Published(pulls', disk'[b]) /\ Published(pulls', mem'[b])
      /\ Claimless(disk'[b]) /\ Claimless(mem'[b])
  BY <1>1, <1>2, <1>4 DEF JobFits, Keeps, Claimless
<1>7. agentRuns'[b] <= disk'[b].tries /\ disk'[b].tries <= mem'[b].tries
  BY <1>1, <1>3, <1>4 DEF JobFits, Keeps
<1>8. /\ pc'[b] \in Saved => mem'[b] = disk'[b]
      /\ pc'[b] \in Trying => mem'[b].claim = disk'[b].claim /\ mem'[b].claim.status = "working"
      /\ pc'[b] \in Ahead => mem'[b].tries < Attempts
  BY <1>1, <1>4 DEF JobFits, Keeps, Becomes
<1> QED  BY <1>4, <1>5, <1>6, <1>7, <1>8 DEF JobFits

LEMMA EndedFits ==
    ASSUME BotInv, NEW b \in Bots, PullsMove, Ended(b), UNCHANGED <<requeue, agentRuns>>
    PROVE  JobFits(b)'
<1>1. JobFits(b)
  BY DEF BotInv
<1>2. Published(pulls', disk[b])
  BY <1>1 DEF JobFits, Published, PullsMove
<1>3. "idle" \notin Trying \cup Ahead \cup {"agent", "sync"}
  BY DEF Trying, Ahead, Leased
<1>4. disk[b].tries <= disk[b].tries
  BY DEF BotInv, TypeOK, Jobs
<1> QED  BY <1>1, <1>2, <1>3, <1>4 DEF JobFits, Ended, Becomes, PullsMove

-----------------------------------------------------------------------------
(***************************************************************************)
(* What an instance does beside its own job.                                *)
(***************************************************************************)

\* It goes on towards a pull request only while it holds the issue and after
\* every other call ended, and creates one only when it saw no other.
LateStep(b) ==
    /\ pc'[b] \in Late =>
          /\ UNCHANGED comments /\ mem'[b].claim = mem[b].claim
          /\ pc[b] \in Late \/ \A c \in Bots \ {b} : pc[c] \notin InFlight
    /\ pc'[b] \in {"push", "create"} => Holds(b) /\ pc[b] \in Late
    /\ pc'[b] = "create" => Linked(mem[b]) = {} /\ UNCHANGED pulls

\* The pull request of a bot is new only when the instance creates it.
PullsOf(b) ==
    \A q \in DOMAIN pulls' : pulls'[q].kind = "bot" =>
        \/ q \in DOMAIN pulls
        \/ pc[b] = "create" /\ pulls'[q].by = b /\ \A p \in DOMAIN pulls' : p < q => p \in DOMAIN pulls

Acts(b) ==
    /\ TypeOK' /\ RunTyped(b) /\ PullsMove /\ JobFits(b)' /\ Leads(b)' /\ EndTold(b)'
    /\ CommentsMove(b) \/ UNCHANGED comments
    /\ mem[b].superseded \subseteq mem'[b].superseded
    /\ \A c \in Bots \ {b} : requeue'[c] = requeue[c] /\ agentRuns'[c] = agentRuns[c]
    /\ LateStep(b) /\ PullsOf(b)

\* A set of numbers that is not empty has a least one.
LEMMA LowestIn ==
    ASSUME NEW T \in SUBSET Nat, T # {}
    PROVE  \E n \in T : \A m \in T : n <= m
<1> DEFINE R == {ss \in Nat \X Nat : ss[1] < ss[2]}
<1>1. IsWellFoundedOn(R, Nat)
  BY NatLessThanWellFounded DEF OpToRel
<1>2. PICK n \in T : \A m \in T : <<m, n>> \notin R
  <2> HIDE DEF R
  <2> QED  BY <1>1, WFMin
<1>3. \A m \in T : ~(m < n)
  BY <1>2
<1> QED  BY <1>2, <1>3

\* The winner is the lowest comment that is at work and not expired.
LEMMA WinnerIsLowest ==
    ASSUME TypeOK, NEW b \in Bots, Holds(b), NEW i \in DOMAIN comments,
           comments[i].status = "working", comments[i].live
    PROVE  Id(b) # 0 /\ Id(b) <= i
<1>1. i \in Working
  BY DEF Working
<1>2. Working \in SUBSET Nat
  BY DEF Working, TypeOK
<1>3. \E w \in Working : \A k \in Working : w =< k
  BY <1>1, <1>2, LowestIn
<1>4. ClaimWinner \in Working /\ ClaimWinner =< i
  BY <1>1, <1>3 DEF ClaimWinner
<1> QED  BY <1>4, CommentOfIs DEF Holds, Id

LEMMA ActsKeep ==
    ASSUME BotInv, NEW b \in Bots, Acts(b)
    PROVE  BotInv'
<1>1. /\ TypeOK' /\ Named' /\ ClaimsAreUnique'
      /\ \A c \in Bots : JobFits(c)' /\ Leads(c)' /\ EndTold(c)'
      /\ \A c \in Bots \ {b} : Id(c)' = Id(c) /\ pc'[c] = pc[c] /\ mem'[c] = mem[c]
  BY OthersTold, OthersFit DEF Acts, RunTyped
<1>2. pc'[b] \in Late => Id(b)' = Id(b)
  BY DEF Acts, LateStep, Id
<1>3. ASSUME NEW c \in Bots \ {b}, pc[c] \in Late, Holds(b), pc[b] \in Late
      PROVE  Id(b) < Id(c)
  <2>1. Id(c) # 0 /\ comments[Id(c)].status = "working" /\ comments[Id(c)].live
    BY <1>3 DEF BotInv, Leads, Late, Leased
  <2>2. comments \in Seq(Comments) /\ TypeOK
    BY DEF BotInv, TypeOK
  <2>3. Id(c) \in DOMAIN comments /\ comments[Id(c)].bot = c
    BY <2>1, <2>2, CommentIs DEF Id
  <2>4. Id(b) # 0 /\ Id(b) <= Id(c)
    BY <1>3, <2>1, <2>2, <2>3, WinnerIsLowest
  <2>5. Id(b) \in DOMAIN comments /\ comments[Id(b)].bot = b
    BY <2>2, <2>4, CommentIs DEF Id
  <2> QED  BY <2>2, <2>3, <2>4, <2>5
<1>4. ASSUME NEW c \in Bots \ {b}
      PROVE  /\ pc'[b] \in {"push", "create"} /\ pc'[c] \in Late => Id(b)' < Id(c)'
             /\ pc'[c] \in {"push", "create"} /\ pc'[b] \in Late => Id(c)' < Id(b)'
  <2>1. ASSUME pc'[b] \in {"push", "create"}, pc[c] \in Late
        PROVE  Id(b) < Id(c)
    BY <1>3, <2>1 DEF Acts, LateStep
  <2>2. ASSUME pc[c] \in {"push", "create"}, pc'[b] \in Late
        PROVE  Id(c) < Id(b)
    <3>1. pc[b] \in Late
      BY <2>2 DEF Acts, LateStep, InFlight
    <3> QED  BY <2>2, <3>1 DEF BotInv, Turns
  <2>3. pc'[b] \in {"push", "create"} => pc'[b] \in Late
    BY DEF Late
  <2> QED  BY <1>1, <1>2, <2>1, <2>2, <2>3
<1>5. Turns'
  <2>1. ASSUME NEW c \in Bots \ {b}, NEW d \in Bots \ {b}, c # d,
               pc'[c] \in {"push", "create"}, pc'[d] \in Late
        PROVE  Id(c)' < Id(d)'
    BY <1>1, <2>1 DEF BotInv, Turns
  <2> QED  BY <1>4, <2>1 DEF Turns
<1>6. Sole'
  <2>1. ASSUME NEW p \in DOMAIN pulls', pulls'[p].kind = "bot"
        PROVE  pulls'[p].by \in Bots
    BY <2>1 DEF BotInv, Sole, Acts, PullsOf, PullsMove
  <2>2. ASSUME NEW c \in Bots, pc'[c] = "create", NEW p \in DOMAIN pulls', pulls'[p].kind = "bot"
        PROVE  p \in mem'[c].superseded
    <3>1. CASE c = b
      <4>1. Linked(mem[b]) = {} /\ UNCHANGED pulls /\ mem[b].superseded \subseteq mem'[b].superseded
        BY <2>2, <3>1 DEF Acts, LateStep
      <4>2. p \in mem[b].superseded
        BY <2>2, <4>1 DEF Linked
      <4> QED  BY <3>1, <4>1, <4>2
    <3>2. CASE c # b
      <4>1. pc[c] = "create" /\ mem'[c] = mem[c]
        BY <1>1, <2>2, <3>2
      <4>2. pc[b] # "create"
        <5> SUFFICES ASSUME pc[b] = "create" PROVE FALSE
          OBVIOUS
        <5>1. Id(b) < Id(c) /\ Id(c) < Id(b)
          BY <3>2, <4>1 DEF BotInv, Turns, Late
        <5>2. Id(b) \in Nat /\ Id(c) \in Nat
          <6>1. comments \in Seq(Comments)
            BY DEF BotInv, TypeOK
          <6> QED  BY <6>1, CommentIs DEF Id
        <5> QED  BY <5>1, <5>2
      <4>3. p \in DOMAIN pulls /\ pulls[p].kind = "bot"
        BY <2>2, <4>2 DEF Acts, PullsOf, PullsMove
      <4> QED  BY <4>1, <4>3 DEF BotInv, Sole
    <3> QED  BY <3>1, <3>2
  <2> QED  BY <2>1, <2>2 DEF Sole
<1>7. OnePullPerIssue'
  <2>1. ASSUME NEW p \in DOMAIN pulls', NEW q \in DOMAIN pulls', pulls'[p].kind = "bot",
               pulls'[q].kind = "bot", p < q
        PROVE  p \in mem'[pulls'[q].by].superseded
    <3>1. CASE q \in DOMAIN pulls
      <4>1. /\ p \in DOMAIN pulls /\ pulls[q].kind = "bot" /\ pulls[p].kind = "bot"
            /\ pulls'[q].by = pulls[q].by
        BY <2>1, <3>1 DEF Acts, PullsMove, BotInv, TypeOK
      <4>2. p \in mem[pulls[q].by].superseded /\ pulls[q].by \in Bots
        BY <2>1, <3>1, <4>1 DEF BotInv, OnePullPerIssue, Sole
      <4> QED  BY <1>1, <4>1, <4>2 DEF Acts
    <3>2. CASE q \notin DOMAIN pulls
      <4>1. /\ pc[b] = "create" /\ pulls'[q].by = b /\ p \in DOMAIN pulls
            /\ pulls[p].kind = "bot"
        BY <2>1, <3>2 DEF Acts, PullsOf, PullsMove
      <4> QED  BY <4>1 DEF BotInv, Sole, Acts
    <3> QED  BY <3>1, <3>2
  <2> QED  BY <2>1 DEF OnePullPerIssue
<1> QED  BY <1>1, <1>5, <1>6, <1>7 DEF BotInv

\* A step that writes no comment leaves the lease and what is told of it.
LEMMA Untold ==
    ASSUME BotInv, NEW b \in Bots, UNCHANGED comments, RunTyped(b), JobFits(b)',
           pc'[b] \in Leased \cup {"confirm"} =>
              pc[b] \in Leased \cup {"confirm"} /\ mem'[b].claim = mem[b].claim,
           \/ disk'[b].claim = disk[b].claim /\ disk'[b].owed = disk[b].owed
           \/ disk'[b].owed \/ disk'[b].claim.status \in {"working", "none"}
    PROVE  Leads(b)' /\ EndTold(b)'
<1>1. Leads(b) /\ EndTold(b) /\ Named /\ comments \in Seq(Comments)
  BY DEF BotInv, TypeOK
<1>2. Leads(b)'
  BY <1>1 DEF Leads, Id
<1>3. CASE disk'[b].owed \/ disk'[b].claim.status = "working"
           \/ (disk'[b].claim = disk[b].claim /\ disk'[b].owed = disk[b].owed)
  BY <1>1, <1>2, <1>3 DEF EndTold
<1>4. CASE disk'[b].claim.status = "none"
  <2>1. disk'[b].claim.n = 0
    BY <1>4 DEF JobFits, Claimless
  <2>2. Comment(comments, b, 0) = 0
    BY <1>1, CommentIs DEF Named
  <2> QED  BY <1>2, <2>1, <2>2 DEF EndTold
<1> QED  BY <1>2, <1>3, <1>4

\* A run's step elsewhere than on its way to a pull request.
LEMMA NotLate ==
    ASSUME NEW b \in Bots, pc'[b] \notin Late
    PROVE  LateStep(b)
BY DEF LateStep, Late

LEMMA SamePulls ==
    ASSUME TypeOK, NEW b, UNCHANGED pulls
    PROVE  PullsMove /\ PullsOf(b)
BY PullsRest DEF PullsOf

-----------------------------------------------------------------------------
(***************************************************************************)
(* The actions.                                                             *)
(***************************************************************************)

\* What remains of an action that writes to nobody but itself.
LEMMA ActsAlone ==
    ASSUME BotInv, NEW b \in Bots, RunTyped(b), JobFits(b)', LateStep(b),
           UNCHANGED <<comments, eligible, branch, pushes, pulls>>,
           local' \in [Bots -> Worktrees], requeue' \in [Bots -> Nat],
           agentRuns' \in [Bots -> Nat], events' \in 0..MaxEvents,
           mem[b].superseded \subseteq mem'[b].superseded,
           \A c \in Bots \ {b} : requeue'[c] = requeue[c] /\ agentRuns'[c] = agentRuns[c],
           pc'[b] \in Leased \cup {"confirm"} =>
              pc[b] \in Leased \cup {"confirm"} /\ mem'[b].claim = mem[b].claim,
           \/ disk'[b].claim = disk[b].claim /\ disk'[b].owed = disk[b].owed
           \/ disk'[b].owed \/ disk'[b].claim.status \in {"working", "none"}
    PROVE  Acts(b)
<1>1. TypeOK'
  BY DEF BotInv, TypeOK, RunTyped
<1>2. PullsMove /\ PullsOf(b) /\ Leads(b)' /\ EndTold(b)'
  BY SamePulls, Untold DEF BotInv
<1> QED  BY <1>1, <1>2 DEF Acts

\* A run that ends without saving anything.
LEMMA EndActs ==
    ASSUME BotInv, NEW b \in Bots, RunTyped(b), Ended(b), UNCHANGED <<requeue, agentRuns, local>>,
           UNCHANGED <<comments, eligible, branch, pushes, pulls>>, events' \in 0..MaxEvents
    PROVE  Acts(b)
<1>1. /\ JobFits(b)' /\ pc'[b] = "idle" /\ mem'[b] = disk[b] /\ disk'[b] = disk[b]
  BY EndedFits, PullsRest DEF BotInv, Ended, Becomes
<1>2. mem[b].superseded = disk[b].superseded
  BY DEF BotInv, JobFits
<1>3. LateStep(b)
  BY <1>1, NotLate DEF Late
<1>4. /\ local' \in [Bots -> Worktrees] /\ requeue' \in [Bots -> Nat]
      /\ agentRuns' \in [Bots -> Nat]
  BY DEF BotInv, TypeOK
<1> QED  BY <1>1, <1>2, <1>3, <1>4, ActsAlone DEF Leased

LEMMA CrashActs ==
    ASSUME BotInv, NEW b \in Bots, Crash(b) \/ ElectionFails(b)
    PROVE  Acts(b)
<1>1. RunTyped(b) /\ Ended(b)
  BY EndsIs DEF BotInv, Crash, ElectionFails
<1> QED  BY <1>1, EndActs DEF BotInv, TypeOK, Crash, ElectionFails, github

\* Changing what a job says of its failure, its end or its pull request.
LEMMA Changes ==
    ASSUME BotInv, NEW b \in Bots, PullsMove,
           NEW f \in {"none", "lookup", "attempt", "closed"},
           NEW st \in {"pending", "blocked", "has_pr", "skipped"}, NEW u \in Nat
    PROVE  LET j == mem[b] IN
           /\ Keeps(j, j) /\ Keeps(j, [j EXCEPT !.failure = f])
           /\ Keeps(j, [j EXCEPT !.status = st, !.failure = f])
           /\ Keeps(j, [j EXCEPT !.status = st, !.url = u])
           /\ Keeps(j, [j EXCEPT !.url = u, !.status = st, !.failure = f])
<1> DEFINE j == mem[b]
<1>1. j \in Jobs /\ Published(pulls, j)
  BY DEF BotInv, TypeOK, JobFits
<1> HIDE DEF j
<1>2. Published(pulls', j)
  BY <1>1 DEF Published, PullsMove
<1>3. Keeps(j, j) /\ Keeps(j, [j EXCEPT !.failure = f])
  BY <1>1, <1>2 DEF Keeps, Jobs, Published
<1>4. /\ Keeps(j, [j EXCEPT !.status = st, !.failure = f])
      /\ Keeps(j, [j EXCEPT !.status = st, !.url = u])
      /\ Keeps(j, [j EXCEPT !.url = u, !.status = st, !.failure = f])
  BY <1>1 DEF Keeps, Jobs, Published
<1> QED  BY <1>3, <1>4 DEF j

\* Recording the one pull request an instance may take for its own.
LEMMA RecordFits ==
    ASSUME BotInv, NEW b \in Bots, PullsMove, Lookup(mem[b]) = "ours"
    PROVE  Keeps(mem[b], RecordPull(mem[b], Ours(mem[b])))
<1> DEFINE j == mem[b]
           p == Ours(j)
<1>1. j \in Jobs
  BY DEF BotInv, TypeOK
<1>2. p \in BranchPulls(j) /\ pulls[p].kind = "bot"
  BY DEF Lookup, Ours
<1>3. p \in DOMAIN pulls /\ p \notin j.superseded /\ p \in Nat
  BY <1>2 DEF BranchPulls, BotInv, TypeOK
<1> HIDE DEF p
<1>4. CASE pulls[p].state = "closed"
  <2>1. RecordPull(j, p) = [j EXCEPT !.url = p, !.status = "blocked", !.failure = "closed"]
    BY <1>4 DEF RecordPull
  <2>2. Keeps(mem[b], [mem[b] EXCEPT !.url = p, !.status = "blocked", !.failure = "closed"])
    BY <1>3, Changes
  <2> QED  BY <2>1, <2>2 DEF p
<1>5. CASE pulls[p].state # "closed"
  <2> DEFINE k == [j EXCEPT !.url = p, !.status = "submitted", !.failure = "none"]
  <2>1. RecordPull(j, p) = k
    BY <1>5 DEF RecordPull
  <2> HIDE DEF j
  <2>2. /\ k \in Jobs /\ k.url = p /\ k.status = "submitted" /\ k.claim = j.claim
        /\ k.tries = j.tries /\ k.superseded = j.superseded /\ k.owed = j.owed
    BY <1>1, <1>3 DEF Jobs
  <2>3. Published(pulls', k)
    BY <1>2, <1>3, <2>2 DEF Published, PullsMove
  <2> HIDE DEF k
  <2> QED  BY <2>1, <2>2, <2>3 DEF Keeps, j, p
<1> QED  BY <1>4, <1>5

\* A save inside an attempt, which the attempt outlives or not.
LEMMA QuitFits ==
    ASSUME BotInv, NEW b \in Bots, pc[b] \in Leased, PullsMove, NEW j, Keeps(mem[b], j),
           NEW place \in {"verify", "final"}, SaveOrQuit(b, j, place),
           UNCHANGED <<requeue, agentRuns>>
    PROVE  /\ RunTyped(b) /\ JobFits(b)' /\ pc'[b] \in {place, "final"}
           /\ mem'[b].claim = mem[b].claim /\ mem'[b].superseded = mem[b].superseded
           /\ disk'[b].claim.status = "working"
<1>1. j \in Jobs /\ place \in Places /\ place \notin Saved /\ "final" \notin Saved
      /\ place \notin Ahead /\ "final" \notin Ahead
  BY DEF Keeps, Places, Leased, Saved, Ahead
<1>2. RunTyped(b) /\ (Becomes(b, place, j, j) \/ Becomes(b, "final", j, disk[b]))
  BY <1>1, SaveOrQuitIs DEF BotInv
<1>3. mem[b].claim = disk[b].claim /\ mem[b].claim.status = "working"
  BY DEF BotInv, JobFits, Trying
<1>4. JobFits(b)'
  <2>1. CASE Becomes(b, place, j, j)
    BY <1>1, <1>3, <2>1, RestFits
  <2>2. CASE Becomes(b, "final", j, disk[b])
    BY <1>1, <1>3, <2>2, RestFits
  <2> QED  BY <1>2, <2>1, <2>2
<1> QED  BY <1>2, <1>3, <1>4 DEF Becomes, Keeps

\* An attempt that fails, and writes to nobody but itself.
LEMMA QuitActs ==
    ASSUME BotInv, NEW b \in Bots, pc[b] \in Leased, NEW j, Keeps(mem[b], j),
           NEW place \in {"verify", "final"}, SaveOrQuit(b, j, place),
           place = "verify" => \A c \in Bots \ {b} : pc[c] \notin InFlight,
           UNCHANGED <<github, local, requeue, events, agentRuns>>
    PROVE  Acts(b)
<1>1. /\ RunTyped(b) /\ JobFits(b)' /\ pc'[b] \in {place, "final"}
      /\ mem'[b].claim = mem[b].claim /\ mem'[b].superseded = mem[b].superseded
      /\ disk'[b].claim.status = "working"
  BY QuitFits, PullsRest DEF BotInv, github
<1>2. LateStep(b)
  BY <1>1 DEF LateStep, Late, github
<1> QED  BY <1>1, <1>2, ActsAlone DEF BotInv, TypeOK, github, Leased

LEMMA FailedActs ==
    ASSUME BotInv, NEW b \in Bots, pc[b] \in Leased, Failed(b),
           UNCHANGED <<github, local, requeue, events, agentRuns>>
    PROVE  Acts(b)
<1>1. Keeps(mem[b], [mem[b] EXCEPT !.failure = "attempt"])
  BY Changes, PullsRest DEF BotInv, github
<1> QED  BY <1>1, QuitActs DEF Failed

\* The agent's run: it works, gives up or fails.
LEMMA AgentActs ==
    ASSUME BotInv, NEW b \in Bots, Agent(b)
    PROVE  Acts(b)
<1>1. /\ pc[b] \in Leased /\ UNCHANGED <<github, local, requeue, events, agentRuns>>
  BY DEF Agent, Leased
<1>2. PullsMove
  BY <1>1, PullsRest DEF BotInv, github
<1>3. CASE Failed(b)
  BY <1>1, <1>3, FailedActs
<1>4. CASE /\ \A c \in Bots \ {b} : pc[c] \notin InFlight
           /\ SaveOrQuit(b, mem[b], "verify")
  <2>1. Keeps(mem[b], mem[b])
    BY <1>2, Changes
  <2> QED  BY <1>1, <1>4, <2>1, QuitActs
<1>5. CASE SaveOrQuit(b, [mem[b] EXCEPT !.status = "blocked", !.failure = "attempt"], "final")
  <2>1. Keeps(mem[b], [mem[b] EXCEPT !.status = "blocked", !.failure = "attempt"])
    BY <1>2, Changes
  <2> QED  BY <1>1, <1>5, <2>1, QuitActs
<1> QED  BY <1>3, <1>4, <1>5 DEF Agent

\* The last look before GitHub is written to.
LEMMA ReadyActs ==
    ASSUME BotInv, NEW b \in Bots, pc[b] \in {"verify", "recheck"}, NEW place \in {"push", "create"},
           Ready(b, place), UNCHANGED <<github, local, requeue, events, agentRuns>>
    PROVE  Acts(b)
<1>1. pc[b] \in Leased /\ pc[b] \in Late
  BY DEF Leased, Late
<1>2. PullsMove
  BY PullsRest DEF BotInv, github
<1>3. CASE Failed(b)
  BY <1>1, <1>3, FailedActs
<1>4. ASSUME NEW p \in Linked(mem[b]),
             SaveOrQuit(b, [mem[b] EXCEPT !.status = "has_pr", !.url = p], "final")
      PROVE  Acts(b)
  <2>1. p \in Nat
    BY DEF Linked, BotInv, TypeOK
  <2>2. Keeps(mem[b], [mem[b] EXCEPT !.status = "has_pr", !.url = p])
    BY <1>2, <2>1, Changes
  <2> QED  BY <1>1, <1>4, <2>2, QuitActs
<1>5. CASE Holds(b) /\ Linked(mem[b]) = {} /\ Goto(b, place) /\ UNCHANGED <<mem, disk, faults>>
  <2>1. /\ place \in Places /\ place \notin Saved /\ place \notin Ahead /\ place \notin {"agent", "sync"}
    BY DEF Places, Leased, Saved, Ahead
  <2>2. RunTyped(b) /\ Becomes(b, place, mem[b], disk[b])
    BY <1>5, <2>1, GotoIs DEF BotInv
  <2>3. Keeps(mem[b], mem[b])
    BY <1>2, Changes
  <2>4. mem[b].claim = disk[b].claim /\ mem[b].claim.status = "working"
    BY <1>1 DEF BotInv, JobFits, Trying
  <2>5. JobFits(b)'
    BY <1>2, <2>1, <2>2, <2>3, <2>4, RestFits
  <2>6. LateStep(b)
    BY <1>1, <1>5, <2>2 DEF LateStep, Becomes, github
  <2> QED  BY <1>1, <2>2, <2>5, <2>6, ActsAlone DEF BotInv, TypeOK, github, Becomes
<1> QED  BY <1>3, <1>4, <1>5 DEF Ready

LEMMA VerifyActs ==
    ASSUME BotInv, NEW b \in Bots, Verify(b)
    PROVE  Acts(b)
<1>1. /\ pc[b] = "verify" /\ pc[b] \in Leased
      /\ UNCHANGED <<github, local, requeue, events, agentRuns>>
  BY DEF Verify, Leased
<1>2. CASE Failed(b)
  BY <1>1, <1>2, FailedActs
<1>3. CASE SaveOrQuit(b, [mem[b] EXCEPT !.status = "skipped", !.failure = "attempt"], "final")
  <2>1. Keeps(mem[b], [mem[b] EXCEPT !.status = "skipped", !.failure = "attempt"])
    BY <1>1, Changes, PullsRest DEF BotInv, github
  <2> QED  BY <1>1, <1>3, <2>1, QuitActs
<1>4. CASE Ready(b, "push")
  BY <1>1, <1>4, ReadyActs
<1> QED  BY <1>2, <1>3, <1>4 DEF Verify

LEMMA RecheckActs ==
    ASSUME BotInv, NEW b \in Bots, Recheck(b)
    PROVE  Acts(b)
<1>1. /\ pc[b] = "recheck" /\ pc[b] \in Leased
      /\ UNCHANGED <<github, local, requeue, events, agentRuns>>
  BY DEF Recheck, Leased
<1>2. CASE Failed(b)
  BY <1>1, <1>2, FailedActs
<1>3. CASE Lookup(mem[b]) = "ours" /\ SaveOrQuit(b, RecordPull(mem[b], Ours(mem[b])), "final")
  BY <1>1, <1>3, RecordFits, PullsRest, QuitActs DEF BotInv, github
<1>4. CASE Ready(b, "create")
  BY <1>1, <1>4, ReadyActs
<1> QED  BY <1>2, <1>3, <1>4 DEF Recheck

\* A run that goes on to its next place with the copy it has.
LEMMA GotoActs ==
    ASSUME BotInv, NEW b \in Bots, NEW place \in {"yield", "post", "open", "charge", "final"},
           pc[b] \in Trying, Goto(b, place), UNCHANGED <<mem, disk>>, Fault \/ UNCHANGED faults,
           place \in Saved => pc[b] \in Saved, place \in Ahead => pc[b] \in Ahead,
           place \in Leased => pc[b] \in Leased \cup {"confirm"},
           local' \in [Bots -> Worktrees], UNCHANGED <<github, requeue, events, agentRuns>>
    PROVE  Acts(b)
<1>1. place \in Places /\ place \notin {"agent", "sync", "confirm"} \cup Late
  BY DEF Places, Leased, Late
<1>2. RunTyped(b) /\ Becomes(b, place, mem[b], disk[b])
  BY <1>1, GotoIs DEF BotInv
<1>3. PullsMove /\ Keeps(mem[b], mem[b])
  BY PullsRest, Changes DEF BotInv, github
<1>4. /\ mem[b].claim = disk[b].claim /\ mem[b].claim.status = "working"
      /\ pc[b] \in Saved => mem[b] = disk[b]
      /\ pc[b] \in Ahead => mem[b].tries < Attempts
  BY DEF BotInv, JobFits
<1>5. JobFits(b)'
  BY <1>1, <1>2, <1>3, <1>4, RestFits
<1>6. LateStep(b)
  BY <1>1, <1>2, NotLate DEF Becomes
<1> QED  BY <1>1, <1>2, <1>5, <1>6, ActsAlone DEF BotInv, TypeOK, github, Becomes

LEMMA ElectActs ==
    ASSUME BotInv, NEW b \in Bots, Elect(b) \/ Confirm(b) \/ Open(b) \/ OpenFails(b)
    PROVE  Acts(b)
<1> USE DEF Trying, Saved, Ahead, Leased
<1>1. local \in [Bots -> Worktrees] /\ branch \in Nat
  BY DEF BotInv, TypeOK
<1>2. CASE Elect(b)
  <2>1. \E place \in {"yield", "post"} : Goto(b, place)
    BY <1>2 DEF Elect
  <2> QED  BY <1>1, <1>2, <2>1, GotoActs DEF Elect, spent
<1>3. CASE Confirm(b)
  <2>1. \E place \in {"yield", "open"} : Goto(b, place)
    BY <1>3 DEF Confirm
  <2> QED  BY <1>1, <1>3, <2>1, GotoActs DEF Confirm, spent
<1>4. CASE Open(b)
  <2>1. PICK t \in Worktrees : local' = [local EXCEPT ![b] = t]
    <3>1. local[b] \in Worktrees
      BY <1>1
    <3>2. \A n \in {0, branch} : [has |-> TRUE, seen |-> n] \in Worktrees
      BY <1>1 DEF Worktrees
    <3> QED  BY <1>4, <3>1, <3>2 DEF Open
  <2> QED  BY <1>1, <1>4, <2>1, GotoActs DEF Open, spent
<1>5. CASE OpenFails(b)
  BY <1>1, <1>5, GotoActs DEF OpenFails
<1> QED  BY <1>2, <1>3, <1>4, <1>5

\* The charge is saved before the agent starts, or the attempt is over.
LEMMA ChargeActs ==
    ASSUME BotInv, NEW b \in Bots, Charge(b)
    PROVE  Acts(b)
<1> DEFINE j == [mem[b] EXCEPT !.tries = mem[b].tries + 1]
<1>1. /\ pc[b] = "charge" /\ pc[b] \in Leased /\ JobFits(b) /\ mem[b] \in Jobs /\ disk[b] \in Jobs
      /\ agentRuns[b] \in Nat /\ SaveOrQuit(b, j, "agent")
      /\ agentRuns' = [agentRuns EXCEPT ![b] = IF pc'[b] = "agent" THEN @ + 1 ELSE @]
  BY DEF Charge, Leased, BotInv, TypeOK
<1>2. /\ j \in Jobs /\ j.claim = mem[b].claim /\ j.superseded = mem[b].superseded
      /\ j.owed = mem[b].owed /\ j.tries = mem[b].tries + 1 /\ j.status = mem[b].status
      /\ j.url = mem[b].url
  <2>1. mem[b].tries + 1 \in 0..Attempts
    BY <1>1, Constants DEF JobFits, Ahead, Jobs
  <2> QED  BY <1>1, <2>1 DEF Jobs
<1> HIDE DEF j
<1>3. RunTyped(b) /\ (Becomes(b, "agent", j, j) \/ Becomes(b, "final", j, disk[b]))
  BY <1>1, <1>2, SaveOrQuitIs DEF BotInv, Places, Leased
<1>4. /\ mem[b].claim = disk[b].claim /\ mem[b].claim.status = "working"
      /\ mem[b].tries \in Nat /\ disk[b].tries \in Nat /\ disk[b].tries <= mem[b].tries
      /\ agentRuns[b] <= disk[b].tries
      /\ agentRuns' \in [Bots -> Nat] /\ \A c \in Bots \ {b} : agentRuns'[c] = agentRuns[c]
  BY <1>1 DEF JobFits, Trying, Jobs, BotInv, TypeOK
<1>5. UNCHANGED <<requeue, comments, eligible, branch, pushes, pulls, local, events>>
  BY DEF Charge, github
<1>6. agentRuns'[b] = IF pc'[b] = "agent" THEN agentRuns[b] + 1 ELSE agentRuns[b]
  BY <1>1 DEF BotInv, TypeOK
<1>7. /\ Published(pulls, j) /\ Published(pulls, disk[b]) /\ Claimless(j) /\ Claimless(disk[b])
  BY <1>1, <1>2 DEF JobFits, Published, Claimless
<1>8. JobFits(b)'
  <2>1. CASE Becomes(b, "agent", j, j)
    <3>1. agentRuns'[b] = agentRuns[b] + 1 /\ agentRuns'[b] <= j.tries /\ agentRuns'[b] > 0
      BY <1>1, <1>2, <1>4, <1>6, <2>1 DEF Becomes
    <3>2. j.tries <= j.tries /\ "agent" \notin Saved \cup Ahead
      BY <1>2, <1>4 DEF Saved, Ahead
    <3> QED  BY <1>1, <1>2, <1>4, <1>5, <1>7, <2>1, <3>1, <3>2 DEF JobFits, Becomes
  <2>2. CASE Becomes(b, "final", j, disk[b])
    <3>1. agentRuns'[b] = agentRuns[b] /\ disk[b].tries <= j.tries
      BY <1>1, <1>2, <1>4, <1>6, <2>2 DEF Becomes
    <3>2. "final" \notin Saved \cup Ahead \cup {"agent", "sync"}
      BY DEF Saved, Ahead
    <3> QED  BY <1>1, <1>2, <1>4, <1>5, <1>7, <2>2, <3>1, <3>2 DEF JobFits, Becomes
  <2> QED  BY <1>3, <2>1, <2>2
<1>9. LateStep(b)
  BY <1>3, NotLate DEF Becomes, Late
<1> QED  BY <1>1, <1>2, <1>3, <1>4, <1>5, <1>8, <1>9, ActsAlone DEF BotInv, TypeOK, Becomes

\* An attempt whose agent could not be set up is given back.
LEMMA SetupActs ==
    ASSUME BotInv, NEW b \in Bots, AgentSetup(b)
    PROVE  Acts(b)
<1> DEFINE j == [mem[b] EXCEPT !.tries = mem[b].tries - 1, !.failure = "attempt"]
<1>1. /\ pc[b] = "agent" /\ JobFits(b) /\ mem[b] \in Jobs /\ disk[b] \in Jobs
      /\ agentRuns[b] \in Nat /\ Fault
      /\ mem' = [mem EXCEPT ![b] = j] /\ disk' = [disk EXCEPT ![b] = j] /\ Goto(b, "final")
      /\ agentRuns' = [agentRuns EXCEPT ![b] = agentRuns[b] - 1]
  BY DEF AgentSetup, BotInv, TypeOK
<1>2. /\ mem[b].tries \in Nat /\ disk[b].tries \in Nat /\ disk[b].tries <= mem[b].tries
      /\ agentRuns[b] <= disk[b].tries /\ agentRuns[b] > 0
      /\ mem[b].claim = disk[b].claim /\ mem[b].claim.status = "working"
  BY <1>1 DEF JobFits, Trying, Leased, Jobs
<1>3. /\ j \in Jobs /\ j.claim = mem[b].claim /\ j.superseded = mem[b].superseded
      /\ j.owed = mem[b].owed /\ j.tries = mem[b].tries - 1 /\ j.status = mem[b].status
      /\ j.url = mem[b].url
  <2>1. mem[b].tries - 1 \in 0..Attempts
    BY <1>1, <1>2, Constants DEF Jobs
  <2> QED  BY <1>1, <2>1 DEF Jobs
<1> HIDE DEF j
<1>4. RunTyped(b) /\ Becomes(b, "final", j, j)
  BY <1>1, <1>3, FaultTyped DEF BotInv, TypeOK, RunTyped, Becomes, Goto, Places
<1>5. UNCHANGED <<requeue, comments, eligible, branch, pushes, pulls, local, events>>
  BY DEF AgentSetup, github
<1>6. /\ agentRuns' \in [Bots -> Nat] /\ \A c \in Bots \ {b} : agentRuns'[c] = agentRuns[c]
      /\ agentRuns'[b] = agentRuns[b] - 1
  BY <1>1, <1>2 DEF BotInv, TypeOK
<1>7. Published(pulls, j) /\ Claimless(j)
  BY <1>1, <1>3 DEF JobFits, Published, Claimless
<1>8. JobFits(b)'
  <2>1. agentRuns'[b] <= j.tries /\ j.tries <= j.tries
    BY <1>1, <1>2, <1>3, <1>6
  <2>2. "final" \notin Saved \cup Ahead \cup {"agent", "sync"}
    BY DEF Saved, Ahead
  <2> QED  BY <1>1, <1>2, <1>3, <1>4, <1>5, <1>7, <2>1, <2>2 DEF JobFits, Becomes
<1>9. LateStep(b)
  BY <1>4, NotLate DEF Becomes, Late
<1> QED  BY <1>2, <1>3, <1>4, <1>5, <1>6, <1>8, <1>9, ActsAlone DEF BotInv, TypeOK, Becomes, Leased

\* A call that GitHub did not answer, or refused.
LEMMA UnansweredFits ==
    ASSUME BotInv, NEW b \in Bots, pc[b] \in Leased, PullsMove,
           Unanswered(b) \/ Failed(b), UNCHANGED <<requeue, agentRuns>>
    PROVE  /\ RunTyped(b) /\ JobFits(b)' /\ pc'[b] = "final"
           /\ mem'[b].claim = mem[b].claim /\ mem'[b].superseded = mem[b].superseded
           /\ disk'[b].claim.status = "working"
<1> DEFINE j == [mem[b] EXCEPT !.failure = "attempt"]
<1>1. Keeps(mem[b], j)
  BY Changes
<1> HIDE DEF j
<1>2. CASE Failed(b)
  <2>1. SaveOrQuit(b, j, "final")
    BY <1>2 DEF Failed, j
  <2> QED  BY <1>1, <2>1, QuitFits
<1>3. CASE Unanswered(b)
  <2>1. Fault /\ Goto(b, "final") /\ mem' = [mem EXCEPT ![b] = j] /\ disk' = [disk EXCEPT ![b] = j]
    BY <1>3 DEF Unanswered, j
  <2>2. RunTyped(b) /\ Becomes(b, "final", j, j)
    BY <1>1, <2>1, FaultTyped DEF BotInv, TypeOK, RunTyped, Becomes, Goto, Places, Keeps
  <2>3. mem[b].claim = disk[b].claim /\ mem[b].claim.status = "working"
    BY DEF BotInv, JobFits, Trying
  <2>4. "final" \notin Saved \cup Ahead \cup {"agent", "sync"}
    BY DEF Saved, Ahead
  <2>5. JobFits(b)'
    BY <1>1, <2>2, <2>3, <2>4, RestFits
  <2> QED  BY <1>1, <2>2, <2>3, <2>5 DEF Becomes, Keeps
<1> QED  BY <1>2, <1>3

\* What a step does that writes GitHub's branch or pull requests and ends, or
\* goes on without saving.
LEMMA ProposalActs ==
    ASSUME BotInv, NEW b \in Bots, RunTyped(b), JobFits(b)', PullsMove, PullsOf(b), LateStep(b), TypeOK',
           pc[b] \in Leased, pc'[b] \in Leased \cup {"final"},
           mem'[b].claim = mem[b].claim, mem'[b].superseded = mem[b].superseded,
           disk'[b].claim.status = "working", UNCHANGED <<comments, requeue, agentRuns>>
    PROVE  Acts(b)
<1>1. Leads(b)' /\ EndTold(b)'
  BY Untold DEF Leased
<1> QED  BY <1>1 DEF Acts

LEMMA FailsActs ==
    ASSUME BotInv, NEW b \in Bots, PushFails(b) \/ CreateFails(b)
    PROVE  Acts(b)
BY FailedActs DEF PushFails, CreateFails, Leased

\* A push moves the branch and the heads of the pull requests that show it.
LEMMA PushActs ==
    ASSUME BotInv, NEW b \in Bots, Push(b)
    PROVE  Acts(b)
<1> DEFINE new == pushes + 1
           head(p) == IF pulls[p].state = "open" /\ pulls[p].kind # "elsewhere"
                      THEN [pulls[p] EXCEPT !.head = new] ELSE pulls[p]
<1>1. /\ pc[b] = "push" /\ pushes' = new /\ branch' = new
      /\ local' = [local EXCEPT ![b] = [local[b] EXCEPT !.seen = new]]
      /\ pulls' = [p \in DOMAIN pulls |-> head(p)]
      /\ UNCHANGED <<eligible, comments, requeue, events, agentRuns>>
  BY DEF Push
<1>2. pulls \in Seq(Pulls) /\ pushes \in Nat /\ branch \in Nat /\ local \in [Bots -> Worktrees]
  BY DEF BotInv, TypeOK
<1>3. new \in Nat /\ branch' \in 0..pushes' /\ pushes' \in Nat
  BY <1>1, <1>2
<1>4. \A p \in DOMAIN pulls : /\ head(p) \in Pulls /\ head(p).kind = pulls[p].kind
                              /\ head(p).by = pulls[p].by
  <2> SUFFICES ASSUME NEW p \in DOMAIN pulls
               PROVE  /\ head(p) \in Pulls /\ head(p).kind = pulls[p].kind
                      /\ head(p).by = pulls[p].by
    OBVIOUS
  <2>1. pulls[p] \in Pulls
    BY <1>2
  <2> HIDE DEF new
  <2> QED  BY <1>3, <2>1 DEF Pulls
<1>5. local' \in [Bots -> Worktrees]
  BY <1>1, <1>2, <1>3 DEF Worktrees
<1> HIDE DEF head, new
<1>6. pulls' \in Seq(Pulls) /\ DOMAIN pulls' = DOMAIN pulls
  <2>1. DOMAIN pulls = 1..Len(pulls) /\ Len(pulls) \in Nat
    BY <1>2
  <2>2. pulls' \in [1..Len(pulls) -> Pulls]
    BY <1>1, <1>4, <2>1
  <2> QED  BY <1>1, <2>1, <2>2, FunctionIsASeq
<1>7. PullsMove /\ PullsOf(b)
  BY <1>1, <1>4, <1>6 DEF PullsMove, PullsOf
<1>8. /\ RunTyped(b) /\ JobFits(b)' /\ pc'[b] \in {"recheck", "final"}
      /\ mem'[b].claim = mem[b].claim /\ mem'[b].superseded = mem[b].superseded
      /\ disk'[b].claim.status = "working"
  <2>1. CASE Unanswered(b)
    BY <1>1, <1>7, <2>1, UnansweredFits DEF Leased
  <2>2. CASE Goto(b, "recheck") /\ UNCHANGED <<mem, disk, faults>>
    <3>1. /\ "recheck" \notin Saved \cup Ahead \cup {"agent", "sync"} /\ "recheck" \in Places
      BY DEF Saved, Ahead, Places, Leased
    <3>2. RunTyped(b) /\ Becomes(b, "recheck", mem[b], disk[b])
      BY <2>2, <3>1, GotoIs DEF BotInv
    <3>3. mem[b].claim = disk[b].claim /\ mem[b].claim.status = "working"
      BY <1>1 DEF BotInv, JobFits, Trying, Leased
    <3>4. JobFits(b)'
      BY <1>1, <1>7, <3>1, <3>2, <3>3, Changes, RestFits
    <3> QED  BY <3>2, <3>3, <3>4 DEF Becomes
  <2> QED  BY <2>1, <2>2 DEF Push
<1>9. LateStep(b)
  BY <1>1, <1>8 DEF LateStep, Late
<1>10. TypeOK'
  BY <1>1, <1>3, <1>5, <1>6, <1>8 DEF BotInv, TypeOK, RunTyped
<1> QED  BY <1>1, <1>7, <1>8, <1>9, <1>10, ProposalActs DEF Leased

\* A creation appends the bot's pull request, and the job may not hear of it.
LEMMA CreateActs ==
    ASSUME BotInv, NEW b \in Bots, Create(b)
    PROVE  Acts(b)
<1> DEFINE p == Len(pulls) + 1
           j == [mem[b] EXCEPT !.url = p, !.status = "submitted", !.failure = "none"]
           new == [kind |-> "bot", state |-> "open", head |-> branch, by |-> b]
<1>1. /\ pc[b] = "create" /\ pulls' = Append(pulls, new)
      /\ UNCHANGED <<eligible, comments, branch, pushes, local, requeue, events, agentRuns>>
      /\ SaveOrQuit(b, j, "final") \/ Failed(b) \/ Unanswered(b)
  BY DEF Create
<1>2. pulls \in Seq(Pulls) /\ branch \in Nat /\ Len(pulls) \in Nat /\ new \in Pulls
  BY DEF BotInv, TypeOK, Pulls
<1>3. /\ mem[b] \in Jobs /\ mem[b].superseded \subseteq DOMAIN pulls
  BY DEF BotInv, TypeOK, JobFits
<1>4. /\ pulls' \in Seq(Pulls) /\ DOMAIN pulls' = DOMAIN pulls \cup {p} /\ pulls'[p] = new
      /\ \A q \in DOMAIN pulls : pulls'[q] = pulls[q]
      /\ p \notin DOMAIN pulls /\ p \in Nat /\ \A q \in DOMAIN pulls' : q < p => q \in DOMAIN pulls
  <2> HIDE DEF new
  <2> QED  BY <1>1, <1>2
<1>5. PullsMove /\ PullsOf(b)
  BY <1>1, <1>4 DEF PullsMove, PullsOf
<1>6. Keeps(mem[b], j)
  <2>1. /\ j \in Jobs /\ j.url = p /\ j.status = "submitted" /\ j.claim = mem[b].claim
        /\ j.tries = mem[b].tries /\ j.superseded = mem[b].superseded /\ j.owed = mem[b].owed
    BY <1>3, <1>4 DEF Jobs
  <2> HIDE DEF j
  <2> QED  BY <1>3, <1>4, <2>1 DEF Keeps, Published
<1> HIDE DEF j, new, p
<1>7. /\ RunTyped(b) /\ JobFits(b)' /\ pc'[b] = "final"
      /\ mem'[b].claim = mem[b].claim /\ mem'[b].superseded = mem[b].superseded
      /\ disk'[b].claim.status = "working"
  <2>1. CASE Failed(b) \/ Unanswered(b)
    BY <1>1, <1>5, <2>1, UnansweredFits DEF Leased
  <2>2. CASE SaveOrQuit(b, j, "final")
    BY <1>1, <1>5, <1>6, <2>2, QuitFits DEF Leased
  <2> QED  BY <1>1, <2>1, <2>2
<1>8. LateStep(b)
  BY <1>7, NotLate DEF Late
<1>9. TypeOK'
  BY <1>1, <1>4, <1>7 DEF BotInv, TypeOK, RunTyped
<1> QED  BY <1>1, <1>5, <1>7, <1>8, <1>9, ProposalActs DEF Leased

\* A job whose claim is to be told as released or done.
OwesFit(j, k) ==
    /\ k \in Jobs /\ k.owed /\ k.claim.status \in {"released", "done"} /\ k.claim.n # 0
    /\ k.tries = j.tries /\ k.superseded = j.superseded /\ Published(pulls, k)

LEMMA OwesIs ==
    ASSUME NEW j \in Jobs, j.claim.n # 0, NEW status \in {"released", "done"},
           Published(pulls, j)
    PROVE  OwesFit(j, Owes(j, status)) /\ Owes(j, status).claim.n = j.claim.n
<1> DEFINE c == [j.claim EXCEPT !.status = status]
<1>1. j.claim \in Claims
  BY DEF Jobs
<1>2. c \in Claims /\ c.status = status /\ c.n = j.claim.n
  BY <1>1 DEF Claims
<1>3. Owes(j, status) = [j EXCEPT !.claim = c, !.owed = TRUE]
  BY DEF Owes
<1> HIDE DEF c
<1> QED  BY <1>2, <1>3 DEF OwesFit, Jobs, Published

\* A run saves that its claim is over and has the comment told next.
LEMMA OwingActs ==
    ASSUME BotInv, NEW b \in Bots, NEW k, OwesFit(mem[b], k), SaveOrEnd(b, k, "deliver"),
           UNCHANGED <<github, local, requeue, events, agentRuns>>
    PROVE  Acts(b)
<1>1. k \in Jobs /\ "deliver" \in Places
  BY DEF OwesFit, Places
<1>2. RunTyped(b) /\ (Becomes(b, "deliver", k, k) \/ Ended(b))
  BY <1>1, SaveOrEndIs DEF BotInv
<1>3. CASE Ended(b)
  BY <1>2, <1>3, EndActs DEF BotInv, TypeOK, github
<1>4. CASE Becomes(b, "deliver", k, k)
  <2>1. JobFits(b) /\ agentRuns[b] \in Nat /\ disk[b] \in Jobs /\ mem[b] \in Jobs
    BY DEF BotInv, TypeOK
  <2>2. "deliver" \notin Trying \cup Ahead \cup Late \cup Leased \cup {"agent", "sync", "confirm"}
    BY DEF Trying, Ahead, Late, Leased
  <2>3. agentRuns[b] <= k.tries /\ k.tries <= k.tries
    BY <2>1 DEF OwesFit, JobFits, Jobs
  <2>4. JobFits(b)'
    <3>1. Published(pulls, k) /\ Claimless(k)
      BY <2>1 DEF OwesFit, JobFits, Published, Claimless
    <3> QED  BY <1>4, <2>1, <2>2, <2>3, <3>1 DEF JobFits, Becomes, OwesFit, github
  <2>5. LateStep(b)
    BY <1>4, <2>2, NotLate DEF Becomes
  <2> QED  BY <1>2, <1>4, <2>2, <2>4, <2>5, ActsAlone DEF BotInv, TypeOK, github, Becomes, OwesFit
<1> QED  BY <1>2, <1>3, <1>4

\* A lost election, and the end of an attempt.
LEMMA OverActs ==
    ASSUME BotInv, NEW b \in Bots, Yield(b) \/ Final(b)
    PROVE  Acts(b)
<1>1. pc[b] \in Trying
  BY DEF Yield, Final, Trying
<1>2. mem[b] \in Jobs /\ mem[b].claim.n # 0 /\ Published(pulls, mem[b])
  BY <1>1 DEF BotInv, TypeOK, JobFits, Claimless
<1>3. PICK status \in {"released", "done"} : SaveOrEnd(b, Owes(mem[b], status), "deliver")
  BY DEF Yield, Final
<1> QED  BY <1>2, <1>3, OwesIs, OwingActs DEF Yield, Final

\* A number for a claim that GitHub has no comment of.
LEMMA NextClaimIs ==
    ASSUME BotInv, NEW b \in Bots
    PROVE  /\ NextClaim(b) \in Claims /\ NextClaim(b).n # 0 /\ NextClaim(b).status = "working"
<1> DEFINE mine == {i \in DOMAIN comments : comments[i].bot = b}
<1>1. DOMAIN comments = 1..Len(comments) /\ Len(comments) \in Nat
  BY DEF BotInv, TypeOK
<1>2. IsFiniteSet(mine)
  <2>1. IsFiniteSet(1..Len(comments))
    BY <1>1, FS_Interval
  <2>2. mine \subseteq 1..Len(comments)
    BY <1>1
  <2> HIDE DEF mine
  <2> QED  BY <2>1, <2>2, FS_Subset
<1>3. Cardinality(mine) \in Nat
  BY <1>2, FS_CardinalityType
<1> HIDE DEF mine
<1>4. NextClaim(b) = [n |-> 1 + Cardinality(mine), status |-> "working"]
  BY DEF NextClaim, mine
<1> QED  BY <1>3, <1>4 DEF Claims

\* A scan that ends the run with a saved job, its claim as it was.
LEMMA ScanSaves ==
    ASSUME BotInv, NEW b \in Bots, pc[b] = "scan", NEW k, Keeps(mem[b], k),
           NEW place \in {"deliver", "idle"}, SaveOrEnd(b, k, place),
           UNCHANGED <<github, local, requeue, events, agentRuns>>
    PROVE  Acts(b)
<1>1. k \in Jobs /\ place \in Places
      /\ place \notin Trying \cup Ahead \cup Late \cup Leased \cup {"agent", "sync", "confirm"}
  BY DEF Keeps, Places, Trying, Ahead, Late, Leased
<1>2. RunTyped(b) /\ (Becomes(b, place, k, k) \/ Ended(b))
  BY <1>1, SaveOrEndIs DEF BotInv
<1>3. CASE Ended(b)
  BY <1>2, <1>3, EndActs DEF BotInv, TypeOK, github
<1>4. CASE Becomes(b, place, k, k)
  <2>1. JobFits(b)'
    BY <1>1, <1>4, PullsRest, RestFits DEF BotInv, github
  <2>2. mem[b] = disk[b]
    BY DEF BotInv, JobFits, Saved
  <2>3. LateStep(b)
    BY <1>1, <1>4, NotLate DEF Becomes
  <2> QED  BY <1>1, <1>2, <1>4, <2>1, <2>2, <2>3, ActsAlone DEF BotInv, TypeOK, github, Becomes, Keeps
<1> QED  BY <1>2, <1>3, <1>4

\* A scan that saves the claim it takes part in the election with.
LEMMA ScanElects ==
    ASSUME BotInv, NEW b \in Bots, pc[b] = "scan", InBudget(mem[b]),
           NEW k \in Jobs, Published(pulls, k), k.claim.n # 0, k.claim.status = "working",
           k.tries = mem[b].tries, k.superseded = mem[b].superseded, SaveOrEnd(b, k, "elect"),
           UNCHANGED <<github, local, requeue, events, agentRuns>>
    PROVE  Acts(b)
<1>1. RunTyped(b) /\ (Becomes(b, "elect", k, k) \/ Ended(b))
  BY SaveOrEndIs DEF BotInv, Places
<1>2. CASE Ended(b)
  BY <1>1, <1>2, EndActs DEF BotInv, TypeOK, github
<1>3. CASE Becomes(b, "elect", k, k)
  <2>1. JobFits(b) /\ agentRuns[b] \in Nat /\ disk[b] \in Jobs /\ mem[b] \in Jobs
    BY DEF BotInv, TypeOK
  <2>2. agentRuns[b] <= k.tries /\ k.tries <= k.tries /\ k.tries < Attempts
    BY <2>1 DEF JobFits, Jobs, InBudget
  <2>3. "elect" \notin Late \cup Leased \cup {"agent", "sync", "confirm"}
    BY DEF Late, Leased
  <2>4. JobFits(b)'
    BY <1>3, <2>1, <2>2, <2>3 DEF JobFits, Becomes, Claimless, github
  <2>5. LateStep(b)
    BY <1>3, <2>3, NotLate DEF Becomes
  <2> QED  BY <1>1, <1>3, <2>3, <2>4, <2>5, ActsAlone DEF BotInv, TypeOK, github, Becomes
<1> QED  BY <1>1, <1>2, <1>3

LEMMA ClearedFits ==
    ASSUME BotInv, NEW b \in Bots, UNCHANGED pulls, NEW u \in Nat
    PROVE  LET c == Cleared(mem[b]) IN
           /\ Keeps(mem[b], c) /\ Keeps(mem[b], [c EXCEPT !.status = "has_pr", !.url = u])
           /\ Keeps(mem[b], [c EXCEPT !.status = "blocked"])
<1>1. PullsMove
  BY PullsRest DEF BotInv
<1> DEFINE c == Cleared(mem[b])
<1>2. Keeps(mem[b], c)
  BY <1>1, Changes DEF Cleared
<1> HIDE DEF c
<1> QED  BY <1>2 DEF c, Keeps, Jobs, Published

\* A claim a job has is not the absent one, which has no number.
LEMMA ClaimKnown ==
    ASSUME NEW j \in Jobs, Claimless(j), j.claim # NoClaim
    PROVE  j.claim.n # 0
BY DEF Jobs, Claims, Claimless, NoClaim

\* The pull request an instance finds is recorded, under a claim of its own.
LEMMA ScanFoundActs ==
    ASSUME BotInv, NEW b \in Bots, pc[b] = "scan", ScanFound(b),
           UNCHANGED <<github, local, requeue, events, agentRuns>>
    PROVE  Acts(b)
<1> DEFINE j == RecordPull(mem[b], Ours(mem[b]))
           c == IF j.claim = NoClaim THEN NextClaim(b) ELSE j.claim
           k == [j EXCEPT !.claim = c]
<1>1. Lookup(mem[b]) = "ours" /\ SaveOrEnd(b, Owes(k, "done"), "deliver")
  BY DEF ScanFound
<1>2. Keeps(mem[b], j) /\ UNCHANGED pulls
  BY <1>1, RecordFits, PullsRest DEF BotInv, github
<1>3. NextClaim(b) \in Claims /\ NextClaim(b).n # 0
  BY NextClaimIs
<1>4. mem[b] \in Jobs /\ Claimless(mem[b])
  BY DEF BotInv, TypeOK, JobFits
<1>5. j \in Jobs /\ Claimless(j) /\ Published(pulls, j)
  BY <1>2, <1>4 DEF Keeps, Claimless
<1> HIDE DEF j
<1>6. c \in Claims /\ c.n # 0
  BY <1>3, <1>5, ClaimKnown DEF Jobs
<1> HIDE DEF c
<1>7. k \in Jobs /\ k.claim = c /\ k.tries = j.tries /\ k.superseded = j.superseded
      /\ k.status = j.status /\ k.url = j.url
  BY <1>5, <1>6 DEF Jobs
<1> HIDE DEF k
<1>8. k.claim.n # 0 /\ Published(pulls, k)
  BY <1>5, <1>6, <1>7 DEF Published
<1>9. OwesFit(k, Owes(k, "done"))
  BY <1>7, <1>8, OwesIs
<1>10. OwesFit(mem[b], Owes(k, "done"))
  BY <1>2, <1>7, <1>9 DEF OwesFit, Keeps
<1> QED  BY <1>1, <1>10, OwingActs

\* A job whose budget is spent gives its claim back.
LEMMA ScanExhaustedActs ==
    ASSUME BotInv, NEW b \in Bots, pc[b] = "scan", ScanExhausted(b),
           UNCHANGED <<github, local, requeue, events, agentRuns>>
    PROVE  Acts(b)
<1> DEFINE k == [Cleared(mem[b]) EXCEPT !.status = "blocked"]
<1>1. SaveOrEnd(b, Released(k), "deliver")
  BY DEF ScanExhausted
<1>2. Keeps(mem[b], k) /\ UNCHANGED pulls
  BY ClearedFits, Constants DEF github
<1>3. mem[b] \in Jobs /\ Claimless(mem[b])
  BY DEF BotInv, TypeOK, JobFits
<1> HIDE DEF k
<1>4. k \in Jobs /\ Claimless(k) /\ Published(pulls, k)
  BY <1>2, <1>3 DEF Keeps, Claimless
<1>5. CASE k.claim = NoClaim
  BY <1>1, <1>2, <1>5, ScanSaves DEF Released
<1>6. CASE k.claim # NoClaim
  <2>1. OwesFit(k, Owes(k, "released"))
    BY <1>4, <1>6, ClaimKnown, OwesIs
  <2>2. OwesFit(mem[b], Owes(k, "released"))
    BY <1>2, <2>1 DEF OwesFit, Keeps
  <2> QED  BY <1>1, <1>6, <2>2, OwingActs DEF Released
<1> QED  BY <1>5, <1>6

\* A claim that is still at work is taken up again, any other is followed by a
\* new one.
LEMMA ScanClaimsActs ==
    ASSUME BotInv, NEW b \in Bots, pc[b] = "scan", ScanClaims(b),
           UNCHANGED <<github, local, requeue, events, agentRuns>>
    PROVE  Acts(b)
<1> DEFINE j == Cleared(mem[b])
           k == [j EXCEPT !.claim = NextClaim(b)]
<1>1. InBudget(mem[b])
  BY DEF ScanClaims
<1>2. /\ NextClaim(b) \in Claims /\ NextClaim(b).n # 0 /\ NextClaim(b).status = "working"
  BY NextClaimIs
<1>3. Keeps(mem[b], j) /\ UNCHANGED pulls
  BY ClearedFits, Constants DEF github
<1>4. Claimless(mem[b])
  BY DEF BotInv, JobFits
<1>5. CASE mem[b].claim.status = "working" /\ SaveOrEnd(b, j, "elect")
  <2>1. j \in Jobs /\ Published(pulls, j) /\ j.claim.n # 0 /\ j.claim.status = "working"
        /\ j.tries = mem[b].tries /\ j.superseded = mem[b].superseded
    BY <1>3, <1>4, <1>5 DEF Keeps, Claimless
  <2> HIDE DEF j
  <2> QED  BY <1>1, <1>5, <2>1, ScanElects
<1>6. CASE SaveOrEnd(b, k, "elect")
  <2>1. j \in Jobs
    BY <1>3 DEF Keeps
  <2> HIDE DEF j
  <2>2. k \in Jobs /\ k.claim = NextClaim(b) /\ k.tries = j.tries /\ k.superseded = j.superseded
        /\ k.status = j.status /\ k.url = j.url
    BY <1>2, <2>1 DEF Jobs
  <2> HIDE DEF k
  <2>3. k \in Jobs /\ Published(pulls, k) /\ k.claim.n # 0 /\ k.claim.status = "working"
        /\ k.tries = mem[b].tries /\ k.superseded = mem[b].superseded
    BY <1>2, <1>3, <2>2 DEF Keeps, Published
  <2> QED  BY <1>1, <1>6, <2>3, ScanElects
<1> QED  BY <1>5, <1>6 DEF ScanClaims

LEMMA ScanActs ==
    ASSUME BotInv, NEW b \in Bots, Scan(b)
    PROVE  Acts(b)
<1>1. pc[b] = "scan" /\ UNCHANGED <<github, local, requeue, events, agentRuns>>
  BY DEF Scan
<1>2. CASE ScanIdle(b)
  <2>1. RunTyped(b) /\ Ended(b)
    BY <1>2, EndsIs DEF BotInv, ScanIdle
  <2> QED  BY <1>1, <2>1, EndActs DEF BotInv, TypeOK, github
<1>3. CASE ScanMismatch(b)
  <2>1. Keeps(mem[b], [mem[b] EXCEPT !.failure = "lookup"])
    BY <1>1, Changes, PullsRest, Constants DEF BotInv, github
  <2> QED  BY <1>1, <1>3, <2>1, ScanSaves DEF ScanMismatch
<1>4. CASE ScanFound(b)
  BY <1>1, <1>4, ScanFoundActs
<1>5. CASE ScanIneligible(b)
  <2>1. Keeps(mem[b], Cleared(mem[b]))
    BY <1>1, ClearedFits, Constants DEF github
  <2> QED  BY <1>1, <1>5, <2>1, ScanSaves DEF ScanIneligible
<1>6. CASE ScanLinked(b)
  <2>1. PICK p \in Linked(mem[b]) :
            SaveOrEnd(b, [Cleared(mem[b]) EXCEPT !.status = "has_pr", !.url = p], "idle")
    BY <1>6 DEF ScanLinked
  <2>2. p \in Nat
    BY DEF Linked, BotInv, TypeOK
  <2>3. Keeps(mem[b], [Cleared(mem[b]) EXCEPT !.status = "has_pr", !.url = p])
    BY <1>1, <2>2, ClearedFits DEF github
  <2> QED  BY <1>1, <2>1, <2>3, ScanSaves
<1>7. CASE ScanExhausted(b)
  BY <1>1, <1>7, ScanExhaustedActs
<1>8. CASE ScanClaims(b)
  BY <1>1, <1>8, ScanClaimsActs
<1> QED  BY <1>2, <1>3, <1>4, <1>5, <1>6, <1>7, <1>8 DEF Scan

\* A run starts from the saved job.
LEMMA DispatchActs ==
    ASSUME BotInv, NEW b \in Bots, Dispatch(b)
    PROVE  Acts(b)
<1> DEFINE place == IF disk[b].owed /\ disk[b].claim.status # "working" THEN "sync" ELSE "scan"
<1>1. /\ pc[b] = "idle" /\ mem' = [mem EXCEPT ![b] = disk[b]] /\ Goto(b, place)
      /\ UNCHANGED <<github, disk, local, requeue, spent, agentRuns>>
  BY DEF Dispatch, Start
<1>2. place \in {"sync", "scan"} /\ place \in Places
  BY DEF Places
<1>3. RunTyped(b) /\ Becomes(b, place, disk[b], disk[b])
  BY <1>1, <1>2 DEF BotInv, TypeOK, RunTyped, Becomes, Goto, spent
<1>4. /\ JobFits(b) /\ mem[b] = disk[b] /\ disk[b].tries <= disk[b].tries
      /\ place = "sync" => disk[b].owed /\ disk[b].claim.status # "working"
  BY <1>1 DEF BotInv, TypeOK, JobFits, Saved, Jobs
<1> HIDE DEF place
<1>5. place \notin Trying \cup Ahead \cup Late \cup Leased \cup {"agent", "confirm"}
  BY <1>2 DEF Trying, Ahead, Late, Leased
<1>6. JobFits(b)'
  BY <1>1, <1>3, <1>4, <1>5 DEF JobFits, Becomes, github
<1>7. LateStep(b)
  BY <1>3, <1>5, NotLate DEF Becomes
<1> QED  BY <1>1, <1>3, <1>4, <1>5, <1>6, <1>7, ActsAlone DEF BotInv, TypeOK, Becomes, github, spent

\* A job that gets its budget back.
LEMMA ResetActs ==
    ASSUME BotInv, NEW b \in Bots, pc[b] = "idle", NEW k \in Jobs, NEW place \in {"idle", "sync", "scan"},
           k.tries = 0, k.status = "pending", Claimless(k), disk[b].superseded \subseteq k.superseded,
           k.superseded \subseteq DOMAIN pulls,
           place = "sync" => k.owed /\ k.claim.status # "working",
           k.owed \/ (k.claim = disk[b].claim /\ k.owed = disk[b].owed),
           disk' = [disk EXCEPT ![b] = k], mem' = [mem EXCEPT ![b] = k], Goto(b, place),
           agentRuns' = [agentRuns EXCEPT ![b] = 0], local' \in [Bots -> Worktrees],
           faults' \in 0..MaxFaults, events' \in 0..MaxEvents, UNCHANGED <<github, requeue>>
    PROVE  Acts(b)
<1>1. place \in Places /\ place \notin Trying \cup Ahead \cup Late \cup Leased \cup {"agent", "confirm"}
  BY DEF Places, Trying, Ahead, Late, Leased
<1>2. RunTyped(b) /\ Becomes(b, place, k, k)
  BY <1>1 DEF BotInv, TypeOK, RunTyped, Becomes, Goto
<1>3. JobFits(b) /\ mem[b].superseded = disk[b].superseded
  BY DEF BotInv, JobFits
<1>4. /\ agentRuns' \in [Bots -> Nat] /\ agentRuns'[b] = 0
      /\ \A c \in Bots \ {b} : agentRuns'[c] = agentRuns[c]
  BY DEF BotInv, TypeOK
<1>5. Published(pulls, k)
  BY DEF Published
<1>6. JobFits(b)'
  <2>1. agentRuns'[b] <= k.tries /\ k.tries <= k.tries
    BY <1>4
  <2> QED  BY <1>1, <1>2, <1>3, <1>5, <2>1 DEF JobFits, Becomes, github
<1>7. LateStep(b)
  BY <1>1, <1>2, NotLate DEF Becomes
<1> QED  BY <1>1, <1>2, <1>3, <1>4, <1>6, <1>7, ActsAlone DEF BotInv, TypeOK, Becomes, github

\* Town's requeue: the closed pull request is superseded, the claim given back.
LEMMA RestartedIs ==
    ASSUME NEW j \in Jobs, Claimless(j), j.claim.status # "working", NEW p \in Nat
    PROVE  LET k == Restarted(j, p) IN
           /\ k \in Jobs /\ k.tries = 0 /\ k.status = "pending" /\ Claimless(k)
           /\ k.superseded = j.superseded \cup {p} /\ k.claim.status # "working"
           /\ k.owed \/ (k.claim = j.claim /\ k.owed = j.owed)
<1> DEFINE fresh == [j EXCEPT !.status = "pending", !.tries = 0, !.failure = "none",
                              !.url = 0, !.superseded = j.superseded \cup {p}]
<1>1. /\ fresh \in Jobs /\ fresh.tries = 0 /\ fresh.status = "pending"
      /\ fresh.superseded = j.superseded \cup {p} /\ fresh.claim = j.claim /\ fresh.owed = j.owed
  BY Constants DEF Jobs
<1>2. Restarted(j, p) = IF j.claim.status \in {"none", "released"} THEN fresh
                        ELSE Owes(fresh, "released")
  BY DEF Restarted
<1> HIDE DEF fresh
<1>3. CASE j.claim.status \in {"none", "released"}
  BY <1>1, <1>2, <1>3 DEF Claimless
<1>4. CASE j.claim.status \notin {"none", "released"}
  <2> DEFINE c == [fresh.claim EXCEPT !.status = "released"]
  <2>1. j.claim \in Claims /\ j.claim.n # 0
    BY <1>4 DEF Claimless, Jobs
  <2>2. c \in Claims /\ c.n = j.claim.n /\ c.status = "released"
    BY <1>1, <2>1 DEF Claims
  <2>3. Restarted(j, p) = [fresh EXCEPT !.claim = c, !.owed = TRUE]
    BY <1>2, <1>4 DEF Owes
  <2> HIDE DEF c
  <2> DEFINE k == [fresh EXCEPT !.claim = c, !.owed = TRUE]
  <2>4. k \in Jobs /\ k.tries = 0 /\ k.status = "pending" /\ k.superseded = j.superseded \cup {p}
        /\ k.claim = c /\ k.owed
    BY <1>1, <2>2 DEF Jobs
  <2>5. Restarted(j, p) = k
    BY <2>3
  <2> HIDE DEF k
  <2>6. Claimless(k) /\ k.claim.status # "working"
    BY <2>1, <2>2, <2>4 DEF Claimless
  <2> QED  BY <2>4, <2>5, <2>6
<1> QED  BY <1>3, <1>4

LEMMA RequeueActs ==
    ASSUME BotInv, NEW b \in Bots, Requeue(b)
    PROVE  Acts(b)
<1> DEFINE p == requeue[b]
           k == Restarted(disk[b], p)
           place == IF k.owed /\ k.claim.status # "working" THEN "sync" ELSE "scan"
<1>1. /\ pc[b] = "idle" /\ p # 0 /\ disk[b].claim.status # "working"
      /\ local' = [local EXCEPT ![b] = NoTree] /\ (Fault \/ UNCHANGED faults)
      /\ disk' = [disk EXCEPT ![b] = k] /\ mem' = [mem EXCEPT ![b] = k] /\ Goto(b, place)
      /\ agentRuns' = [agentRuns EXCEPT ![b] = 0] /\ UNCHANGED <<github, requeue, events>>
  BY DEF Requeue, Start
<1>2. /\ disk[b] \in Jobs /\ Claimless(disk[b]) /\ p \in DOMAIN pulls /\ p \in Nat
      /\ disk[b].superseded \subseteq DOMAIN pulls
  BY <1>1 DEF BotInv, TypeOK, JobFits
<1>3. /\ k \in Jobs /\ k.tries = 0 /\ k.status = "pending" /\ Claimless(k)
      /\ k.superseded = disk[b].superseded \cup {p} /\ k.claim.status # "working"
      /\ k.owed \/ (k.claim = disk[b].claim /\ k.owed = disk[b].owed)
  BY <1>1, <1>2, RestartedIs
<1>4. place \in {"idle", "sync", "scan"} /\ (place = "sync" => k.owed /\ k.claim.status # "working")
  OBVIOUS
<1>5. local' \in [Bots -> Worktrees] /\ faults' \in 0..MaxFaults /\ events' \in 0..MaxEvents
  <2>1. NoTree \in Worktrees
    BY DEF NoTree, Worktrees
  <2> QED  BY <1>1, <2>1, FaultTyped DEF BotInv, TypeOK
<1> HIDE DEF p, place, k
<1> QED  BY <1>1, <1>2, <1>3, <1>4, <1>5, ResetActs

LEMMA RetryActs ==
    ASSUME BotInv, NEW b \in Bots, Retry(b)
    PROVE  Acts(b)
<1> DEFINE k == [disk[b] EXCEPT !.tries = 0, !.status = "pending"]
<1>1. /\ pc[b] = "idle" /\ disk' = [disk EXCEPT ![b] = k] /\ mem' = [mem EXCEPT ![b] = disk'[b]]
      /\ agentRuns' = [agentRuns EXCEPT ![b] = 0] /\ UNCHANGED <<github, local, pc, requeue, faults>>
      /\ events' \in 0..MaxEvents
  BY Constants DEF Retry, Event, BotInv, TypeOK
<1>2. disk'[b] = k /\ mem' = [mem EXCEPT ![b] = k]
  BY <1>1 DEF BotInv, TypeOK
<1>3. Goto(b, "idle") /\ local' \in [Bots -> Worktrees] /\ faults' \in 0..MaxFaults
  BY <1>1 DEF Goto, BotInv, TypeOK
<1>4. /\ disk[b] \in Jobs /\ Claimless(disk[b]) /\ disk[b].superseded \subseteq DOMAIN pulls
  BY DEF BotInv, TypeOK, JobFits
<1>5. /\ k \in Jobs /\ k.tries = 0 /\ k.status = "pending" /\ k.claim = disk[b].claim
      /\ k.superseded = disk[b].superseded /\ k.owed = disk[b].owed
  BY <1>4, Constants DEF Jobs
<1> HIDE DEF k
<1>6. Claimless(k)
  BY <1>4, <1>5 DEF Claimless
<1> QED  BY <1>1, <1>2, <1>3, <1>4, <1>5, <1>6, ResetActs

\* The claim's comment is posted, or edited if its first posting was not answered.
LEMMA PostActs ==
    ASSUME BotInv, NEW b \in Bots, Post(b)
    PROVE  Acts(b)
<1> DEFINE n == mem[b].claim.n
           cm == [bot |-> b, n |-> n, status |-> "working", live |-> TRUE]
           i == Comment(comments, b, n)
<1>1. /\ pc[b] = "post" /\ comments' = Posted(b)
      /\ UNCHANGED <<eligible, branch, pulls, pushes, local, requeue, events, agentRuns>>
  BY DEF Post
<1>2. /\ n \in Nat /\ n # 0 /\ mem[b] = disk[b] /\ mem[b].claim.status = "working"
      /\ mem[b].tries < Attempts
  BY <1>1 DEF BotInv, TypeOK, Jobs, Claims, JobFits, Claimless, Trying, Saved, Ahead
<1>3. cm \in Comments /\ cm.bot = b /\ cm.n = n /\ cm.status = "working" /\ cm.live
  BY <1>2 DEF Comments
<1>4. comments' = IF i = 0 THEN Append(comments, cm) ELSE [comments EXCEPT ![i] = cm]
  BY <1>1, CommentOfIs DEF Posted
<1> HIDE DEF cm, n
<1>5. CommentsMove(b) /\ Comment(comments', b, n) # 0 /\ comments'[Comment(comments', b, n)] = cm
  BY <1>2, <1>3, <1>4, CommentWritten DEF BotInv
<1>6. comments' \in Seq(Comments)
  BY <1>5 DEF CommentsMove
<1>7. PullsMove /\ PullsOf(b)
  BY <1>1, SamePulls DEF BotInv
<1>8. CASE Goto(b, "confirm") /\ UNCHANGED <<mem, disk, faults>>
  <2>1. /\ "confirm" \in Places /\ "confirm" \notin Late \cup {"agent", "sync"}
    BY DEF Places, Late
  <2>2. RunTyped(b) /\ Becomes(b, "confirm", mem[b], disk[b])
    BY <1>8, <2>1, GotoIs DEF BotInv
  <2>3. JobFits(b)'
    BY <1>1, <1>2, <1>7, <2>1, <2>2, Changes, RestFits
  <2>4. Leads(b)' /\ EndTold(b)'
    BY <1>2, <1>3, <1>5, <2>2 DEF Leads, EndTold, Id, Becomes, n
  <2>5. LateStep(b)
    BY <2>1, <2>2, NotLate DEF Becomes
  <2>6. TypeOK'
    BY <1>1, <1>6, <2>2 DEF BotInv, TypeOK, RunTyped
  <2> QED  BY <1>1, <1>5, <1>7, <2>2, <2>3, <2>4, <2>5, <2>6 DEF Acts, Becomes, BotInv, TypeOK, Jobs
<1>9. CASE Fault /\ Ends(b)
  <2>1. RunTyped(b) /\ Ended(b)
    BY <1>9, EndsIs DEF BotInv
  <2>2. JobFits(b)'
    BY <1>1, <1>7, <2>1, EndedFits
  <2>3. "idle" \notin Leased \cup Late
    BY DEF Leased, Late
  <2>4. Leads(b)' /\ EndTold(b)'
    BY <1>2, <2>1, <2>3 DEF Leads, EndTold, Ended, Becomes
  <2>5. LateStep(b)
    BY <2>1, <2>3, NotLate DEF Ended, Becomes
  <2>6. TypeOK'
    BY <1>1, <1>6, <2>1 DEF BotInv, TypeOK, RunTyped
  <2> QED  BY <1>1, <1>2, <1>5, <1>7, <2>1, <2>2, <2>4, <2>5, <2>6 DEF Acts, Ended, Becomes
<1> QED  BY <1>8, <1>9 DEF Post

\* Telling how a claim ended writes only its comment, and says just that there.
LEMMA ToldIs ==
    ASSUME BotInv, NEW b \in Bots, comments' = Told(b, mem[b])
    PROVE  /\ CommentsMove(b) \/ UNCHANGED comments
           /\ LET i == Comment(comments', b, mem[b].claim.n)
              IN  i # 0 => comments'[i].status = mem[b].claim.status
<1> DEFINE n == mem[b].claim.n
           st == mem[b].claim.status
           i == Comment(comments, b, n)
           cm == [bot |-> b, n |-> n, status |-> st, live |-> FALSE]
<1>1. /\ n \in Nat /\ st \in {"none", "working", "done", "released"} /\ (n = 0 <=> st = "none")
      /\ comments \in Seq(Comments) /\ Named
  BY DEF BotInv, TypeOK, Jobs, Claims, JobFits, Claimless
<1>2. comments' = IF i # 0 THEN [comments EXCEPT ![i] = [comments[i] EXCEPT !.status = st, !.live = FALSE]]
                  ELSE IF st = "done" THEN Append(comments, cm) ELSE comments
  BY CommentOfIs DEF Told
<1>3. n # 0 => cm \in Comments /\ cm.bot = b /\ cm.n = n /\ cm.status = st
  BY <1>1 DEF Comments
<1>4. CASE i # 0
  <2>1. i \in DOMAIN comments /\ comments[i].bot = b /\ comments[i].n = n
    BY <1>1, <1>4, CommentIs
  <2>2. comments[i] \in Comments
    BY <1>1, <2>1
  <2>3. n # 0
    BY <1>1, <2>1 DEF Named
  <2> HIDE DEF i
  <2> DEFINE new == [comments[i] EXCEPT !.status = st, !.live = FALSE]
  <2>4. new \in Comments /\ new.bot = b /\ new.n = n /\ new.status = st
    BY <1>1, <2>1, <2>2, <2>3 DEF Comments
  <2>5. comments' = IF i = 0 THEN Append(comments, new) ELSE [comments EXCEPT ![i] = new]
    BY <1>2, <1>4
  <2> HIDE DEF new, st, n
  <2>6. CommentsMove(b) /\ comments'[Comment(comments', b, n)] = new
    BY <2>3, <2>4, <2>5, CommentWritten DEF BotInv, i
  <2> QED  BY <2>3, <2>4, <2>6 DEF n, st
<1>5. CASE i = 0 /\ st = "done"
  <2> HIDE DEF cm
  <2>1. comments' = IF i = 0 THEN Append(comments, cm) ELSE [comments EXCEPT ![i] = cm]
    BY <1>2, <1>5
  <2>2. n # 0
    BY <1>1, <1>5
  <2> HIDE DEF n, st
  <2>3. CommentsMove(b) /\ comments'[Comment(comments', b, n)] = cm
    BY <1>3, <2>1, <2>2, CommentWritten DEF BotInv
  <2> QED  BY <1>3, <2>2, <2>3 DEF n, st
<1>6. CASE i = 0 /\ st # "done"
  BY <1>2, <1>6
<1> QED  BY <1>4, <1>5, <1>6

\* Telling it saves that nothing is owed, or leaves it owed.
LEMMA TellActs ==
    ASSUME BotInv, NEW b \in Bots, pc[b] \in {"sync", "deliver"}, mem[b].owed,
           comments' \in {comments, Told(b, mem[b])}, NEW k \in Jobs, NEW place \in {"scan", "idle"},
           RunTyped(b), Becomes(b, place, k, k),
           k = mem[b] \/ (k = [mem[b] EXCEPT !.owed = FALSE] /\ comments' = Told(b, mem[b])),
           UNCHANGED <<eligible, branch, pulls, pushes, local, requeue, events, agentRuns>>
    PROVE  Acts(b)
<1>1. CommentsMove(b) \/ UNCHANGED comments
  BY ToldIs
<1>2. comments' \in Seq(Comments)
  BY <1>1 DEF CommentsMove, BotInv, TypeOK
<1>3. TypeOK'
  BY <1>2 DEF BotInv, TypeOK, RunTyped
<1>4. /\ mem[b] \in Jobs /\ JobFits(b) /\ mem[b] = disk[b]
  BY DEF BotInv, TypeOK, JobFits, Saved
<1>5. /\ k.claim = mem[b].claim /\ k.tries = mem[b].tries /\ k.superseded = mem[b].superseded
      /\ k.status = mem[b].status /\ k.url = mem[b].url /\ k.tries <= k.tries
      /\ k.owed \/ comments' = Told(b, mem[b])
  BY <1>4 DEF Jobs
<1>6. place \notin Trying \cup Ahead \cup Late \cup Leased \cup {"agent", "sync", "confirm"}
  BY DEF Trying, Ahead, Late, Leased
<1>7. JobFits(b)'
  BY <1>4, <1>5, <1>6 DEF JobFits, Becomes, Published, Claimless
<1>8. EndTold(b)'
  <2>1. CASE k.owed
    BY <2>1 DEF EndTold, Becomes
  <2>2. CASE comments' = Told(b, mem[b])
    BY <1>5, <2>2, ToldIs DEF EndTold, Becomes
  <2> QED  BY <1>5, <2>1, <2>2
<1>9. Leads(b)' /\ LateStep(b)
  BY <1>6, NotLate DEF Leads, Becomes
<1> QED  BY <1>1, <1>3, <1>5, <1>7, <1>8, <1>9, SamePulls DEF Acts, Becomes, BotInv

LEMMA SyncActs ==
    ASSUME BotInv, NEW b \in Bots, Sync(b)
    PROVE  Acts(b)
<1> DEFINE k == [mem[b] EXCEPT !.owed = FALSE]
<1>1. /\ pc[b] = "sync" /\ mem[b].owed /\ mem[b] = disk[b] /\ mem[b] \in Jobs /\ "scan" \in Places
      /\ UNCHANGED <<eligible, branch, pulls, pushes, local, requeue, events, agentRuns>>
  BY DEF Sync, BotInv, TypeOK, JobFits, Saved, Places
<1>2. k \in Jobs
  BY <1>1 DEF Jobs
<1> HIDE DEF k
<1>3. CASE comments' = Told(b, mem[b]) /\ Save(b, k, "scan")
  <2>1. RunTyped(b) /\ Becomes(b, "scan", k, k)
    BY <1>1, <1>2, <1>3, SaveIs DEF BotInv
  <2> QED  BY <1>1, <1>2, <1>3, <2>1, TellActs DEF k
<1>4. CASE /\ comments' \in {comments, Told(b, mem[b])}
           /\ Fault /\ Goto(b, "scan") /\ UNCHANGED <<mem, disk>>
  <2>1. RunTyped(b) /\ Becomes(b, "scan", mem[b], mem[b])
    BY <1>1, <1>4, GotoIs DEF BotInv
  <2> QED  BY <1>1, <1>4, <2>1, TellActs
<1> QED  BY <1>3, <1>4 DEF Sync, k

LEMMA DeliverActs ==
    ASSUME BotInv, NEW b \in Bots, Deliver(b)
    PROVE  Acts(b)
<1> DEFINE k == [mem[b] EXCEPT !.owed = FALSE]
<1>1. /\ pc[b] = "deliver" /\ mem[b] = disk[b] /\ mem[b] \in Jobs /\ "idle" \in Places
      /\ UNCHANGED <<eligible, branch, pulls, pushes, local, requeue, events, agentRuns>>
  BY DEF Deliver, BotInv, TypeOK, JobFits, Saved, Places
<1>2. k \in Jobs
  BY <1>1 DEF Jobs
<1> HIDE DEF k
<1>3. CASE ~mem[b].owed /\ Ends(b) /\ UNCHANGED <<comments, faults>>
  <2>1. RunTyped(b) /\ Ended(b)
    BY <1>3, EndsIs DEF BotInv
  <2> QED  BY <1>1, <1>3, <2>1, EndActs DEF BotInv, TypeOK
<1>4. CASE mem[b].owed /\ comments' = Told(b, mem[b]) /\ Save(b, k, "idle")
  <2>1. RunTyped(b) /\ Becomes(b, "idle", k, k)
    BY <1>1, <1>2, <1>4, SaveIs DEF BotInv
  <2> QED  BY <1>1, <1>2, <1>4, <2>1, TellActs DEF k
<1>5. CASE mem[b].owed /\ comments' \in {comments, Told(b, mem[b])} /\ Fault /\ Ends(b)
  <2>1. RunTyped(b) /\ Becomes(b, "idle", mem[b], mem[b])
    BY <1>1, <1>5, EndsIs DEF BotInv, Ended
  <2> QED  BY <1>1, <1>5, <2>1, TellActs
<1> QED  BY <1>3, <1>4, <1>5 DEF Deliver, k

-----------------------------------------------------------------------------
(***************************************************************************)
(* Time, people and Town.                                                   *)
(***************************************************************************)

\* Steps that leave every instance where it is.
LEMMA WorldKeeps ==
    ASSUME BotInv, TypeOK', PullsMove, UNCHANGED <<pc, mem, disk, comments, agentRuns>>,
           \A q \in DOMAIN pulls' : pulls'[q].kind = "bot" => q \in DOMAIN pulls,
           \A b \in Bots : requeue'[b] \in DOMAIN pulls' \cup {0}
    PROVE  BotInv'
<1>1. ASSUME NEW b \in Bots
      PROVE  JobFits(b)' /\ Leads(b)' /\ EndTold(b)' /\ Id(b)' = Id(b)
  <2>1. JobFits(b) /\ Leads(b) /\ EndTold(b)
    BY DEF BotInv
  <2>2. Published(pulls', disk[b]) /\ Published(pulls', mem[b])
    BY <2>1 DEF JobFits, Published, PullsMove
  <2>3. JobFits(b)'
    BY <2>1, <2>2 DEF JobFits, PullsMove
  <2> QED  BY <2>1, <2>3 DEF Leads, EndTold, Id
<1>2. Turns'
  BY <1>1 DEF BotInv, Turns
<1>3. Sole' /\ OnePullPerIssue'
  <2>1. \A q \in DOMAIN pulls' : pulls'[q].kind = "bot" =>
            q \in DOMAIN pulls /\ pulls[q].kind = "bot" /\ pulls'[q].by = pulls[q].by
    BY DEF PullsMove
  <2> QED  BY <2>1 DEF BotInv, Sole, OnePullPerIssue
<1>4. Named' /\ ClaimsAreUnique'
  BY DEF BotInv, Named, ClaimsAreUnique
<1> QED  BY <1>1, <1>2, <1>3, <1>4 DEF BotInv

\* Closing or merging a pull request moves nothing else.
LEMMA StateChanged ==
    ASSUME TypeOK, NEW p \in DOMAIN pulls, NEW s \in {"closed", "merged"},
           pulls' = [pulls EXCEPT ![p] = [pulls[p] EXCEPT !.state = s]]
    PROVE  PullsMove /\ DOMAIN pulls' = DOMAIN pulls
<1> DEFINE new == [pulls[p] EXCEPT !.state = s]
<1>1. pulls \in Seq(Pulls) /\ pulls[p] \in Pulls /\ DOMAIN pulls = 1..Len(pulls) /\ Len(pulls) \in Nat
  BY DEF TypeOK
<1>2. new \in Pulls /\ new.kind = pulls[p].kind /\ new.by = pulls[p].by
  BY <1>1 DEF Pulls
<1> HIDE DEF new
<1>3. pulls' = [pulls EXCEPT ![p] = new]
  BY DEF new
<1>4. pulls' \in [1..Len(pulls) -> Pulls]
  BY <1>1, <1>2, <1>3
<1> QED  BY <1>1, <1>2, <1>3, <1>4, FunctionIsASeq DEF PullsMove

LEMMA PeopleKeep ==
    ASSUME BotInv, People
    PROVE  BotInv'
<1>1. /\ events' \in 0..MaxEvents
      /\ UNCHANGED <<comments, branch, pushes, disk, local, pc, mem, requeue, faults, agentRuns>>
  BY Constants DEF People, Event, BotInv, TypeOK
<1>2. /\ PullsMove /\ eligible' \in BOOLEAN
      /\ \A q \in DOMAIN pulls' : pulls'[q].kind = "bot" => q \in DOMAIN pulls
  <2>1. CASE eligible' = ~eligible /\ UNCHANGED pulls
    BY <2>1, PullsRest DEF BotInv, TypeOK
  <2>2. ASSUME UNCHANGED eligible, NEW p \in DOMAIN pulls, NEW s \in {"closed", "merged"},
               pulls' = [pulls EXCEPT ![p] = [@ EXCEPT !.state = s]]
        PROVE  /\ PullsMove /\ eligible' \in BOOLEAN
               /\ \A q \in DOMAIN pulls' : pulls'[q].kind = "bot" => q \in DOMAIN pulls
    BY <2>2, StateChanged DEF BotInv, TypeOK
  <2>3. ASSUME UNCHANGED eligible, NEW k \in {"foreign", "elsewhere"},
               pulls' = Append(pulls, [kind |-> k, state |-> "open", head |-> branch, by |-> None])
        PROVE  /\ PullsMove /\ eligible' \in BOOLEAN
               /\ \A q \in DOMAIN pulls' : pulls'[q].kind = "bot" => q \in DOMAIN pulls
    <3> DEFINE new == [kind |-> k, state |-> "open", head |-> branch, by |-> None]
    <3>1. new \in Pulls /\ new.kind # "bot" /\ pulls \in Seq(Pulls) /\ eligible \in BOOLEAN
      BY DEF Pulls, BotInv, TypeOK
    <3> HIDE DEF new
    <3>2. /\ pulls' \in Seq(Pulls) /\ DOMAIN pulls' = DOMAIN pulls \cup {Len(pulls) + 1}
          /\ pulls'[Len(pulls) + 1] = new /\ \A q \in DOMAIN pulls : pulls'[q] = pulls[q]
      BY <2>3, <3>1 DEF new
    <3> QED  BY <2>3, <3>1, <3>2 DEF PullsMove
  <2> QED  BY <2>1, <2>2, <2>3 DEF People
<1>3. TypeOK'
  BY <1>1, <1>2 DEF BotInv, TypeOK, PullsMove
<1>4. \A b \in Bots : requeue'[b] \in DOMAIN pulls' \cup {0}
  BY <1>1, <1>2 DEF BotInv, JobFits, PullsMove
<1> QED  BY <1>1, <1>2, <1>3, <1>4, WorldKeeps

\* Town closes the pull request a submitted job names, which exists.
LEMMA ClosedKeeps ==
    ASSUME BotInv, NEW b \in Bots, TownCloses(b)
    PROVE  BotInv'
<1> DEFINE p == disk[b].url
<1>1. /\ events' \in 0..MaxEvents /\ disk[b].status = "submitted" /\ branch' = 0
      /\ pulls' = [pulls EXCEPT ![p] = [pulls[p] EXCEPT !.state = "closed"]]
      /\ requeue' = [requeue EXCEPT ![b] = p]
      /\ UNCHANGED <<eligible, comments, pushes, disk, local, pc, mem, faults, agentRuns>>
  BY Constants DEF TownCloses, Event, BotInv, TypeOK
<1>2. p \in DOMAIN pulls /\ p \in Nat
  BY <1>1 DEF BotInv, TypeOK, JobFits, Published
<1> HIDE DEF p
<1>3. PullsMove /\ DOMAIN pulls' = DOMAIN pulls
  BY <1>1, <1>2, StateChanged DEF BotInv
<1>4. branch' \in 0..pushes'
  BY <1>1 DEF BotInv, TypeOK
<1>5. TypeOK'
  BY <1>1, <1>2, <1>3, <1>4 DEF BotInv, TypeOK, PullsMove
<1>6. \A c \in Bots : requeue'[c] \in DOMAIN pulls' \cup {0}
  BY <1>1, <1>2, <1>3 DEF BotInv, TypeOK, JobFits
<1> QED  BY <1>1, <1>3, <1>5, <1>6, WorldKeeps

\* Town has read the job; a worktree goes without its job being saved.
LEMMA TownKeeps ==
    ASSUME BotInv, NEW b \in Bots, TownSynced(b) \/ RequeueUnsaved(b)
    PROVE  BotInv'
<1>1. /\ UNCHANGED <<github, disk, pc, mem, events, agentRuns>>
      /\ requeue' = requeue \/ requeue' = [requeue EXCEPT ![b] = 0]
      /\ local' = local \/ local' = [local EXCEPT ![b] = NoTree]
      /\ Fault \/ UNCHANGED faults
  BY DEF TownSynced, RequeueUnsaved, spent
<1>2. /\ requeue' \in [Bots -> Nat] /\ local' \in [Bots -> Worktrees] /\ faults' \in 0..MaxFaults
  <2>1. NoTree \in Worktrees
    BY DEF NoTree, Worktrees
  <2>2. faults' \in 0..MaxFaults
    BY <1>1, FaultTyped DEF BotInv
  <2>3. requeue \in [Bots -> Nat] /\ local \in [Bots -> Worktrees]
    BY DEF BotInv, TypeOK
  <2>4. requeue' \in [Bots -> Nat]
    BY <1>1, <2>3
  <2>5. local' \in [Bots -> Worktrees]
    BY <1>1, <2>1, <2>3
  <2> QED  BY <2>2, <2>4, <2>5
<1>3. TypeOK'
  BY <1>1, <1>2 DEF BotInv, TypeOK, github
<1>4. \A c \in Bots : requeue'[c] \in DOMAIN pulls' \cup {0}
  BY <1>1 DEF BotInv, TypeOK, JobFits, github
<1>5. PullsMove
  BY <1>1, PullsRest DEF BotInv, github
<1> QED  BY <1>1, <1>3, <1>4, <1>5, WorldKeeps DEF github

\* A claim nobody works under expires.
LEMMA ExpireKeeps ==
    ASSUME BotInv, Expire
    PROVE  BotInv'
<1>1. PICK i \in Working :
          /\ \A b \in Bots : pc[b] \in Leased \cup {"confirm"} => CommentOf(b, mem[b].claim.n) # i
          /\ comments' = [comments EXCEPT ![i] = [comments[i] EXCEPT !.live = FALSE]]
  BY DEF Expire
<1>2. UNCHANGED <<eligible, branch, pulls, pushes, disk, local, pc, mem, requeue, spent, agentRuns>>
  BY DEF Expire
<1> DEFINE new == [comments[i] EXCEPT !.live = FALSE]
<1>3. /\ comments \in Seq(Comments) /\ i \in DOMAIN comments /\ comments[i] \in Comments
      /\ DOMAIN comments = 1..Len(comments) /\ Len(comments) \in Nat
  BY DEF BotInv, TypeOK, Working
<1>4. /\ new \in Comments /\ new.bot = comments[i].bot /\ new.n = comments[i].n
      /\ new.status = comments[i].status
  BY <1>3 DEF Comments
<1> HIDE DEF new
<1>5. comments' = [comments EXCEPT ![i] = new]
  BY <1>1 DEF new
<1>6. /\ comments' \in [1..Len(comments) -> Comments] /\ DOMAIN comments' = DOMAIN comments
      /\ \A k \in DOMAIN comments : k # i => comments'[k] = comments[k]
      /\ \A k \in DOMAIN comments : /\ comments'[k].bot = comments[k].bot
                                    /\ comments'[k].n = comments[k].n
                                    /\ comments'[k].status = comments[k].status
  BY <1>3, <1>4, <1>5
<1>7. comments' \in Seq(Comments)
  BY <1>3, <1>6, FunctionIsASeq
<1>8. TypeOK'
  BY <1>2, <1>7 DEF BotInv, TypeOK, spent
<1>9. \A b, n : Comment(comments', b, n) = Comment(comments, b, n)
  <2> SUFFICES ASSUME NEW b, NEW n PROVE Comment(comments', b, n) = Comment(comments, b, n)
    OBVIOUS
  <2> DEFINE mine == {k \in DOMAIN comments : comments[k].bot = b /\ comments[k].n = n}
             now == {k \in DOMAIN comments' : comments'[k].bot = b /\ comments'[k].n = n}
  <2>1. now = mine
    BY <1>6
  <2>2. Comment(comments, b, n) = IF mine = {} THEN 0 ELSE CHOOSE k \in mine : TRUE
    BY DEF Comment
  <2>3. Comment(comments', b, n) = IF now = {} THEN 0 ELSE CHOOSE k \in now : TRUE
    BY DEF Comment
  <2> HIDE DEF mine, now
  <2> QED  BY <2>1, <2>2, <2>3
<1>10. ASSUME NEW b \in Bots
       PROVE  JobFits(b)' /\ Leads(b)' /\ EndTold(b)' /\ Id(b)' = Id(b)
  <2>1. JobFits(b) /\ Leads(b) /\ EndTold(b)
    BY DEF BotInv
  <2>2. JobFits(b)'
    BY <1>2, <2>1 DEF JobFits, Published
  <2>3. Id(b)' = Id(b)
    BY <1>2, <1>9 DEF Id
  <2>4. Leads(b)'
    <3>1. pc[b] \in Leased \cup {"confirm"} => Id(b) # 0 /\ Id(b) \in DOMAIN comments /\ Id(b) # i
      BY <1>1, <1>3, <2>1, CommentIs, CommentOfIs DEF Leads, Id
    <3> QED  BY <1>2, <1>6, <2>1, <2>3, <3>1 DEF Leads
  <2>5. EndTold(b)'
    <3>1. Comment(comments, b, disk[b].claim.n) # 0 =>
             Comment(comments, b, disk[b].claim.n) \in DOMAIN comments
      BY <1>3, CommentIs
    <3> QED  BY <1>2, <1>6, <1>9, <2>1, <3>1 DEF EndTold
  <2> QED  BY <2>2, <2>3, <2>4, <2>5
<1>11. Turns'
  BY <1>2, <1>10 DEF BotInv, Turns
<1>12. Sole' /\ OnePullPerIssue'
  BY <1>2 DEF BotInv, Sole, OnePullPerIssue
<1>13. Named' /\ ClaimsAreUnique'
  BY <1>6 DEF BotInv, Named, ClaimsAreUnique
<1> QED  BY <1>8, <1>10, <1>11, <1>12, <1>13 DEF BotInv

-----------------------------------------------------------------------------
(***************************************************************************)
(* The theorems.                                                            *)
(***************************************************************************)

LEMMA BotInit == Init => BotInv
<1> SUFFICES ASSUME Init PROVE BotInv
  OBVIOUS
<1>1. NewJob \in Jobs /\ Claimless(NewJob) /\ NewJob.status = "pending" /\ NewJob.superseded = {}
      /\ NewJob.tries = 0 /\ NewJob.claim.status = "none"
  BY Constants DEF NewJob, NoClaim, Jobs, Claims, Claimless
<1> HIDE DEF NewJob
<1>2. NoTree \in Worktrees /\ "idle" \in Places
  BY DEF NoTree, Worktrees, Places
<1>3. "idle" \notin Trying \cup Ahead \cup Leased \cup {"agent", "sync", "confirm"}
  BY DEF Trying, Ahead, Leased
<1>4. comments = <<>> /\ pulls = <<>> /\ comments \in Seq(Comments) /\ pulls \in Seq(Pulls)
      /\ DOMAIN comments = {} /\ DOMAIN pulls = {}
  BY DEF Init
<1>5. TypeOK
  BY <1>1, <1>2, <1>4, Constants DEF Init, TypeOK
<1>6. ASSUME NEW b \in Bots PROVE JobFits(b) /\ Leads(b) /\ EndTold(b)
  <2>1. pc[b] = "idle" /\ mem[b] = NewJob /\ disk[b] = NewJob /\ requeue[b] = 0 /\ agentRuns[b] = 0
    BY DEF Init
  <2>2. JobFits(b)
    BY <1>1, <1>3, <2>1 DEF JobFits, Published
  <2>3. \A n : Comment(comments, b, n) = 0
    BY <1>4 DEF Comment
  <2> QED  BY <1>3, <2>1, <2>2, <2>3 DEF Leads, EndTold
<1>7. Turns
  BY DEF Init, Turns
<1>8. Sole
  BY <1>4 DEF Init, Sole
<1>9. Named /\ ClaimsAreUnique /\ OnePullPerIssue
  BY <1>4 DEF Named, ClaimsAreUnique, OnePullPerIssue
<1> QED  BY <1>5, <1>6, <1>7, <1>8, <1>9 DEF BotInv

LEMMA BotStep == BotInv /\ [Next]_vars => BotInv'
<1> SUFFICES ASSUME BotInv, [Next]_vars PROVE BotInv'
  OBVIOUS
<1>1. CASE UNCHANGED vars
  <2>1. UNCHANGED <<pc, mem, disk, comments, agentRuns, eligible, branch, pulls, pushes, local,
                    requeue, faults, events>>
    BY <1>1 DEF vars, github, spent
  <2>2. TypeOK' /\ PullsMove
    BY <2>1, PullsRest DEF BotInv, TypeOK
  <2>3. \A b \in Bots : requeue'[b] \in DOMAIN pulls' \cup {0}
    BY <2>1 DEF BotInv, JobFits
  <2> QED  BY <2>1, <2>2, <2>3, WorldKeeps
<1>2. ASSUME NEW b \in Bots,
             \/ Dispatch(b) \/ Requeue(b) \/ RequeueUnsaved(b) \/ RunStep(b) \/ Crash(b)
             \/ TownCloses(b) \/ TownSynced(b) \/ Retry(b)
      PROVE  BotInv'
  <2>1. CASE RequeueUnsaved(b) \/ TownSynced(b)
    BY <2>1, TownKeeps
  <2>2. CASE TownCloses(b)
    BY <2>2, ClosedKeeps
  <2>3. CASE Dispatch(b)
    BY <2>3, DispatchActs, ActsKeep
  <2>4. CASE Requeue(b)
    BY <2>4, RequeueActs, ActsKeep
  <2>5. CASE Retry(b)
    BY <2>5, RetryActs, ActsKeep
  <2>6. CASE Crash(b)
    BY <2>6, CrashActs, ActsKeep
  <2>7. CASE RunStep(b)
    <3>1. CASE Sync(b) \/ Deliver(b)
      BY <3>1, SyncActs, DeliverActs, ActsKeep
    <3>2. CASE Scan(b)
      BY <3>2, ScanActs, ActsKeep
    <3>3. CASE Elect(b) \/ Confirm(b) \/ Open(b) \/ OpenFails(b)
      BY <3>3, ElectActs, ActsKeep
    <3>4. CASE Post(b)
      BY <3>4, PostActs, ActsKeep
    <3>5. CASE ElectionFails(b)
      BY <3>5, CrashActs, ActsKeep
    <3>6. CASE Yield(b) \/ Final(b)
      BY <3>6, OverActs, ActsKeep
    <3>7. CASE Charge(b) \/ AgentSetup(b)
      BY <3>7, ChargeActs, SetupActs, ActsKeep
    <3>8. CASE Agent(b) \/ Verify(b)
      BY <3>8, AgentActs, VerifyActs, ActsKeep
    <3>9. CASE Push(b) \/ PushFails(b) \/ CreateFails(b)
      BY <3>9, PushActs, FailsActs, ActsKeep
    <3>10. CASE Recheck(b) \/ Create(b)
      BY <3>10, RecheckActs, CreateActs, ActsKeep
    <3> QED  BY <2>7, <3>1, <3>2, <3>3, <3>4, <3>5, <3>6, <3>7, <3>8, <3>9, <3>10 DEF RunStep
  <2> QED  BY <1>2, <2>1, <2>2, <2>3, <2>4, <2>5, <2>6, <2>7
<1>3. CASE Expire
  BY <1>3, ExpireKeeps
<1>4. CASE People
  BY <1>4, PeopleKeep
<1> QED  BY <1>1, <1>2, <1>3, <1>4 DEF Next

\* However many instances take up the issue, crash, lose answers and are asked
\* again, the jobs, their claims and the pull requests stay in step: this is the
\* invariant the others follow from (claim.go, run.go, state.go).
THEOREM IssueBotInvariant == Spec => []BotInv
<1>1. Init => BotInv
  BY BotInit
<1>2. BotInv /\ [Next]_vars => BotInv'
  BY BotStep
<1> QED  BY <1>1, <1>2, PTL DEF Spec

\* Every job, claim comment and pull request keeps its type, and no instance
\* counts more tries than its budget.
THEOREM IssueBotTyped == Spec => []TypeOK
<1>1. BotInv => TypeOK
  BY DEF BotInv
<1> QED  BY <1>1, IssueBotInvariant, PTL

\* Any number of instances open one pull request for the issue, a second only
\* after Town closed the first, and post one comment for a claim: the lease is
\* asked for again before every write and the lowest claim wins (readyToPublish,
\* claimWinner), and an unanswered call is recovered by its token or its branch.
THEOREM IssueBotClaimsHold == Spec => []ClaimsHold
<1>1. BotInv => ClaimsHold
  BY DEF BotInv, ClaimsHold
<1> QED  BY <1>1, IssueBotInvariant, PTL

\* What a saved job says of its pull request, its claim and its attempts is so at
\* every moment, also right after a crash (recordPull, syncClaim, attempt).
THEOREM IssueBotRecordsAreTrue == Spec => []RecordsAreTrue
<1>1. BotInv => RecordsAreTrue
  <2> SUFFICES ASSUME BotInv PROVE RecordsAreTrue
    OBVIOUS
  <2>1. SubmittedIsPublished
    BY DEF BotInv, JobFits, Published, SubmittedIsPublished
  <2>2. EndsAreTold
    BY CommentOfIs DEF BotInv, EndTold, EndsAreTold
  <2>3. BudgetHolds
    <3> SUFFICES ASSUME NEW b \in Bots PROVE agentRuns[b] =< Attempts
      BY DEF BudgetHolds
    <3>1. agentRuns[b] <= disk[b].tries /\ disk[b].tries \in 0..Attempts /\ agentRuns[b] \in Nat
      BY DEF BotInv, TypeOK, JobFits, Jobs
    <3> QED  BY <3>1, Constants
  <2> QED  BY <2>1, <2>2, <2>3 DEF RecordsAreTrue
<1> QED  BY <1>1, IssueBotInvariant, PTL
=============================================================================
