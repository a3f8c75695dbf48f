----------------------------- MODULE ReviewBot -----------------------------
(***************************************************************************)
(* Review Bot (bots/review-bot): it reviews each revision of an open pull  *)
(* request once and posts the result, bound to that revision, as a review  *)
(* that carries the revision's marker.  The answer to a post may be lost,  *)
(* the process may die, and the pull request moves while agents work.      *)
(*                                                                         *)
(* One pull request is enough: jobs of different ones share nothing but    *)
(* the state file.  A revision stands for the base and head the key is     *)
(* made of.  Left out: the snapshot and findings an agent works on, saving *)
(* each finding's verdict, retry delays, and labels.                       *)
(***************************************************************************)
EXTENDS Naturals, Sequences, FiniteSets

CONSTANTS
    Revisions,        \* revisions the pull request may be at
    ReviewTries,      \* config: attempts per revision
    MaxReviewMoves,   \* bound: pushes, closings and reopenings
    MaxTalk,          \* bound: comments other people write
    MaxReviewFaults,  \* bound: crashes, failed saves, lost answers, agent failures
    MaxPolls          \* bound: polls and commands

ASSUME ReviewConstants ==
    /\ Revisions # {}
    /\ {ReviewTries, MaxReviewMoves, MaxTalk, MaxReviewFaults, MaxPolls} \subseteq Nat

VARIABLES
    pr,         \* the pull request on GitHub: its revision, whether open, talk
    reviews,    \* reviews on it, oldest first
    sent,       \* reviews sent of which GitHub has no trace yet
    savedjobs,  \* state.json: the job of each revision, by mode
    jobs,       \* the process's copy
    reviewer,   \* the process
    moves, reviewfaults, polls

reviewbot == <<pr, reviews, sent, savedjobs, jobs, reviewer, moves, reviewfaults, polls>>

ReviewStatuses == {"none", "pending", "failed", "posting", "submitted", "dry_run",
                   "stale"}
NoJob == [status |-> "none", tries |-> 0]
ReviewJobs == [status: ReviewStatuses, tries: 0..ReviewTries]
ReviewKeys == Revisions \X BOOLEAN
NoJobs == [k \in ReviewKeys |-> NoJob]

ReviewOff == [pc |-> "off", key |-> CHOOSE k \in ReviewKeys : TRUE, read |-> <<0, 0>>,
              dry |-> FALSE]
ReviewPlaces == {"off", "wait", "step", "list", "existing", "review", "check",
                 "post", "failed", "stale"}

ReviewInit ==
    /\ pr \in [rev: Revisions, open: {TRUE}, talk: {0}]
    /\ reviews = <<>> /\ sent = {}
    /\ savedjobs = NoJobs /\ jobs = NoJobs /\ reviewer = ReviewOff
    /\ moves = 0 /\ reviewfaults = 0 /\ polls = 0

----------------------------------------------------------------------------
\* GitHub and the state file.

\* discussion: comments and reviews, of every revision.
Discussion == <<pr.talk, Len(reviews)>>
OfRevision(r) == {i \in DOMAIN reviews : reviews[i].rev = r}
WithReview(r, read) == Append(reviews, [rev |-> r, seen |-> read[2]])

ReviewFault == reviewfaults < MaxReviewFaults /\ reviewfaults' = reviewfaults + 1
ReviewAt(pc) == reviewer' = [reviewer EXCEPT !.pc = pc]
ReviewSaved(m, pc) == jobs' = m /\ savedjobs' = m /\ ReviewAt(pc) /\ UNCHANGED reviewfaults
ReviewUnsaved(m, pc) ==
    ReviewFault /\ jobs' = m /\ savedjobs' \in {savedjobs, m} /\ ReviewAt(pc)
SaveReview(m, pc, onError) == ReviewSaved(m, pc) \/ ReviewUnsaved(m, onError)
ReviewGoes(pc) == ReviewAt(pc) /\ UNCHANGED <<jobs, savedjobs, reviewfaults>>
ReviewBreaks(pc) == ReviewFault /\ ReviewAt(pc) /\ UNCHANGED <<jobs, savedjobs>>
ReviewOutside == UNCHANGED <<pr, reviews, sent, moves, polls>>
AtReview(pc) == reviewer.pc = pc /\ ReviewOutside

WithReviewStatus(k, status) == [jobs EXCEPT ![k] = [@ EXCEPT !.status = status]]
Posting(m) == {k \in ReviewKeys : m[k].status = "posting" /\ ~k[2]}
ReviewKey == <<pr.rev, reviewer.dry>>

----------------------------------------------------------------------------
\* step: reconcile what was posted, then queue the revision GitHub shows.

ReviewStarts ==
    /\ reviewer.pc \in {"off", "wait"} /\ polls < MaxPolls /\ polls' = polls + 1
    /\ IF reviewer.pc = "wait" THEN ReviewAt("step")
       ELSE \E dry \in BOOLEAN : reviewer' = [ReviewOff EXCEPT !.pc = "step", !.dry = dry]
    /\ UNCHANGED <<pr, reviews, sent, savedjobs, jobs, moves, reviewfaults>>

\* A review with our marker settles a post; none leaves its outcome unknown.
\* One that fails does not keep the step from going on.
ReconcileReview ==
    /\ AtReview("step")
    /\ \/ \E k \in Posting(jobs) :
            /\ ~reviewer.dry /\ Cardinality(OfRevision(k[1])) = 1
            /\ SaveReview(WithReviewStatus(k, "submitted"), "step", "step")
       \/ ReviewGoes("list")

\* Other revisions that were not reviewed yet are stale; one that comes back
\* starts over.  A revision whose post is unknown blocks the pull request.
Superseded ==
    [k \in ReviewKeys |->
        IF k # ReviewKey /\ jobs[k].status \in {"pending", "failed"}
        THEN [jobs[k] EXCEPT !.status = "stale"] ELSE jobs[k]]
Queued(m) ==
    IF m[ReviewKey].status \in {"none", "stale"}
    THEN [m EXCEPT ![ReviewKey] = [status |-> "pending", tries |-> 0]]
    ELSE m

\* The attempts a revision has left.
TriesLeft(m) == m[ReviewKey].tries < ReviewTries

\* A bug: a post of another revision does not block the pull request.
ListUnblocked ==
    /\ AtReview("list")
    /\ IF ~pr.open THEN ReviewGoes("wait")
       ELSE LET m == Queued(Superseded)
                work == /\ m[ReviewKey].status \notin {"submitted", "dry_run", "posting"}
                        /\ TriesLeft(m)
            IN  /\ jobs' = m /\ savedjobs' = m /\ UNCHANGED reviewfaults
                /\ reviewer' = [reviewer EXCEPT !.pc = IF work THEN "existing" ELSE "wait",
                                      !.key = ReviewKey]

ListPulls ==
    /\ AtReview("list")
    /\ IF ~pr.open THEN ReviewGoes("wait")
       ELSE LET blocked == Posting(jobs) # {}
                m == IF blocked THEN Superseded ELSE Queued(Superseded)
                work == /\ ~blocked
                        /\ m[ReviewKey].status \notin {"submitted", "dry_run"}
                        /\ TriesLeft(m)
            IN  \/ /\ jobs' = m /\ savedjobs' = m /\ UNCHANGED reviewfaults
                   /\ reviewer' = [reviewer EXCEPT !.pc = IF work THEN "existing" ELSE "wait",
                                              !.key = ReviewKey]
                \/ ReviewUnsaved(m, "wait")

\* existing: a review of this revision that the state does not know, because it
\* was lost, is taken as ours; two of them are for a person.
Existing ==
    /\ AtReview("existing")
    /\ LET k == reviewer.key  n == Cardinality(OfRevision(k[1])) IN
       IF ~reviewer.dry /\ n = 1
       THEN SaveReview(WithReviewStatus(k, "submitted"), "wait", "wait")
       ELSE IF ~reviewer.dry /\ n > 1 THEN ReviewGoes("wait")
       ELSE SaveReview([jobs EXCEPT ![k] = [status |-> "pending", tries |-> @.tries + 1]],
                       "review", "wait")

----------------------------------------------------------------------------
\* review: the snapshot must be of the queued revision, and publication wants
\* the revision and the discussion as they were when the agents were asked.

Snapshot ==
    /\ reviewer.pc = "review" /\ ReviewOutside
    /\ \/ /\ pr.rev = reviewer.key[1]
          /\ reviewer' = [reviewer EXCEPT !.pc = "check", !.read = Discussion]
          /\ UNCHANGED <<jobs, savedjobs, reviewfaults>>
       \/ /\ pr.rev # reviewer.key[1] /\ ReviewGoes("stale")
       \/ ReviewBreaks("failed")

\* An agent that never started gives the attempt back.
ReviewAgentBreaks ==
    /\ AtReview("check")
    /\ ReviewFault /\ ReviewAt("failed") /\ UNCHANGED savedjobs
    /\ \/ UNCHANGED jobs
       \/ jobs' = [jobs EXCEPT ![reviewer.key].tries = @ - 1]

StillCurrent == pr.open /\ pr.rev = reviewer.key[1]

CheckReview ==
    /\ AtReview("check")
    /\ LET k == reviewer.key IN
       \/ ~StillCurrent /\ ReviewGoes("stale")
       \/ StillCurrent /\ Discussion # reviewer.read /\ ReviewGoes("failed")
       \/ /\ StillCurrent /\ Discussion = reviewer.read
          /\ IF reviewer.dry THEN SaveReview(WithReviewStatus(k, "dry_run"), "wait", "failed")
             ELSE SaveReview(WithReviewStatus(k, "posting"), "post", "failed")

\* create: answered, rejected for certain, or not known to have arrived.
PostReview ==
    /\ reviewer.pc = "post"
    /\ LET k == reviewer.key IN
       \/ /\ reviews' = WithReview(k[1], reviewer.read)
          /\ SaveReview(WithReviewStatus(k, "submitted"), "wait", "failed")
          /\ UNCHANGED <<pr, sent, moves, polls>>
       \/ /\ ReviewFault /\ ReviewAt("failed") /\ UNCHANGED <<savedjobs, pr, moves, polls>>
          /\ \/ /\ jobs' = WithReviewStatus(k, "failed") /\ UNCHANGED <<reviews, sent>>
             \/ /\ reviews' = WithReview(k[1], reviewer.read)
                /\ UNCHANGED <<jobs, sent>>
             \/ /\ sent' = sent \cup {<<k[1], reviewer.read>>}
                /\ UNCHANGED <<jobs, reviews>>

\* The end of an attempt: a post whose outcome is unknown stays one, even when
\* what failed was the save before it; anything else may be tried again.
ReviewFails ==
    /\ AtReview("failed")
    /\ LET m == IF jobs[reviewer.key].status = "posting" THEN jobs
                ELSE WithReviewStatus(reviewer.key, "failed")
       IN  SaveReview(m, "wait", "wait")

GoneStale ==
    AtReview("stale") /\ SaveReview(WithReviewStatus(reviewer.key, "stale"), "wait", "wait")

----------------------------------------------------------------------------
\* The process ends; Retry; and everything that is not the bot.

ReviewForgets ==
    /\ reviewer' = ReviewOff /\ jobs' = savedjobs
    /\ UNCHANGED <<pr, reviews, sent, savedjobs, moves, polls>>
ReviewExit == reviewer.pc = "wait" /\ ReviewForgets /\ UNCHANGED reviewfaults
ReviewCrash == reviewer.pc \notin {"off", "wait"} /\ ReviewFault /\ ReviewForgets

\* Retry: the failed revisions of a mode get their attempts back, unless one of
\* them was posted with an unknown outcome.
RetryReviews ==
    /\ reviewer.pc = "off" /\ polls < MaxPolls /\ polls' = polls + 1
    /\ \E dry \in BOOLEAN :
        /\ \E r \in Revisions : savedjobs[<<r, dry>>].status = "failed"
        /\ \A r \in Revisions : savedjobs[<<r, dry>>].status # "posting"
        /\ savedjobs' = [k \in ReviewKeys |->
                IF k[2] = dry /\ savedjobs[k].status = "failed"
                THEN [status |-> "pending", tries |-> 0] ELSE savedjobs[k]]
    /\ jobs' = savedjobs'
    /\ UNCHANGED <<pr, reviews, sent, reviewer, moves, reviewfaults>>

\* The state is lost, when nothing is on its way any more.
LoseState ==
    /\ reviewer.pc = "off" /\ sent = {} /\ ReviewFault
    /\ savedjobs' = NoJobs /\ jobs' = NoJobs
    /\ UNCHANGED <<pr, reviews, sent, reviewer, moves, polls>>

ReviewLands ==
    /\ \E p \in sent :
        /\ reviews' = WithReview(p[1], p[2])
        /\ sent' = sent \ {p}
    /\ UNCHANGED <<pr, savedjobs, jobs, reviewer, moves, reviewfaults, polls>>

PullMoves ==
    /\ moves < MaxReviewMoves /\ moves' = moves + 1
    /\ \/ \E r \in Revisions \ {pr.rev} : pr' = [pr EXCEPT !.rev = r]
       \/ pr' = [pr EXCEPT !.open = ~@]
    /\ UNCHANGED <<reviews, sent, savedjobs, jobs, reviewer, reviewfaults, polls>>

Comment ==
    /\ pr.talk < MaxTalk /\ pr' = [pr EXCEPT !.talk = @ + 1]
    /\ UNCHANGED <<reviews, sent, savedjobs, jobs, reviewer, moves, reviewfaults, polls>>

ReviewNext ==
    \/ ReviewStarts \/ ReconcileReview \/ ListPulls \/ Existing
    \/ Snapshot \/ ReviewAgentBreaks \/ CheckReview \/ PostReview \/ ReviewFails \/ GoneStale
    \/ ReviewExit \/ ReviewCrash \/ RetryReviews \/ LoseState \/ ReviewLands \/ PullMoves \/ Comment

ReviewSpec == ReviewInit /\ [][ReviewNext]_reviewbot

----------------------------------------------------------------------------
\* Properties.

ReviewTypeOK ==
    /\ pr \in [rev: Revisions, open: BOOLEAN, talk: 0..MaxTalk]
    /\ \A i \in DOMAIN reviews : reviews[i].rev \in Revisions
    /\ savedjobs \in [ReviewKeys -> ReviewJobs] /\ jobs \in [ReviewKeys -> ReviewJobs]
    /\ reviewer.pc \in ReviewPlaces /\ reviewer.key \in ReviewKeys /\ reviewer.dry \in BOOLEAN
    /\ moves \in 0..MaxReviewMoves /\ reviewfaults \in 0..MaxReviewFaults /\ polls \in 0..MaxPolls

(* A revision gets at most one review, whatever answers, saves and processes *)
(* are lost, and although the whole state may be lost between two polls.     *)
OneReviewPerRevision ==
    \A r \in Revisions :
        Cardinality(OfRevision(r)) + Cardinality({p \in sent : p[1] = r}) <= 1

(* A review was written knowing every review of the same pull request that   *)
(* came before it, of whatever revision, though GitHub may show one late.    *)
ReviewsKnowEarlier ==
    \A i \in DOMAIN reviews : reviews[i].seen = i - 1

ReviewHolds == ReviewTypeOK /\ OneReviewPerRevision /\ ReviewsKnowEarlier
=============================================================================
