------------------------------- MODULE MCBots -------------------------------
(***************************************************************************)
(* The bots and the protocol that runs them, for TLC: a behaviour belongs  *)
(* to one of them, as in MCTown, and the others rest.                      *)
(***************************************************************************)
EXTENDS BranchHealth, SimplifierBot, BotRun, ManagedRun, ReviewBot, ReleaseBot,
        FinderBot, Guide

CONSTANTS Q1, Q2, P1, P2   \* questions and people

VARIABLES part

\* To keep the watched branch small: people move it, or calls and saves fail, or
\* one of each; and it is observed more than three times only after two moves.
FewUpsets == events.moves + healthfaults <= 2 /\ (reads > 3 => events.moves = 2)

checkers == <<branchhealth, simplifier>>
runs2  == <<botrun, managed>>
posts  == <<reviewbot, guide>>
vars   == <<part, checkers, runs2, posts, finderbot, releasebot>>

\* A part that rests keeps one of its initial states.
ChecksRest  == HealthInit /\ ~protected /\ SimplifierInit
RunsRest    == RunInit /\ ManagedInit
ReviewRests == ReviewInit /\ pr.rev = CHOOSE r \in Revisions : TRUE
FinderRests == FinderInit /\ kind = "bug"
PostsRest   == ReviewRests /\ GuideInit

BotsInit ==
    \/ part = "health"  /\ HealthInit /\ SimplifierInit /\ RunsRest /\ PostsRest
                         /\ FinderRests /\ ReleaseInit
    \/ part \in {"simplifier", "run", "managed", "release", "guide"}
                         /\ ChecksRest /\ RunsRest /\ PostsRest /\ FinderRests /\ ReleaseInit
    \/ part = "finder"  /\ ChecksRest /\ RunsRest /\ PostsRest /\ FinderInit /\ ReleaseInit
    \/ part = "review"  /\ ChecksRest /\ RunsRest /\ ReviewInit /\ GuideInit
                         /\ FinderRests /\ ReleaseInit

BotsNext ==
    \/ part = "health"     /\ HealthNext
                           /\ UNCHANGED <<part, simplifier, runs2, posts, finderbot, releasebot>>
    \/ part = "simplifier" /\ SimplifierNext
                           /\ UNCHANGED <<part, branchhealth, runs2, posts, finderbot, releasebot>>
    \/ part = "run"        /\ RunNext
                           /\ UNCHANGED <<part, checkers, managed, posts, finderbot, releasebot>>
    \/ part = "managed"    /\ ManagedNext
                           /\ UNCHANGED <<part, checkers, botrun, posts, finderbot, releasebot>>
    \/ part = "review"     /\ ReviewNext
                           /\ UNCHANGED <<part, checkers, runs2, guide, finderbot, releasebot>>
    \/ part = "guide"      /\ GuideNext
                           /\ UNCHANGED <<part, checkers, runs2, reviewbot, finderbot, releasebot>>
    \/ part = "finder"     /\ FinderNext /\ UNCHANGED <<part, checkers, runs2, posts, releasebot>>
    \/ part = "release"    /\ ReleaseNext /\ UNCHANGED <<part, checkers, runs2, posts, finderbot>>

BotsSpec == BotsInit /\ [][BotsNext]_vars

-----------------------------------------------------------------------------
\* Release Bot: a run never starts an agent when a publication of its job is
\* already complete, whatever receipt was lost, and the agents of a job stay
\* within its attempts through every crash (resume, the saved Tries).
\* Bug and Feature Bot: a finding becomes at most one issue, the state file
\* always knows a request GitHub has or may still get, and of two findings
\* filed alike the later was reviewed against the earlier (step, reconcile).
\* Guide: a question is answered once and its proposal carried out once, on the
\* bot the assistant saw, however often people repeat and confirm them.
DoneOnce == HealthTypeOK /\ SimplifierTypeOK /\ ReleaseHolds /\ FinderHolds /\ GuideHolds

\* What Release Bot records as released is complete and newer, and announced
\* once it was saved; what a finder decided stays decided; an answer that
\* is over stays as it is; a repair of a branch takes nobody's commit off it.
StepsHold ==
    /\ [][RecordsReal]_releasebot
    /\ [][KeepsDecisions]_finderbot
    /\ [][AnswersStay]_guide
    /\ NothingOverwritten
=============================================================================
