------------------------------- MODULE Guide -------------------------------
(***************************************************************************)
(* Town's assistant (guide.go, guide_run.go): people ask questions of one   *)
(* conversation, one at a time; a single goroutine answers them from a copy *)
(* of the town; an answer may propose to pause a bot, which happens only    *)
(* when a person confirms it and the bot is still as it was when the answer *)
(* was begun.                                                              *)
(*                                                                         *)
(* Requests may be repeated, by a person or by a browser that lost the      *)
(* answer. One town, and one bot for the assistant to pause. The texts,     *)
(* their bounds and what is hidden in them are left out.                    *)
(***************************************************************************)
EXTENDS Naturals, Sequences, FiniteSets

CONSTANTS
    People,       \* who may confirm a proposal at the same time
    Questions,    \* the request identifiers people choose
    KeptTurns,    \* guideTurns: turns a conversation keeps (20)
    MaxMoods,     \* bound: runs of the bot, and commands of people to it
    MaxRestarts   \* bound: restarts of the service

ASSUME GuideConstants ==
    /\ KeptTurns \in Nat \ {0} /\ MaxMoods \in Nat /\ MaxRestarts \in Nat
    /\ "none" \notin Questions

VARIABLES
    turns,       \* GuideConversation.Turns
    next,        \* GuideConversation.Next
    asked,       \* the sequence each request was composed with, if any
    worker,      \* the fields of the bot a proposal's digest covers
    answering,   \* answerGuide: its turn, its copy of the bot, its context
    confirming,  \* ConfirmGuide between its snapshot and its commit
    moods, restarts,
    accepted,    \* read by no action: how often each question was taken
    acted        \* read by no action: what was confirmed, and the bot it met

guide == <<turns, next, asked, worker, answering, confirming, moods, restarts,
           accepted, acted>>

NoTurn        == "none"
Busy(status)  == status \in {"queued", "gathering", "answering"}
BusyTurns     == {i \in DOMAIN turns : Busy(turns[i].status)}
HasTurn(q)    == \E i \in DOMAIN turns : turns[i].id = q
IndexOf(q)    == CHOOSE i \in DOMAIN turns : turns[i].id = q
Turn(q)       == turns[IndexOf(q)]
\* guideControlDigest: two workers have one digest when these fields agree.
Digest(w)     == {w}
NoProposal    == [status |-> NoTurn, digest |-> {}]
NotAnswering  == [id |-> NoTurn, saw |-> {}, ended |-> FALSE]

GuideInit ==
    /\ turns = <<>> /\ next = 0 /\ asked = [q \in Questions |-> {}]
    /\ worker = [enabled |-> TRUE, status |-> "waiting", run |-> 0]
    /\ answering = NotAnswering /\ confirming = {}
    /\ moods = 0 /\ restarts = 0
    /\ accepted = [q \in Questions |-> 0] /\ acted = {}

Set(q, t) == turns' = [turns EXCEPT ![IndexOf(q)] = t]

----------------------------------------------------------------------------
\* The people: AskGuide, CancelGuide, ConfirmGuide.

\* A question is composed against the conversation its author sees.
Compose(q) ==
    /\ asked[q] = {} /\ asked' = [asked EXCEPT ![q] = {next}]
    /\ UNCHANGED <<turns, next, worker, answering, confirming, moods, restarts, accepted, acted>>

Taken(q) ==
    /\ turns' = LET all == Append(turns, [id |-> q, seq |-> next, status |-> "queued",
                                          proposal |-> NoProposal])
                IN  SubSeq(all, Len(all) - (IF Len(all) > KeptTurns THEN KeptTurns ELSE Len(all)) + 1, Len(all))
    /\ next' = next + 1 /\ accepted' = [accepted EXCEPT ![q] = @ + 1]
    /\ UNCHANGED <<asked, worker, answering, confirming, moods, restarts, acted>>

\* A repeated question gets the turn it has, and one whose turn is gone is told
\* that the conversation moved on.
AskGuide(q) == asked[q] = {next} /\ ~HasTurn(q) /\ BusyTurns = {} /\ Taken(q)

CancelGuide(q) ==
    /\ HasTurn(q) /\ Busy(Turn(q).status)
    /\ Set(q, [Turn(q) EXCEPT !.status = "cancelled"])
    /\ UNCHANGED <<next, asked, worker, answering, confirming, moods, restarts, accepted, acted>>

\* The person confirms the proposal on the screen: read first, ...
ConfirmGuide(p, q) ==
    /\ HasTurn(q) /\ \A c \in confirming : c.by # p /\ Turn(q).proposal.status = "proposed"
    /\ confirming' = confirming \cup {[by |-> p, id |-> q, digest |-> Turn(q).proposal.digest]}
    /\ UNCHANGED <<turns, next, asked, worker, answering, moods, restarts, accepted, acted>>

\* control with action pause.
Paused(w) == [w EXCEPT !.enabled = FALSE,
                       !.status = IF @ = "working" THEN "pausing" ELSE "paused"]

Confirmed(c) ==
    /\ Set(c.id, [Turn(c.id) EXCEPT !.proposal.status = "confirmed"])
    /\ worker' = Paused(worker)
    /\ acted' = acted \cup {[id |-> c.id, digest |-> c.digest, met |-> Digest(worker),
                             again |-> \E a \in acted : a.id = c.id]}

Pending(c) == HasTurn(c.id) /\ Turn(c.id).status = "complete" /\ Turn(c.id).proposal.status = "proposed"

\* ... and then everything is compared again as part of the control's commit.
ConfirmCommits(c) ==
    /\ c \in confirming /\ confirming' = confirming \ {c}
    /\ IF Pending(c) /\ c.digest = Turn(c.id).proposal.digest /\ Digest(worker) = c.digest
       THEN Confirmed(c) ELSE UNCHANGED <<turns, worker, acted>>
    /\ UNCHANGED <<next, asked, answering, moods, restarts, accepted>>

----------------------------------------------------------------------------
\* The bot, as others drive it; a run has an identifier of its own.

RunStarts ==
    /\ moods < MaxMoods /\ moods' = moods + 1
    /\ worker.enabled /\ worker.run = 0
    /\ worker' = [worker EXCEPT !.status = "working", !.run = moods']
    /\ UNCHANGED <<turns, next, asked, answering, confirming, restarts, accepted, acted>>

RunEnds ==
    /\ worker.run # 0
    /\ worker' = [worker EXCEPT !.run = 0, !.status = IF worker.enabled THEN "waiting" ELSE "paused"]
    /\ UNCHANGED <<turns, next, asked, answering, confirming, moods, restarts, accepted, acted>>

PersonSteers ==
    /\ moods < MaxMoods /\ moods' = moods + 1
    /\ worker' \in {Paused(worker), [worker EXCEPT !.enabled = TRUE, !.status = "waiting"]}
    /\ UNCHANGED <<turns, next, asked, answering, confirming, restarts, accepted, acted>>

----------------------------------------------------------------------------
\* runGuide and answerGuide.

\* The first queued turn is marked, and the town copied, in one commit.
Gather ==
    /\ answering.id = NoTurn
    /\ \E i \in DOMAIN turns :
          /\ turns[i].status = "queued"
          /\ \A j \in DOMAIN turns : turns[j].status = "queued" => i <= j
          /\ turns' = [turns EXCEPT ![i].status = "gathering"]
          /\ answering' = [id |-> turns[i].id, saw |-> Digest(worker), ended |-> FALSE]
    /\ UNCHANGED <<next, asked, worker, confirming, moods, restarts, accepted, acted>>

\* The turn is still there and nobody canceled it.
Wanted == HasTurn(answering.id) /\ Busy(Turn(answering.id).status)

Stream ==
    /\ answering.id # NoTurn /\ Wanted
    /\ Set(answering.id, [Turn(answering.id) EXCEPT !.status = "answering"])
    /\ UNCHANGED <<next, asked, worker, answering, confirming, moods, restarts, accepted, acted>>

\* The turn is no longer wanted, two minutes are over, or the service stops.
ContextEnds ==
    /\ answering.id # NoTurn /\ ~answering.ended
    /\ answering' = [answering EXCEPT !.ended = TRUE]
    /\ UNCHANGED <<turns, next, asked, worker, confirming, moods, restarts, accepted, acted>>

Endings(turn) ==
    {[turn EXCEPT !.status = IF answering.ended THEN "cancelled" ELSE "failed"],
     [turn EXCEPT !.status = "complete"],
     [turn EXCEPT !.status = "complete",
                  !.proposal = [status |-> "proposed", digest |-> answering.saw]]}

\* The harness ended: with an answer, with one that proposes, or without.
Answer ==
    /\ answering.id # NoTurn /\ answering' = NotAnswering
    /\ IF Wanted THEN \E t \in Endings(Turn(answering.id)) : Set(answering.id, t)
       ELSE UNCHANGED turns
    /\ UNCHANGED <<next, asked, worker, confirming, moods, restarts, accepted, acted>>

\* The context ended: the harness is stopped and waited for.
AnswerStops ==
    /\ answering.ended /\ answering' = NotAnswering
    /\ IF Wanted THEN Set(answering.id, [Turn(answering.id) EXCEPT !.status = "cancelled"])
       ELSE UNCHANGED turns
    /\ UNCHANGED <<next, asked, worker, confirming, moods, restarts, accepted, acted>>

\* The service dies; Open marks what was being answered, and keeps the queue.
ServiceRestarts ==
    /\ restarts < MaxRestarts /\ restarts' = restarts + 1
    /\ turns' = [i \in DOMAIN turns |->
                   IF turns[i].status \in {"gathering", "answering"}
                   THEN [turns[i] EXCEPT !.status = "interrupted"] ELSE turns[i]]
    /\ answering' = NotAnswering /\ confirming' = {}
    /\ UNCHANGED <<next, asked, worker, moods, accepted, acted>>

GuideNext ==
    \/ \E q \in Questions : Compose(q) \/ AskGuide(q) \/ CancelGuide(q)
    \/ \E p \in People : \E q \in Questions : ConfirmGuide(p, q)
    \/ \E c \in confirming : ConfirmCommits(c)
    \/ RunStarts \/ RunEnds \/ PersonSteers
    \/ Gather \/ Stream \/ ContextEnds \/ Answer \/ AnswerStops \/ ServiceRestarts

GuideSpec == GuideInit /\ [][GuideNext]_guide

----------------------------------------------------------------------------
\* Properties.

TurnStatuses == {"queued", "gathering", "answering", "complete", "failed", "cancelled", "interrupted"}

\* GuideConversation.validate, which the state file is refused without.
GuideTypeOK ==
    /\ Len(turns) <= KeptTurns /\ Cardinality(BusyTurns) <= 1
    /\ \A i \in DOMAIN turns :
          /\ turns[i].status \in TurnStatuses /\ turns[i].seq < next
          /\ turns[i].proposal.status # NoTurn => turns[i].status = "complete"
          /\ \A j \in 1..(i - 1) : turns[j].seq < turns[i].seq /\ turns[j].id # turns[i].id
    /\ moods \in 0..MaxMoods /\ restarts \in 0..MaxRestarts

(* A question is put to the assistant once, however often its request is      *)
(* repeated and however long ago its turn left the conversation (AskGuide).   *)
QuestionsOnce == \A q \in Questions : accepted[q] <= 1

(* A proposal is carried out once, and on the bot the assistant saw when it   *)
(* began the answer, though others steer the bot and confirm at the same time *)
(* (ConfirmGuide, guideControlDigest).                                        *)
ActsAsProposed == \A a \in acted : a.met = a.digest /\ ~a.again

GuideHolds == GuideTypeOK /\ QuestionsOnce /\ ActsAsProposed

(* An answer that is over stays as it is: a canceled or interrupted question  *)
(* never gets a proposal from a late answer (answerGuide).                    *)
AnswersStay ==
    \A q \in Questions :
        HasTurn(q) /\ ~Busy(Turn(q).status) /\ HasTurn(q)' =>
            /\ Turn(q)'.status = Turn(q).status
            /\ Turn(q)'.proposal # Turn(q).proposal =>
                   Turn(q).proposal.status = "proposed" /\ Turn(q)'.proposal.status = "confirmed"
=============================================================================
