------------------------------ MODULE Attention -----------------------------
(***************************************************************************)
(* The attention hook: a command Town runs when a task or a worker begins to *)
(* need a person (attention.go, Store.Update, Open). The commit that brings  *)
(* the need about also queues the notice; a watcher claims one notice at a   *)
(* time, saves the claim, runs the command once and saves the end.          *)
(*                                                                          *)
(* Abstractions: a notice is the identity it is about and the reason for it; *)
(* the order of queued notices and the command are left out, as are the      *)
(* command's outcomes, which the code only logs. A commit that the disk may  *)
(* lose again is as in StateFile.                                           *)
(***************************************************************************)
EXTENDS Integers, FiniteSets

CONSTANTS
    Notices,     \* identities with a reason that may need a person
    MaxNeeds,    \* bound: changes of what needs a person, or of the hook
    MaxLosses    \* bound: failed commits and restarts

ASSUME AttentionConstants ==
    IsFiniteSet(Notices) /\ MaxNeeds \in Nat /\ MaxLosses \in Nat

VARIABLES
    now,       \* the state in memory
    disk,      \* state.json: the file, and what a power loss may bring back
    snoozed,   \* needs hidden by a deferral that has not ended
    watcher,   \* where watchAttention is, and the notice it claimed
    awake,     \* the channel that the watcher took is closed
    needs, losses,
    raised, ran   \* read by no action: how often a notice was due, and was given

attnVars == <<now, disk, snoozed, watcher, awake, needs, losses, raised, ran>>

\* taken is read by no action: claimed since the need it is about began.
Saved0 == [needs : SUBSET Notices, enabled : BOOLEAN, seen : SUBSET Notices,
           pending : SUBSET Notices, active : SUBSET Notices, taken : SUBSET Notices]
Places == {"start", "look", "check", "claim", "run", "finish", "wait", "stopped"}

AttentionTypeOK ==
    /\ now \in Saved0 /\ disk.now \in disk.kept /\ disk.kept \subseteq Saved0
    /\ Cardinality(now.active) <= 1
    /\ snoozed \subseteq Notices
    /\ watcher.pc \in Places /\ watcher.notice \subseteq Notices
    /\ awake \in BOOLEAN /\ needs \in 0..MaxNeeds /\ losses \in 0..MaxLosses

AttentionInit ==
    /\ now = [needs |-> {}, enabled |-> TRUE, seen |-> {}, pending |-> {}, active |-> {},
              taken |-> {}]
    /\ disk = [now |-> now, kept |-> {now}]
    /\ snoozed \in SUBSET Notices
    /\ watcher = [pc |-> "start", notice |-> {}] /\ awake = FALSE
    /\ needs = 0 /\ losses = 0
    /\ raised = [n \in Notices |-> 0] /\ ran = [n \in Notices |-> 0]

Need == needs < MaxNeeds /\ needs' = needs + 1
Loss == losses < MaxLosses /\ losses' = losses + 1

\* attentionSet: a deferral hides a need until it ends.
AttentionSet(s) == s.needs \ snoozed

\* queueAttention, in every commit: what was not in attention before is queued
\* unless it still is; without a hook nothing is remembered.
New(old, s) == IF s.enabled THEN AttentionSet(s) \ old.seen ELSE {}
QueueForgetful(old, s) ==
    IF ~s.enabled THEN [s EXCEPT !.pending = {}]
    ELSE [s EXCEPT !.seen = AttentionSet(s), !.pending = @ \cup New(old, s)]
QueueAttention(old, s) ==
    IF ~s.enabled THEN [s EXCEPT !.pending = {}, !.seen = {}]
    ELSE [s EXCEPT !.seen = AttentionSet(s), !.pending = @ \cup New(old, s)]

Committed(old, s) ==
    [QueueAttention(old, s) EXCEPT !.taken = (@ \ New(old, s)) \cup (s.active \ old.active)]
Raises(old, s) ==
    raised' = [n \in Notices |-> IF n \in New(old, s) THEN raised[n] + 1 ELSE raised[n]]

\* A commit closes the channel; it may be in force and yet be reported failed.
Commits(s) ==
    /\ now' = Committed(now, s) /\ Raises(now, s) /\ awake' = TRUE
    /\ disk' = [now |-> now', kept |-> {now'}] /\ UNCHANGED losses
Unsynced(s) ==
    /\ Loss /\ now' = Committed(now, s) /\ Raises(now, s) /\ awake' = TRUE
    /\ disk' = [now |-> now', kept |-> disk.kept \cup {now'}]
Unsaved == Loss /\ UNCHANGED <<now, disk, awake, raised>>

-----------------------------------------------------------------------------
\* Work changes what needs a person; SetAttentionHook turns the hook on or off.
NeedsChange ==
    /\ Need
    /\ \E n \in Notices :
          LET s == [now EXCEPT !.needs = IF n \in @ THEN @ \ {n} ELSE @ \cup {n}]
          IN  Commits(s) \/ Unsynced(s)
    /\ UNCHANGED <<snoozed, watcher, ran>>

SetAttentionHook ==
    /\ Need
    /\ LET s == [now EXCEPT !.enabled = ~@] IN Commits(s) \/ Unsynced(s)
    /\ UNCHANGED <<snoozed, watcher, ran>>

\* A commit that changes neither: a deferral that ended meanwhile shows here.
OtherCommit ==
    /\ Commits(now) /\ now' # now
    /\ UNCHANGED <<snoozed, watcher, needs, ran>>

DeferralEnds ==
    /\ \E n \in snoozed : snoozed' = snoozed \ {n}
    /\ UNCHANGED <<now, disk, watcher, awake, needs, losses, raised, ran>>

-----------------------------------------------------------------------------
At(pc)   == watcher' = [watcher EXCEPT !.pc = pc]
Stops    == watcher' = [pc |-> "stopped", notice |-> {}]
quietly  == <<snoozed, needs>>

\* A saved claim may have run before the process stopped: never again.
ClearsClaim(s) == [s EXCEPT !.active = {}]
Replays(s)     == [s EXCEPT !.active = {}, !.pending = @ \cup s.active]
OnStart(s)     == ClearsClaim(s)
WatcherStarts ==
    /\ watcher.pc = "start"
    /\ IF now.active = {}
       THEN At("look") /\ UNCHANGED <<now, disk, awake, losses, raised>>
       ELSE \/ Commits(OnStart(now)) /\ At("look")
            \/ (Unsynced(OnStart(now)) \/ Unsaved) /\ Stops
    /\ UNCHANGED <<quietly, ran>>

\* The channel is taken before the queue is looked at.
TakesChannel ==
    /\ watcher.pc = "look" /\ At("check") /\ awake' = FALSE
    /\ UNCHANGED <<quietly, now, disk, losses, raised, ran>>
Ready(s) == s.enabled /\ s.pending # {}
Checks ==
    /\ watcher.pc = "check" /\ At(IF Ready(now) THEN "claim" ELSE "wait")
    /\ UNCHANGED <<quietly, now, disk, awake, losses, raised, ran>>
Wakes ==
    /\ watcher.pc = "wait" /\ awake /\ At("look")
    /\ UNCHANGED <<quietly, now, disk, awake, losses, raised, ran>>

\* The claim is saved before the command is started; the hook may have been
\* turned off, or the queue emptied, since the watcher looked.
Claims ==
    /\ watcher.pc = "claim"
    /\ IF ~Ready(now)
       THEN \/ Commits(now) /\ At("look")
            \/ (Unsynced(now) \/ Unsaved) /\ Stops
       ELSE \E n \in now.pending :
              LET s == [now EXCEPT !.pending = @ \ {n}, !.active = {n}]
              IN  \/ Commits(s) /\ watcher' = [pc |-> "run", notice |-> {n}]
                  \/ (Unsynced(s) \/ Unsaved) /\ Stops
    /\ UNCHANGED <<quietly, ran>>

\* The command runs, fails or times out; it may have had its effect anyway.
RunsHook ==
    /\ watcher.pc = "run" /\ At("finish")
    /\ ran' = [n \in Notices |-> IF n \in watcher.notice THEN ran[n] + 1 ELSE ran[n]]
    /\ UNCHANGED <<quietly, now, disk, awake, losses, raised>>

Finishes ==
    /\ watcher.pc = "finish"
    /\ LET s == [now EXCEPT !.active = {}]
       IN  \/ Commits(s) /\ watcher' = [pc |-> "look", notice |-> {}]
           \/ (Unsynced(s) \/ Unsaved) /\ Stops
    /\ UNCHANGED <<quietly, ran>>

-----------------------------------------------------------------------------
\* Open finds what the disk kept. An interrupted run becomes a recovery hold,
\* which needs a person and is queued before the watcher starts.
Open ==
    /\ Loss
    /\ \E s \in disk.kept : \E held \in SUBSET Notices :
          LET t == [s EXCEPT !.needs = @ \cup held]
          IN  now' = Committed(s, t) /\ Raises(s, t) /\ disk' = [now |-> s, kept |-> {s}]
    /\ watcher' = [pc |-> "start", notice |-> {}] /\ awake' = FALSE
    /\ UNCHANGED <<snoozed, needs, ran>>

AttentionNext ==
    \/ NeedsChange \/ SetAttentionHook \/ OtherCommit \/ DeferralEnds
    \/ WatcherStarts \/ TakesChannel \/ Checks \/ Wakes \/ Claims \/ RunsHook \/ Finishes
    \/ Open

AttentionSpec == AttentionInit /\ [][AttentionNext]_attnVars

-----------------------------------------------------------------------------
(***************************************************************************)
(* Properties.                                                              *)
(***************************************************************************)

\* A person is told of each need at most once, whatever is lost between the
\* claim, the command and its end (watchAttention).
ToldOnce == \A n \in Notices : ran[n] <= raised[n]

\* A need that is remembered as seen is queued or was claimed since it began:
\* none is lost to a commit, to turning the hook off and on or to a restart.
SeenIsTold == now.enabled => now.seen \subseteq now.pending \cup now.taken

\* The watcher never sleeps on a queue it could empty.
WatcherAwake == watcher.pc = "wait" /\ Ready(now) => awake

\* A person is told of a need at most once and no need is forgotten, through
\* lost commits and restarts, and the watcher never sleeps on a queue it could
\* empty (watchAttention, queueAttention).
AttentionHolds == ToldOnce /\ SeenIsTold /\ WatcherAwake

=============================================================================
