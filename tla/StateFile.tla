------------------------------ MODULE StateFile -----------------------------
(***************************************************************************)
(* How Town's state reaches the disk, and the archive of finished tasks      *)
(* beside it (Store.Update and Open in store.go, history.go,                *)
(* history_read.go), for one town with an issue, the pull request that       *)
(* implements it and its merge commit.                                      *)
(*                                                                          *)
(* An update writes a temporary file, renames it over the old one and syncs  *)
(* the directory. Until that sync a power loss may bring an older file back; *)
(* "kept" is the set of contents that may be found afterwards. A repository  *)
(* pass reads GitHub, brings archived tasks back that it is about to touch,  *)
(* commits what it saw, and archives what has been finished for a month:     *)
(* objects first, then the index, then the removal from the hot state.       *)
(*                                                                          *)
(* Abstractions: a task is its stage, a count of its changes (its bytes),    *)
(* the day of its last update and whether anything else keeps it hot; a      *)
(* digest is the content it stands for; a clock tick is the retention        *)
(* period. Damage to files is left out: the code refuses it when it reads.   *)
(***************************************************************************)
EXTENDS Integers, FiniteSets

CONSTANTS
    MaxClock,    \* bound: retention periods that pass
    MaxEvents,   \* bound: what GitHub, people and workers change
    MaxFaults    \* bound: failed writes, failed syncs and power losses

Ids == {"issue", "pr", "commit"}

\* What the constants must be.
StateFileConstants ==
    MaxClock \in Nat /\ MaxEvents \in Nat /\ MaxFaults \in Nat
ASSUME StateFileConstantsHold == StateFileConstants

VARIABLES
    remote,     \* GitHub: the issue and the pull request
    clock,
    mem,        \* the state in memory
    index,      \* the archive's index in memory
    file,       \* the disk: state.json, index.json and the objects
    pass,       \* the repository pass
    events, faults,
    acked       \* read by no action: changes whose commit was reported saved

stateVars == <<remote, clock, mem, index, file, pass, events, faults, acked>>

Stages   == {"open", "closed", "merged", "shipped"}
Terminal == {"closed", "merged", "shipped"}
MaxVer   == MaxEvents + 3 * MaxClock + 3
Tasks    == [stage : Stages, ver : 0..MaxVer, upd : 0..MaxClock, held : BOOLEAN]
None     == [stage |-> "none"]
States   == [tasks : [Ids -> Tasks \cup {None}], archived : 0..3, created : BOOLEAN,
             busy : BOOLEAN]
Empty    == [i \in Ids |-> None]
NoIndex  == [missing |-> TRUE]
Indexes  == [Ids -> Tasks \cup {None}] \cup {NoIndex}
Idle     == [pc |-> "idle"]

StateTypeOK ==
    /\ remote \in [issue : {"open", "closed"}, pr : {"open", "closed", "merged"}]
    /\ clock \in 0..MaxClock
    /\ mem \in States /\ index \in Indexes
    /\ file.state.now \in file.state.kept /\ file.state.kept \subseteq States
    /\ file.index.now \in file.index.kept /\ file.index.kept \subseteq Indexes
    /\ file.objects.safe \subseteq file.objects.now
    /\ file.objects.now \subseteq Ids \X Tasks
    /\ pass.pc \in {"idle", "prepare", "commit", "objects", "index", "remove"}
    /\ events \in 0..MaxEvents /\ faults \in 0..MaxFaults
    /\ acked \in [Ids -> -1..MaxVer]

StateInit ==
    /\ remote = [issue |-> "open", pr |-> "open"] /\ clock = 0
    /\ mem = [tasks |-> Empty, archived |-> 0, created |-> FALSE, busy |-> FALSE]
    /\ index = NoIndex
    /\ file = [state |-> [now |-> mem, kept |-> {mem}],
               index |-> [now |-> NoIndex, kept |-> {NoIndex}],
               objects |-> [now |-> {}, safe |-> {}]]
    /\ pass = Idle /\ events = 0 /\ faults = 0 /\ acked = [i \in Ids |-> -1]

Fault == faults < MaxFaults /\ faults' = faults + 1
Event == events < MaxEvents /\ events' = events + 1

-----------------------------------------------------------------------------
(***************************************************************************)
(* Writing: a temporary file, a rename and a sync of the directory.          *)
(***************************************************************************)

Renamed(f, new) == [now |-> new, kept |-> f.kept \cup {new}]
Synced(f)       == [now |-> f.now, kept |-> {f.now}]

Hot(s, i) == s.tasks[i] # None
Larger(a, b) == IF a > b THEN a ELSE b

\* Store.Update reports success only after the sync; after the rename the new
\* state is in force whatever it reports.
Saved(new) ==
    /\ mem' = new /\ file' = [file EXCEPT !.state = Synced(Renamed(@, new))]
    /\ acked' = [i \in Ids |-> IF Hot(new, i) THEN Larger(acked[i], new.tasks[i].ver)
                               ELSE acked[i]]
    /\ UNCHANGED faults
NotSynced(new) ==
    /\ Fault /\ mem' = new /\ file' = [file EXCEPT !.state = Renamed(@, new)]
    /\ UNCHANGED acked
NotSaved == Fault /\ UNCHANGED <<mem, file, acked>>

-----------------------------------------------------------------------------
(***************************************************************************)
(* GitHub, people and workers beside the pass.                              *)
(***************************************************************************)

GitHubChanges ==
    /\ Event
    /\ \/ \E st \in {"open", "closed"} : remote' = [remote EXCEPT !.issue = st]
       \/ \E st \in {"open", "closed", "merged"} :
             remote.pr # "merged" /\ remote' = [remote EXCEPT !.pr = st]
    /\ remote' # remote
    /\ UNCHANGED <<clock, mem, index, file, pass, faults, acked>>

Tick ==
    /\ clock < MaxClock /\ clock' = clock + 1
    /\ UNCHANGED <<remote, mem, index, file, pass, events, faults, acked>>

\* A worker or a person changes a hot task; Release ships a commit.
ChangedTask(task, u, h, st) ==
    [stage |-> st, ver |-> task.ver + 1, upd |-> u, held |-> h]
NextStages(task, i) == {task.stage} \cup {st \in {"shipped"} : i = "commit"}
TaskChanges ==
    /\ Event
    /\ \E i \in {j \in Ids : Hot(mem, j)}, u \in 0..clock, h \in BOOLEAN :
       \E st \in NextStages(mem.tasks[i], i) :
          LET t   == ChangedTask(mem.tasks[i], u, h, st)
              new == [mem EXCEPT !.tasks = [@ EXCEPT ![i] = t]]
          IN  /\ u \in {mem.tasks[i].upd, clock}
              /\ Saved(new) \/ NotSynced(new) \/ NotSaved
    /\ UNCHANGED <<remote, clock, index, pass>>

\* A dispatch, a write intent or a request begins, or ends.
WorkChanges ==
    /\ Event
    /\ LET new == [mem EXCEPT !.busy = ~@] IN Saved(new) \/ NotSynced(new) \/ NotSaved
    /\ UNCHANGED <<remote, clock, index, pass>>

-----------------------------------------------------------------------------
(***************************************************************************)
(* The repository pass: PrepareHistory and the commit of an inventory.       *)
(***************************************************************************)

\* An inventory names the items it saw. The GitHub funnel's page does not say
\* in which state an issue is: prepareFunnelHistory takes it to be open.
PassObserves ==
    /\ pass = Idle
    /\ \/ \E seen \in SUBSET {"issue", "pr"} :
             pass' = [pc |-> "prepare", funnel |-> FALSE, seen |-> seen, remote |-> remote]
       \/ pass' = [pc |-> "prepare", funnel |-> TRUE, seen |-> {"issue"},
                   remote |-> [remote EXCEPT !.issue = "open"]]
    /\ UNCHANGED <<remote, clock, mem, index, file, events, faults, acked>>

Cold(i) == ~Hot(mem, i) /\ index # NoIndex /\ index[i] # None

\* What is finished and still as it was archived stays cold; the issue of an
\* open pull request comes back with it.
StaysCold(r) ==
    {i \in pass.seen : Cold(i) /\ index[i].stage = r[i] /\ r[i] # "open"}
Dependency(r) == IF "pr" \in pass.seen /\ r.pr = "open" THEN {"issue"} ELSE {}
Restored(r) ==
    {i \in (pass.seen \ StaysCold(r)) \cup Dependency(r) : Cold(i)}
CommitArchived == Cold("commit") /\ index["commit"].stage = "shipped"
Readable(S) == \A i \in S : <<i, index[i]>> \in file.objects.now

Prepare ==
    /\ pass.pc = "prepare"
    /\ LET r == pass.remote
       IN  pass' = IF Readable(Restored(r))
                   THEN [pc |-> "commit", funnel |-> pass.funnel, remote |-> r,
                         seen |-> pass.seen \ StaysCold(r), commit |-> CommitArchived,
                         back |-> [i \in Restored(r) |-> index[i]]]
                   ELSE Idle
    /\ UNCHANGED <<remote, clock, mem, index, file, events, faults, acked>>

\* restoreHistory: a task that is not hot comes back as it was archived.
CountedBack(s, back) == {i \in DOMAIN back : ~Hot(s, i)}
RestoreUncounted(s, back) ==
    [s EXCEPT !.tasks = [i \in Ids |-> IF i \in CountedBack(s, back) THEN back[i] ELSE @[i]]]
RestoreHistory(s, back) ==
    [s EXCEPT !.tasks = [i \in Ids |-> IF i \in CountedBack(s, back) THEN back[i] ELSE @[i]],
              !.archived = @ - Cardinality(CountedBack(s, back))]

\* Reconcile: an unknown item arrives, a known one follows GitHub.
Follows(task, st) ==
    IF task = None THEN [stage |-> st, ver |-> 0, upd |-> clock, held |-> FALSE]
    ELSE IF task.stage = st THEN task
    ELSE ChangedTask(task, clock, task.held, st)
Reconciled(s) ==
    LET merged == "pr" \in pass.seen /\ pass.remote.pr = "merged"
    IN  [s EXCEPT !.tasks = [i \in Ids |->
            IF i \in pass.seen THEN Follows(@[i], pass.remote[i])
            ELSE IF i = "commit" /\ merged /\ ~pass.commit /\ @[i] = None
            THEN [stage |-> "open", ver |-> 0, upd |-> clock, held |-> FALSE]
            ELSE @[i]]]

\* A page binds its item to the source, which keeps the task hot, and touches it.
Bound(t) == IF t.held /\ t.upd = clock THEN t ELSE ChangedTask(t, clock, TRUE, t.stage)
FunnelReconciled(s) ==
    LET old == s.tasks["issue"]
        new == Bound(Follows(old, IF old = None THEN "open" ELSE old.stage))
    IN  [s EXCEPT !.tasks = [s.tasks EXCEPT !["issue"] = new]]

PassInventory(s) == IF pass.funnel THEN FunnelReconciled(s) ELSE Reconciled(s)
PassCommits ==
    /\ pass.pc = "commit"
    /\ LET new == PassInventory(RestoreHistory(mem, pass.back))
       IN  \/ Saved(new) /\ pass' = IF pass.funnel THEN Idle ELSE [pc |-> "objects"]
           \/ (NotSynced(new) \/ NotSaved) /\ pass' = Idle
    /\ UNCHANGED <<remote, clock, index, events>>

-----------------------------------------------------------------------------
(***************************************************************************)
(* ArchiveCompleted: record, index, removal.                                *)
(***************************************************************************)

Entry(x, i) == IF x = NoIndex THEN None ELSE x[i]

\* historyCandidate: finished long ago, nothing pending on it; an issue only
\* when its pull request is finished too, hot or archived.
Candidate(s, x, i) ==
    /\ Hot(s, i) /\ s.tasks[i].stage \in Terminal /\ ~s.tasks[i].held
    /\ clock > s.tasks[i].upd
    /\ i = "issue" => IF Hot(s, "pr") THEN s.tasks["pr"].stage \in Terminal
                      ELSE Entry(x, "pr") # None
Selected(s, x) == {i \in Ids : Candidate(s, x, i)}

\* The objects are written one after the other; a failure leaves the rest.
ArchiveObjects ==
    /\ pass.pc = "objects"
    /\ LET S    == IF mem.busy THEN {} ELSE Selected(mem, index)
           objs == {<<i, mem.tasks[i]>> : i \in S}
       IN  \/ /\ S = {} /\ pass' = Idle /\ UNCHANGED <<file, faults>>
           \/ /\ S # {} /\ UNCHANGED faults
              /\ file' = [file EXCEPT !.objects = [now |-> @.now \cup objs, safe |-> @.safe \cup objs]]
              /\ pass' = [pc |-> "index", entries |-> [i \in S |-> mem.tasks[i]]]
           \/ /\ S # {} /\ Fault /\ pass' = Idle
              /\ \E some \in SUBSET objs :
                    file' = [file EXCEPT !.objects.now = @ \cup some]
    /\ UNCHANGED <<remote, clock, mem, index, events, acked>>

\* The index names every archived task and the ones about to be.
Extended(x, entries) ==
    [i \in Ids |-> IF i \in DOMAIN entries THEN entries[i] ELSE Entry(x, i)]
ArchiveIndexes ==
    /\ pass.pc = "index"
    /\ LET new == Extended(index, pass.entries)
       IN  \/ /\ file' = [file EXCEPT !.index = Synced(Renamed(@, new))]
              /\ index' = new /\ UNCHANGED faults
              /\ pass' = [pc |-> "remove", entries |-> pass.entries]
           \/ /\ Fault /\ pass' = Idle /\ UNCHANGED index
              /\ \/ file' = [file EXCEPT !.index = Renamed(@, new)]
                 \/ UNCHANGED file
    /\ UNCHANGED <<remote, clock, mem, events, acked>>

\* The removal rechecks every task against the bytes that were archived.
RemovableUnchecked(s, i) == i \in DOMAIN pass.entries /\ Candidate(s, index, i)
Removable(s, i) ==
    /\ i \in DOMAIN pass.entries /\ Candidate(s, index, i)
    /\ s.tasks[i] = pass.entries[i]
ColdIn(tasks) == {i \in Ids : index[i] # None /\ tasks[i] = None}
Removed(s) ==
    LET left == [i \in Ids |-> IF Removable(s, i) THEN None ELSE s.tasks[i]]
    IN  [s EXCEPT !.tasks = left, !.archived = Cardinality(ColdIn(left)), !.created = TRUE]
ArchiveRemoves ==
    /\ pass.pc = "remove" /\ pass' = Idle
    /\ LET new == IF mem.busy THEN mem ELSE Removed(mem)
       IN  Saved(new) \/ NotSynced(new) \/ NotSaved
    /\ UNCHANGED <<remote, clock, index, events>>

-----------------------------------------------------------------------------
(***************************************************************************)
(* Restart. Open refuses an archive that does not match the state.          *)
(***************************************************************************)

Matches(s, x) ==
    IF x = NoIndex THEN ~s.created
    ELSE s.archived = Cardinality({i \in Ids : x[i] # None /\ s.tasks[i] = None})

Opens(s, x) ==
    /\ mem' = s /\ index' = x /\ Matches(s, x) /\ pass' = Idle
    /\ UNCHANGED <<remote, clock, events, acked>>

\* The process dies: the files are as they were last renamed.
Restart ==
    /\ pass # Idle /\ Fault /\ Opens(file.state.now, file.index.now) /\ UNCHANGED file

PowerLoss ==
    /\ Fault
    /\ \E s \in file.state.kept : \E x \in file.index.kept :
       \E some \in SUBSET (file.objects.now \ file.objects.safe) :
          LET o == file.objects.safe \cup some
          IN  /\ Opens(s, x)
              /\ file' = [state |-> [now |-> s, kept |-> {s}],
                          index |-> [now |-> x, kept |-> {x}],
                          objects |-> [now |-> o, safe |-> o]]

StateNext ==
    \/ GitHubChanges \/ Tick \/ TaskChanges \/ WorkChanges
    \/ PassObserves \/ Prepare \/ PassCommits
    \/ ArchiveObjects \/ ArchiveIndexes \/ ArchiveRemoves
    \/ Restart \/ PowerLoss

StateSpec == StateInit /\ [][StateNext]_stateVars

-----------------------------------------------------------------------------
(***************************************************************************)
(* Properties.                                                              *)
(***************************************************************************)

\* Whatever a power loss leaves, Town starts again: the archive's index and the
\* count of archived tasks in the state agree (loadHistory refuses otherwise).
HistoryMatches == \A s \in file.state.kept : \A x \in file.index.kept : Matches(s, x)

\* A change whose commit was reported saved is found again, in the hot state or
\* in a readable object of the archive, whatever step of archiving or restoring
\* a failure or a power loss interrupted; so a task that comes back is never
\* taken for a new arrival (Update, ArchiveCompleted, PrepareHistory).
Recorded(s, x, i) ==
    IF Hot(s, i) THEN s.tasks[i].ver
    ELSE IF Entry(x, i) # None /\ <<i, Entry(x, i)>> \in file.objects.safe THEN Entry(x, i).ver
    ELSE -1
ChangesKept ==
    \A i \in Ids :
        /\ \A s \in file.state.kept : \A x \in file.index.kept : Recorded(s, x, i) >= acked[i]
        /\ Recorded(mem, index, i) >= acked[i]

\* Both, as the run checks them.
NothingForgotten == HistoryMatches /\ ChangesKept

=============================================================================
