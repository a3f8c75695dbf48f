------------------------------ MODULE Dispatch ------------------------------
(***************************************************************************)
(* The supervisor's dispatch of bot runs (internal/town/supervisor.go) on   *)
(* top of the durable store (store.go, recovery.go) and the storage-cleanup *)
(* reservation (storage.go).                                                *)
(*                                                                          *)
(* One bot is a pair <<town, role>>.  A run of a bot is a goroutine with a  *)
(* program counter: the steps below are separated exactly where the code    *)
(* releases s.mu or the store lock, so everything else (the operator, other *)
(* runs, a crash) may happen between two of them.                           *)
(*                                                                          *)
(* Abstractions, and why they are safe for the properties stated here:      *)
(*  - time: a bot's Next instant is left out; a bot may be dispatched as    *)
(*    soon as it is eligible, a superset of what the clock allows;          *)
(*  - budget and quiet hours hold agent work the same way: one flag, held;  *)
(*  - a town has had its first inventory (Initialized);                     *)
(*  - a task is an element of Tasks and only its house matters here;        *)
(*  - execution placement (Mjolnir) shows only as a start that is held.     *)
(***************************************************************************)
EXTENDS Naturals, FiniteSets

CONSTANTS
    Towns,        \* managed repositories
    Agents,       \* roles that hold an agent slot for their whole run
    Repo,         \* the role that observes the repository, without a slot
    Review,       \* the agent role whose runs may confirm a merge
    Issue,        \* the agent role with a durable retry of its own
    Hall,         \* the role whose tasks the operator can also decide
    Tasks,        \* pull requests and issues of a town
    None,         \* no run, no recovery hold, no gate holder
    Taskless,     \* the target of a scan, a status report or a branch repair
    Inventory,    \* the mode of a read-only repository observation
    MaxLimit,     \* bound: largest worker limit the operator sets
    MaxCrashes,   \* bound: crashes and shutdowns explored
    MaxCommands,  \* bound: operator commands and budget or quiet-hour changes
    Faults,       \* which store commits may fail: subset of {"final", "gate"}
    Panics        \* the places of a run where its code may panic

Roles   == Agents \cup {Repo}
Bots    == Towns \X Roles
Targets == Tasks \cup {Taskless}

ASSUME ConstantsAssumption ==
    /\ Repo \notin Agents
    /\ IsFiniteSet(Towns) /\ IsFiniteSet(Agents)
    /\ None \notin Targets /\ Inventory \notin Targets /\ None # Inventory
    /\ None \notin Towns \X (Agents \cup {Repo})
    /\ MaxLimit \in Nat \ {0} /\ MaxCrashes \in Nat /\ MaxCommands \in Nat
    /\ Panics \subseteq {"picked", "recorded", "sent", "observed", "applying"}
    /\ Faults \subseteq {"final", "gate"}

VARIABLES
    \* Durable: the fields of state.json this component reads and writes.
    deleted,                 \* per town
    enabled, status,         \* per bot: Worker.Enabled, Worker.Status
    run, recovery,           \* per bot: Worker.Run, Worker.Recovery
    house,                   \* per town and task: Task.House
    limit,                   \* ServiceConfig.MaxWorkers
    held,                    \* per town: budget spent or quiet hours active
    \* Lost with the process.
    phase,                   \* the service: "up", "stopping" or "down"
    fatal,                   \* s.fatal holds an error
    running, canceled,       \* s.running, and the runs whose context is canceled
    stops,                   \* bots a stop has disabled but not yet canceled
    repairing,               \* s.repairing
    gate,                    \* per town: who holds reconcileGate
    storageBusy,             \* Store.storageBusy
    retrying,                \* per town: progress of retryIssueTask
    pc, mode, outcome,       \* per bot: where its run is, what it asks, how it ended
    claim,                   \* per town: this pass's local variable "repair"
    \* History, read by no action's guard.
    lost,                    \* bots with work that may have landed, outcome unknown
    crashes, commands

durable  == <<deleted, enabled, status, run, recovery, house, limit, held>>
volatile == <<phase, fatal, running, canceled, stops, repairing, gate,
              storageBusy, retrying, pc, mode, outcome, claim>>
vars     == <<durable, volatile, lost, crashes, commands>>

Statuses == {"waiting", "working", "pausing", "paused", "failed"}
Places   == {"idle", "reserved", "started", "gate", "picked", "recorded", "sent",
             "observed", "applying", "passed", "finished", "leaving"}

TypeOK ==
    /\ deleted \in [Towns -> BOOLEAN]
    /\ enabled \in [Bots -> BOOLEAN] /\ status \in [Bots -> Statuses]
    /\ run \in [Bots -> Targets \cup {None, Inventory}]
    /\ recovery \in [Bots -> Targets \cup {None}]
    /\ house \in [Towns -> [Tasks -> Agents]]
    /\ limit \in 1..MaxLimit /\ held \in [Towns -> BOOLEAN]
    /\ phase \in {"up", "stopping", "down"} /\ fatal \in BOOLEAN
    /\ running \subseteq Bots /\ canceled \subseteq Bots /\ stops \subseteq Bots
    /\ repairing \subseteq Towns /\ storageBusy \subseteq Towns
    /\ gate \in [Towns -> Bots \cup {None}]
    /\ retrying \in [Towns -> {"no", "inspecting", "waiting"}]
    /\ pc \in [Bots -> Places] /\ mode \in [Bots -> Targets \cup {None, Inventory}]
    /\ outcome \in [Bots -> {"ok", "failed", "interrupted"}]
    /\ claim \in [Towns -> BOOLEAN]
    /\ lost \subseteq Bots /\ crashes \in 0..MaxCrashes /\ commands \in 0..MaxCommands

\* The service has opened a state file that holds no open run and no hold;
\* each bot is started or paused.
Init ==
    /\ deleted = [t \in Towns |-> FALSE]
    /\ enabled \in [Bots -> BOOLEAN]
    /\ status = [b \in Bots |-> IF enabled[b] THEN "waiting" ELSE "paused"]
    /\ run = [b \in Bots |-> None] /\ recovery = [b \in Bots |-> None]
    /\ house \in [Towns -> [Tasks -> Agents]]
    /\ limit \in 1..MaxLimit /\ held = [t \in Towns |-> FALSE]
    /\ phase = "up" /\ fatal = FALSE
    /\ running = {} /\ canceled = {} /\ stops = {}
    /\ repairing = {} /\ storageBusy = {}
    /\ gate = [t \in Towns |-> None] /\ retrying = [t \in Towns |-> "no"]
    /\ pc = [b \in Bots |-> "idle"] /\ mode = [b \in Bots |-> None]
    /\ outcome = [b \in Bots |-> "ok"] /\ claim = [t \in Towns |-> FALSE]
    /\ lost = {} /\ crashes = 0 /\ commands = 0

-----------------------------------------------------------------------------
(***************************************************************************)
(* Shared conditions.                                                       *)
(***************************************************************************)

\* activeWorkers: the runs that hold an agent slot.
Active == {b \in running : b[2] = Repo => b[1] \in repairing}

\* The pool has a slot to give: checked under s.mu by schedule and claimRepair.
SlotFreeOffByOne == Cardinality(Active) <= limit
SlotFree == Cardinality(Active) < limit

\* dispatchEligibility, re-read under the scheduler mutex.
EligibleDespiteHold(b) ==
    /\ b[1] \notin storageBusy /\ ~deleted[b[1]]
    /\ b[2] # Repo => ~held[b[1]]
    /\ enabled[b] /\ run[b] = None
Eligible(b) ==
    /\ b[1] \notin storageBusy /\ ~deleted[b[1]]
    /\ b[2] # Repo => ~held[b[1]]
    /\ enabled[b] /\ run[b] = None
    /\ recovery[b] = None \/ b[2] = Repo

\* storageHold: what keeps a town's artifacts from being cleaned up.
Quiescent(t) ==
    \A r \in Roles : LET b == <<t, r>> IN
        /\ recovery[b] = None /\ run[b] = None /\ ~enabled[b]
        /\ status[b] \notin {"working", "pausing"}

\* Store.Update refuses a commit that would start work under a cleanup.
StoreAccepts == \A t \in storageBusy : Quiescent(t)'

\* A repository pass runs for Repo, or inside Review to confirm a merge; its
\* Run is always the Repo worker's.
InPass(b)   == b[2] = Repo \/ mode[b] = Inventory
RunOwner(b) == IF InPass(b) THEN <<b[1], Repo>> ELSE b

\* Work that may write was sent and its result is not committed yet.
Unsettled(b) == mode[b] \in Targets /\ pc[b] \in {"sent", "observed", "finished"}

\* recoverWorkerRun: an open run becomes a hold, unless a hold is already
\* there or the run was the repository read, which cannot have written.
RecoveredReads(b) == IF run[b] # None /\ recovery[b] = None THEN run[b] ELSE recovery[b]
RecoveredNever(b) == recovery[b]
Recovered(b) ==
    IF run[b] \in Targets /\ recovery[b] = None THEN run[b] ELSE recovery[b]

\* reconcileGate is a one-slot channel.
GateIgnored(t) == TRUE
GateFree(t) == gate[t] = None

\* The final commit clears the bot's run; Repo's was settled under the gate.
RunKept(b) == run
RunCleared(b) == IF b[2] # Repo THEN [run EXCEPT ![b] = None] ELSE run

\* The status of a bot that is not running anything.
Resting(b) == IF enabled[b] THEN "waiting" ELSE "paused"

\* The operator and the clock act within the bound.
Command == commands < MaxCommands /\ commands' = commands + 1

\* A committed inventory, verdict or decision may move one task to another house.
Moved(t) == {house[t]} \cup {[house[t] EXCEPT ![k] = r] : k \in Tasks, r \in Agents}

-----------------------------------------------------------------------------
(***************************************************************************)
(* The scheduler.                                                           *)
(***************************************************************************)

\* schedule and dispatch: reserve the bot under s.mu.
Reserve(b) ==
    /\ phase = "up" /\ Eligible(b)
    /\ b \notin running /\ ~(b[2] = Issue /\ retrying[b[1]] # "no")
    /\ b[2] # Repo => SlotFree
    /\ running' = running \cup {b}
    /\ pc' = [pc EXCEPT ![b] = "reserved"]
    /\ UNCHANGED <<durable, phase, fatal, canceled, stops, repairing, gate,
                   storageBusy, retrying, mode, outcome, claim, lost, crashes, commands>>

\* SetCapacity: the limit may drop below the slots in use.
SetCapacity(n) ==
    /\ Command
    /\ phase = "up" /\ n # limit
    /\ limit' = n
    /\ UNCHANGED <<deleted, enabled, status, run, recovery, house,
                   held, volatile, lost, crashes>>

\* The budget runs out or is renewed, or a quiet window opens or closes.
Hold(t) ==
    /\ Command
    /\ held' = [held EXCEPT ![t] = ~@]
    /\ UNCHANGED <<deleted, enabled, status, run, recovery, house,
                   limit, volatile, lost, crashes>>

-----------------------------------------------------------------------------
(***************************************************************************)
(* One run: Supervisor.execute, with BotWorkers.Run and reconcile inside.   *)
(***************************************************************************)

\* The start commit re-reads the state the reservation was made against.
StartCanceled(b) ==
    /\ pc[b] = "reserved"
    /\ b \in canceled \/ deleted[b[1]] \/ ~enabled[b]
    /\ pc' = [pc EXCEPT ![b] = "leaving"]
    /\ UNCHANGED <<durable, phase, fatal, running, canceled, stops, repairing, gate,
                   storageBusy, retrying, mode, outcome, claim, lost, crashes, commands>>

\* The placement became unavailable between the reservation and the start.
StartHeld(b) ==
    /\ pc[b] = "reserved" /\ b[2] # Repo
    /\ b \notin canceled /\ ~deleted[b[1]] /\ enabled[b]
    /\ pc' = [pc EXCEPT ![b] = "leaving"]
    /\ status' = [status EXCEPT ![b] = IF recovery[b] = None THEN "waiting" ELSE @]
    /\ UNCHANGED <<deleted, enabled, run, recovery, house, limit, held,
                   phase, fatal, running, canceled, stops, repairing, gate,
                   storageBusy, retrying, mode, outcome, claim, lost, crashes, commands>>

\* The start is committed with a clone of the town: the work is chosen from it.
StartCommit(b) ==
    /\ pc[b] = "reserved"
    /\ b \notin canceled /\ ~deleted[b[1]] /\ enabled[b]
    /\ status' = [status EXCEPT ![b] = "working"]
    /\ pc' = [pc EXCEPT ![b] = "started"]
    /\ \E m \in {Taskless} \cup {k \in Tasks : house[b[1]][k] = b[2]} :
           mode' = [mode EXCEPT ![b] = IF b[2] = Repo THEN Inventory ELSE m]
    /\ UNCHANGED <<deleted, enabled, run, recovery, house, limit, held,
                   phase, fatal, running, canceled, stops, repairing, gate,
                   storageBusy, retrying, outcome, claim, lost, crashes, commands>>

\* Nothing to do, or a failure before anything is sent: a setup error, an
\* unreachable bot, a record that could not be saved, a cancellation.
EndBeforeSending(b) ==
    /\ pc[b] = "started" /\ b[2] # Repo
    /\ pc' = [pc EXCEPT ![b] = "finished"]
    /\ mode' = [mode EXCEPT ![b] = None]
    /\ \E o \in {"ok", "failed"} : outcome' = [outcome EXCEPT ![b] = o]
    /\ UNCHANGED <<durable, phase, fatal, running, canceled, stops, repairing, gate,
                   storageBusy, retrying, claim, lost, crashes, commands>>

\* mergeReady has merged, or found a merge: it asks for a confirmation pass.
ConfirmMerge(b) ==
    /\ pc[b] = "started" /\ b[2] = Review
    /\ pc' = [pc EXCEPT ![b] = "gate"]
    /\ mode' = [mode EXCEPT ![b] = Inventory]
    /\ UNCHANGED <<durable, phase, fatal, running, canceled, stops, repairing, gate,
                   storageBusy, retrying, outcome, claim, lost, crashes, commands>>

\* claimRepair: the repair's slot, refused without stopping the inventory.
ClaimRepair(b) ==
    LET granted == /\ b[1] \notin storageBusy /\ recovery[b] = None
                   /\ SlotFree /\ ~held[b[1]]
    IN
    /\ pc[b] = "started" /\ b[2] = Repo
    /\ pc' = [pc EXCEPT ![b] = "gate"]
    /\ claim' = [claim EXCEPT ![b[1]] = granted]
    /\ mode' = [mode EXCEPT ![b] = IF granted THEN Taskless ELSE Inventory]
    /\ repairing' = IF granted THEN repairing \cup {b[1]} ELSE repairing
    /\ UNCHANGED <<durable, phase, fatal, running, canceled, stops, gate,
                   storageBusy, retrying, outcome, lost, crashes, commands>>

\* reconcileGate taken: the town is read again, and a hold forbids a repair.
EnterGate(b) ==
    /\ pc[b] = "gate" /\ GateFree(b[1])
    /\ IF deleted[b[1]]
       THEN /\ pc' = [pc EXCEPT ![b] = "passed"]
            /\ UNCHANGED <<gate, mode>>
       ELSE /\ pc' = [pc EXCEPT ![b] = "picked"]
            /\ gate' = [gate EXCEPT ![b[1]] = b]
            /\ mode' = [mode EXCEPT ![b] =
                            IF recovery[<<b[1], Repo>>] # None THEN Inventory ELSE @]
    /\ outcome' = [outcome EXCEPT ![b] = "ok"]
    /\ UNCHANGED <<durable, phase, fatal, running, canceled, stops, repairing,
                   storageBusy, retrying, claim, lost, crashes, commands>>

\* A stop or a shutdown answers a pass that still waits for the gate.
LeaveGateQueue(b) ==
    /\ pc[b] = "gate" /\ b \in canceled
    /\ pc' = [pc EXCEPT ![b] = "passed"]
    /\ outcome' = [outcome EXCEPT ![b] = "failed"]
    /\ UNCHANGED <<durable, phase, fatal, running, canceled, stops, repairing, gate,
                   storageBusy, retrying, mode, claim, lost, crashes, commands>>

\* The pass fails before its observation is recorded: importing issue jobs,
\* a funnel, or the repo bot's identity.
PassFails(b) ==
    /\ pc[b] = "picked"
    /\ pc' = [pc EXCEPT ![b] = "passed"]
    /\ outcome' = [outcome EXCEPT ![b] = "failed"]
    /\ gate' = [gate EXCEPT ![b[1]] = None]
    /\ UNCHANGED <<durable, phase, fatal, running, canceled, stops, repairing,
                   storageBusy, retrying, mode, claim, lost, crashes, commands>>

\* runBot records the dispatch before the work is sent.
RecordRun(b) ==
    /\ \/ pc[b] = "started" /\ b[2] # Repo
       \/ pc[b] = "picked"
    /\ run' = [run EXCEPT ![RunOwner(b)] = mode[b]]
    /\ pc' = [pc EXCEPT ![b] = "recorded"]
    /\ UNCHANGED <<deleted, enabled, status, recovery, house, limit, held,
                   phase, fatal, running, canceled, stops, repairing, gate,
                   storageBusy, retrying, mode, outcome, claim, lost, crashes, commands>>

\* The request leaves Town: from here the bot may write to GitHub.
Send(b) ==
    /\ pc[b] = "recorded"
    /\ pc' = [pc EXCEPT ![b] = "sent"]
    /\ UNCHANGED <<durable, phase, fatal, running, canceled, stops, repairing, gate,
                   storageBusy, retrying, mode, outcome, claim, lost, crashes, commands>>

AfterAnswer(b) == IF InPass(b) THEN "observed" ELSE "finished"

\* A canceled context before the request left: reported as interrupted.
CancelBeforeSend(b) ==
    /\ pc[b] = "recorded" /\ b \in canceled
    /\ pc' = [pc EXCEPT ![b] = AfterAnswer(b)]
    /\ outcome' = [outcome EXCEPT ![b] = "interrupted"]
    /\ mode' = [mode EXCEPT ![b] = None]
    /\ UNCHANGED <<durable, phase, fatal, running, canceled, stops, repairing, gate,
                   storageBusy, retrying, claim, lost, crashes, commands>>

\* The whole answer arrived, and nothing canceled the run.
Answer(b) ==
    /\ pc[b] = "sent" /\ b \notin canceled
    /\ pc' = [pc EXCEPT ![b] = AfterAnswer(b)]
    /\ \E o \in {"ok", "failed"} : outcome' = [outcome EXCEPT ![b] = o]
    /\ UNCHANGED <<durable, phase, fatal, running, canceled, stops, repairing, gate,
                   storageBusy, retrying, mode, claim, lost, crashes, commands>>

\* The run was canceled, or the answer broke off (botapi.ErrUncertain).
LoseAnswerUncanceled(b) ==
    /\ pc[b] = "sent" /\ b \notin canceled
    /\ pc' = [pc EXCEPT ![b] = AfterAnswer(b)]
    /\ outcome' = [outcome EXCEPT ![b] = "interrupted"]
    /\ lost' = IF mode[b] \in Targets THEN lost \cup {b} ELSE lost
    /\ UNCHANGED <<durable, phase, fatal, running, canceled, stops, repairing, gate,
                   storageBusy, retrying, mode, claim, crashes, commands>>
LoseAnswer(b) ==
    /\ pc[b] = "sent"
    /\ pc' = [pc EXCEPT ![b] = AfterAnswer(b)]
    /\ outcome' = [outcome EXCEPT ![b] = "interrupted"]
    /\ lost' = IF mode[b] \in Targets THEN lost \cup {b} ELSE lost
    /\ UNCHANGED <<durable, phase, fatal, running, canceled, stops, repairing, gate,
                   storageBusy, retrying, mode, claim, crashes, commands>>

\* The pass commits its dispatch outcome before it lets go of the gate.
CommitObservation(b) ==
    LET w == <<b[1], Repo>> IN
    /\ pc[b] = "observed"
    /\ recovery' = IF outcome[b] = "interrupted"
                   THEN [recovery EXCEPT ![w] = Recovered(w)] ELSE recovery
    /\ run' = [run EXCEPT ![w] = None]
    /\ IF outcome[b] = "ok"
       THEN pc' = [pc EXCEPT ![b] = "applying"] /\ UNCHANGED gate
       ELSE pc' = [pc EXCEPT ![b] = "passed"] /\ gate' = [gate EXCEPT ![b[1]] = None]
    /\ UNCHANGED <<deleted, enabled, status, house, limit, held,
                   phase, fatal, running, canceled, stops, repairing,
                   storageBusy, retrying, mode, outcome, claim, lost, crashes, commands>>

\* That commit fails: the service is told to stop, the gate is let go.
ObservationUnsaved(b) ==
    /\ "gate" \in Faults /\ pc[b] = "observed"
    /\ pc' = [pc EXCEPT ![b] = "passed"]
    /\ gate' = [gate EXCEPT ![b[1]] = None]
    /\ outcome' = [outcome EXCEPT ![b] = "failed"]
    /\ fatal' = TRUE
    /\ lost' = IF mode[b] \in Targets THEN lost \cup {b} ELSE lost
    /\ UNCHANGED <<durable, phase, running, canceled, stops, repairing,
                   storageBusy, retrying, mode, claim, crashes, commands>>

\* Reconcile and the writes that follow it, up to the gate's release.
ApplyInventory(b) ==
    LET t == b[1] IN
    /\ pc[b] = "applying"
    /\ \E h \in Moved(t) : house' = [house EXCEPT ![t] = h]
    /\ gate' = [gate EXCEPT ![t] = None]
    /\ pc' = [pc EXCEPT ![b] = "passed"]
    /\ \E o \in {"ok", "failed"} : outcome' = [outcome EXCEPT ![b] = o]
    /\ UNCHANGED <<deleted, enabled, status, run, recovery, limit, held,
                   phase, fatal, running, canceled, stops, repairing,
                   storageBusy, retrying, mode, claim, lost, crashes, commands>>

\* A pass imports issue-bot's records: a recorded pull request is evidence
\* that the interrupted issue run landed (resolveIssueRecovery).
ImportIssueEvidence(b) ==
    LET w == <<b[1], Issue>> IN
    /\ pc[b] \in {"picked", "applying"} /\ Issue \in Agents
    /\ recovery[w] \in Tasks /\ run[w] = None
    /\ recovery' = [recovery EXCEPT ![w] = None]
    /\ status' = [status EXCEPT ![w] = Resting(w)]
    /\ lost' = lost \ {w}
    /\ UNCHANGED <<deleted, enabled, run, house, limit, held,
                   volatile, crashes, commands>>

\* reconcile returned: releaseRepair, then the final commit is owed.
EndPass(b) ==
    /\ pc[b] = "passed"
    /\ pc' = [pc EXCEPT ![b] = "finished"]
    /\ repairing' = IF b[2] = Repo /\ claim[b[1]] THEN repairing \ {b[1]} ELSE repairing
    /\ claim' = IF b[2] = Repo THEN [claim EXCEPT ![b[1]] = FALSE] ELSE claim
    /\ mode' = [mode EXCEPT ![b] = None]
    /\ UNCHANGED <<durable, phase, fatal, running, canceled, stops, gate,
                   storageBusy, retrying, outcome, lost, crashes, commands>>

\* execute recovers a panic of the run as a failure: the gate's release is
\* deferred, releaseRepair is not, and an open record is left as it is.  What
\* was sent may still land; after an inventory part of it may be applied.
RunPanics(b) ==
    LET t == b[1] IN
    /\ pc[b] \in Panics
    /\ pc' = [pc EXCEPT ![b] = "finished"]
    /\ outcome' = [outcome EXCEPT ![b] = "failed"]
    /\ mode' = [mode EXCEPT ![b] = None]
    /\ gate' = IF gate[t] = b THEN [gate EXCEPT ![t] = None] ELSE gate
    /\ claim' = IF b[2] = Repo THEN [claim EXCEPT ![t] = FALSE] ELSE claim
    /\ lost' = IF mode[b] \in Targets /\ pc[b] \in {"sent", "observed"}
               THEN lost \cup {b} ELSE lost
    /\ \E h \in IF pc[b] = "applying" THEN Moved(t) ELSE {house[t]} :
          house' = [house EXCEPT ![t] = h]
    /\ UNCHANGED <<deleted, enabled, status, run, recovery, limit, held,
                   phase, fatal, running, canceled, stops, repairing,
                   storageBusy, retrying, crashes, commands>>

\* The final commit of execute.  Repo's run was settled under the gate.
FinalCommit(b) ==
    LET hold == IF b[2] # Repo /\ outcome[b] = "interrupted" THEN Recovered(b)
                ELSE recovery[b]
    IN
    /\ pc[b] = "finished"
    /\ recovery' = [recovery EXCEPT ![b] = hold]
    /\ run' = RunCleared(b)
    /\ \E s \in {Resting(b), "failed"} :
          /\ outcome[b] = "ok" /\ (hold = None \/ ~enabled[b]) => s = Resting(b)
          /\ hold # None /\ enabled[b] => s = "failed"
          /\ status' = [status EXCEPT ![b] = s]
    /\ \E h \in Moved(b[1]) :
          /\ (outcome[b] # "ok" \/ mode[b] \notin Tasks) => h = house[b[1]]
          /\ house' = [house EXCEPT ![b[1]] = h]
    /\ pc' = [pc EXCEPT ![b] = "leaving"]
    /\ mode' = [mode EXCEPT ![b] = None] /\ outcome' = [outcome EXCEPT ![b] = "ok"]
    /\ UNCHANGED <<deleted, enabled, limit, held,
                   phase, fatal, running, canceled, stops, repairing, gate,
                   storageBusy, retrying, claim, lost, crashes, commands>>

\* The final commit fails (s.update hands the error to Run).
FinalUnsaved(b) ==
    /\ "final" \in Faults /\ pc[b] = "finished"
    /\ pc' = [pc EXCEPT ![b] = "leaving"]
    /\ fatal' = TRUE
    /\ lost' = IF b[2] # Repo /\ mode[b] \in Targets THEN lost \cup {b} ELSE lost
    /\ mode' = [mode EXCEPT ![b] = None] /\ outcome' = [outcome EXCEPT ![b] = "ok"]
    /\ UNCHANGED <<durable, phase, running, canceled, stops, repairing, gate,
                   storageBusy, retrying, claim, crashes, commands>>

\* releaseWorker.
Leave(b) ==
    /\ pc[b] = "leaving"
    /\ running' = running \ {b} /\ canceled' = canceled \ {b}
    /\ pc' = [pc EXCEPT ![b] = "idle"]
    /\ UNCHANGED <<durable, phase, fatal, stops, repairing, gate,
                   storageBusy, retrying, mode, outcome, claim, lost, crashes, commands>>

-----------------------------------------------------------------------------
(***************************************************************************)
(* The operator: Supervisor.control, Delete, add and retryIssueTask.        *)
(***************************************************************************)

\* start: a scan's hold is authorized away, a task's hold refuses the whole
\* command, also when it was meant for every bot of the town.
Start(t, S) ==
    LET B == {t} \X S IN
    /\ Command
    /\ phase = "up" /\ ~deleted[t]
    /\ \A b \in B : recovery[b] = None \/ (recovery[b] = Taskless /\ run[b] = None)
    /\ enabled'  = [b \in Bots |-> b \in B \/ enabled[b]]
    /\ status'   = [b \in Bots |-> IF b \in B THEN "waiting" ELSE status[b]]
    /\ recovery' = [b \in Bots |-> IF b \in B THEN None ELSE recovery[b]]
    /\ lost' = lost \ {b \in B : recovery[b] # None}
    /\ UNCHANGED <<deleted, run, house, limit, held, volatile, crashes>>
    /\ StoreAccepts

\* pause lets a running bot finish.
Pause(t, S) ==
    LET B == {t} \X S IN
    /\ Command
    /\ phase = "up" /\ ~deleted[t]
    /\ enabled' = [b \in Bots |-> b \notin B /\ enabled[b]]
    /\ status'  = [b \in Bots |-> IF b \notin B THEN status[b]
                                  ELSE IF status[b] = "working" THEN "pausing" ELSE "paused"]
    /\ UNCHANGED <<deleted, run, recovery, house, limit, held,
                   volatile, lost, crashes>>
    /\ StoreAccepts

\* stop commits first and cancels the contexts in a second step.
Stop(t, S) ==
    LET B == {t} \X S IN
    /\ Command
    /\ phase = "up" /\ ~deleted[t]
    /\ enabled' = [b \in Bots |-> b \notin B /\ enabled[b]]
    /\ status'  = [b \in Bots |-> IF b \in B THEN "paused" ELSE status[b]]
    /\ stops' = stops \cup B
    /\ UNCHANGED <<deleted, run, recovery, house, limit, held,
                   phase, fatal, running, canceled, repairing, gate,
                   storageBusy, retrying, pc, mode, outcome, claim, lost, crashes>>
    /\ StoreAccepts

StopCancels ==
    /\ stops # {}
    /\ canceled' = canceled \cup (stops \cap running)
    /\ stops' = {}
    /\ UNCHANGED <<durable, phase, fatal, running, repairing, gate,
                   storageBusy, retrying, pc, mode, outcome, claim, lost, crashes, commands>>

\* resetTaskForRetry: only a hold of the house the task is in now is cleared.
ResetTask(t, k) ==
    LET w == <<t, house[t][k]>>
        cleared == recovery[w] = k /\ run[w] = None
    IN
    /\ recovery' = IF cleared THEN [recovery EXCEPT ![w] = None] ELSE recovery
    /\ status' = IF cleared THEN [status EXCEPT ![w] = Resting(w)] ELSE status
    /\ lost' = IF cleared THEN lost \ {w} ELSE lost

\* retry of a task that is not an issue known to issue-bot.
Retry(t, k) ==
    /\ Command
    /\ phase = "up" /\ ~deleted[t]
    /\ ResetTask(t, k)
    /\ UNCHANGED <<deleted, enabled, run, house, limit, held,
                   volatile, crashes>>
    /\ StoreAccepts

\* The reservation of retryIssueTask refuses a town under cleanup.
IssueBotUnreserved(t) == retrying[t] = "no"
IssueBotFree(t) == retrying[t] = "no" /\ t \notin storageBusy

\* retryIssueTask: reserve the issue bot, stop its run, then reset the task.
RetryIssueBegin(t) ==
    /\ Command
    /\ phase = "up" /\ Issue \in Agents
    /\ IssueBotFree(t)
    /\ retrying' = [retrying EXCEPT ![t] = "inspecting"]
    /\ UNCHANGED <<durable, phase, fatal, running, canceled, stops, repairing, gate,
                   storageBusy, pc, mode, outcome, claim, lost, crashes>>

RetryIssueStop(t) ==
    /\ retrying[t] = "inspecting"
    /\ IF deleted[t]
       THEN retrying' = [retrying EXCEPT ![t] = "no"] /\ UNCHANGED canceled
       ELSE /\ retrying' = [retrying EXCEPT ![t] = "waiting"]
            /\ canceled' = canceled \cup ({<<t, Issue>>} \cap running)
    /\ UNCHANGED <<durable, phase, fatal, running, stops, repairing, gate,
                   storageBusy, pc, mode, outcome, claim, lost, crashes, commands>>

\* Refused: the town is gone, issue-bot refuses, or the wait ran out.
RetryIssueFails(t) ==
    /\ retrying[t] # "no"
    /\ retrying' = [retrying EXCEPT ![t] = "no"]
    /\ UNCHANGED <<durable, phase, fatal, running, canceled, stops, repairing, gate,
                   storageBusy, pc, mode, outcome, claim, lost, crashes, commands>>

RetryIssueCommit(t, k) ==
    /\ retrying[t] = "waiting" /\ <<t, Issue>> \notin running /\ ~deleted[t]
    /\ ResetTask(t, k)
    /\ retrying' = [retrying EXCEPT ![t] = "no"]
    /\ UNCHANGED <<deleted, enabled, run, house, limit, held,
                   phase, fatal, running, canceled, stops, repairing, gate,
                   storageBusy, pc, mode, outcome, claim, crashes, commands>>

\* admit or decline: the operator decides an arrival the Mayor holds.
Decide(t, k, r) ==
    /\ Command
    /\ phase = "up" /\ ~deleted[t]
    /\ house[t][k] = Hall /\ r # Hall
    /\ house' = [house EXCEPT ![t][k] = r]
    /\ UNCHANGED <<deleted, enabled, status, run, recovery, limit, held,
                   volatile, lost, crashes>>

\* Delete keeps every recovery record.
Delete(t) ==
    /\ Command
    /\ phase = "up" /\ ~deleted[t]
    /\ deleted' = [deleted EXCEPT ![t] = TRUE]
    /\ enabled' = [b \in Bots |-> b[1] # t /\ enabled[b]]
    /\ status'  = [b \in Bots |-> IF b[1] = t THEN "paused" ELSE status[b]]
    /\ canceled' = canceled \cup {b \in running : b[1] = t}
    /\ UNCHANGED <<run, recovery, house, limit, held,
                   phase, fatal, running, stops, repairing, gate,
                   storageBusy, retrying, pc, mode, outcome, claim, lost, crashes>>
    /\ StoreAccepts

\* add of a deleted town, refused while its bots are still stopping.
Restore(t) ==
    /\ Command
    /\ phase = "up" /\ deleted[t]
    /\ \A b \in running : b[1] # t
    /\ deleted' = [deleted EXCEPT ![t] = FALSE]
    /\ enabled' = [b \in Bots |-> IF b[1] = t THEN b[2] = Repo ELSE enabled[b]]
    /\ status'  = [b \in Bots |-> IF b[1] = t THEN "paused" ELSE status[b]]
    /\ UNCHANGED <<run, recovery, house, limit, held,
                   volatile, lost, crashes>>
    /\ StoreAccepts

\* beginStorage: both reservations are checked under both locks.
BeginStorage(t) ==
    /\ Command
    /\ phase = "up" /\ t \notin storageBusy
    /\ \A b \in running : b[1] # t
    /\ retrying[t] = "no" /\ Quiescent(t)
    /\ storageBusy' = storageBusy \cup {t}
    /\ UNCHANGED <<durable, phase, fatal, running, canceled, stops, repairing, gate,
                   retrying, pc, mode, outcome, claim, lost, crashes>>

EndStorage(t) ==
    /\ t \in storageBusy
    /\ storageBusy' = storageBusy \ {t}
    /\ UNCHANGED <<durable, phase, fatal, running, canceled, stops, repairing, gate,
                   retrying, pc, mode, outcome, claim, lost, crashes, commands>>

-----------------------------------------------------------------------------
(***************************************************************************)
(* The process: shutdown, crash and Open.                                   *)
(***************************************************************************)

\* Run returns on a persistence failure or on the service's own context.
Shutdown ==
    /\ phase = "up" /\ (fatal \/ crashes < MaxCrashes)
    /\ crashes' = IF fatal THEN crashes ELSE crashes + 1
    /\ phase' = "stopping"
    /\ canceled' = running
    /\ UNCHANGED <<durable, fatal, running, stops, repairing, gate, storageBusy,
                   retrying, pc, mode, outcome, claim, lost, commands>>

\* What a process leaves behind: its locks, reservations and goroutines go.
LoseProcess ==
    /\ phase' = "down" /\ fatal' = FALSE
    /\ running' = {} /\ canceled' = {} /\ stops' = {}
    /\ repairing' = {} /\ storageBusy' = {}
    /\ gate' = [t \in Towns |-> None] /\ retrying' = [t \in Towns |-> "no"]
    /\ pc' = [b \in Bots |-> "idle"] /\ mode' = [b \in Bots |-> None]
    /\ outcome' = [b \in Bots |-> "ok"] /\ claim' = [t \in Towns |-> FALSE]

\* s.wg.Wait: every run has left before the process exits.
Exit ==
    /\ phase = "stopping" /\ running = {}
    /\ LoseProcess
    /\ UNCHANGED <<durable, lost, crashes, commands>>

\* The process dies: an answer that is not committed yet is lost with it.
Crash ==
    /\ phase # "down" /\ crashes < MaxCrashes
    /\ crashes' = crashes + 1
    /\ LoseProcess
    /\ lost' = lost \cup {b \in Bots : Unsettled(b)}
    /\ UNCHANGED <<durable, commands>>

\* Open shows no bot as running, and a held bot as failed.
StatusSaved(b) == status[b]
StatusAtOpen(b) ==
    IF Recovered(b) # None /\ enabled[b] THEN "failed" ELSE Resting(b)

\* Open: a saved dispatch is interrupted, not a process to adopt.
Open ==
    /\ phase = "down"
    /\ phase' = "up"
    /\ recovery' = [b \in Bots |-> Recovered(b)]
    /\ run' = [b \in Bots |-> None]
    /\ status' = [b \in Bots |-> StatusAtOpen(b)]
    /\ UNCHANGED <<deleted, enabled, house, limit, held, fatal,
                   running, canceled, stops, repairing, gate, storageBusy,
                   retrying, pc, mode, outcome, claim, lost, crashes, commands>>

-----------------------------------------------------------------------------
Commands == {{r} : r \in Roles} \cup {Roles}

RunStep(b) ==
    \/ StartCanceled(b) \/ StartHeld(b) \/ StartCommit(b) \/ EndBeforeSending(b)
    \/ ConfirmMerge(b) \/ ClaimRepair(b) \/ EnterGate(b) \/ LeaveGateQueue(b)
    \/ PassFails(b) \/ RecordRun(b) \/ Send(b) \/ CancelBeforeSend(b) \/ Answer(b)
    \/ LoseAnswer(b) \/ CommitObservation(b) \/ ObservationUnsaved(b)
    \/ ApplyInventory(b) \/ ImportIssueEvidence(b) \/ EndPass(b) \/ RunPanics(b)
    \/ FinalCommit(b) \/ FinalUnsaved(b) \/ Leave(b)

Operator ==
    \/ \E t \in Towns : \E k \in Tasks : Retry(t, k) \/ RetryIssueCommit(t, k)
    \/ \E t \in Towns : \E S \in Commands : Start(t, S) \/ Pause(t, S) \/ Stop(t, S)
    \/ \E t \in Towns : \E k \in Tasks : \E r \in Agents : Decide(t, k, r)
    \/ \E t \in Towns : \/ RetryIssueBegin(t) \/ RetryIssueStop(t) \/ RetryIssueFails(t)
                        \/ Delete(t) \/ Restore(t) \/ BeginStorage(t) \/ EndStorage(t)
    \/ \E n \in 1..MaxLimit : SetCapacity(n)
    \/ StopCancels

Next ==
    \/ \E b \in Bots : Reserve(b) \/ RunStep(b)
    \/ Operator
    \/ \E t \in Towns : Hold(t)
    \/ Shutdown \/ Exit \/ Crash \/ Open

Spec == Init /\ [][Next]_vars

(***************************************************************************)
(* Fairness.  A run's goroutine keeps going: a bot call ends at the run's   *)
(* deadline at the latest, and every wait inside a run answers cancellation *)
(* or ends with another run's step; importing issue-bot's records, which    *)
(* leaves the pass where it is, is no progress.  The process is restarted   *)
(* after it exits.  Nothing is assumed of the operator, the scheduler or    *)
(* the clock.                                                               *)
(***************************************************************************)
Fairness ==
    /\ \A b \in Bots : WF_vars(RunStep(b) /\ pc'[b] # pc[b])
    /\ WF_vars(StopCancels)
    /\ WF_vars(fatal /\ Shutdown) /\ WF_vars(Exit) /\ WF_vars(Open)

FairSpec == Spec /\ Fairness

-----------------------------------------------------------------------------
(***************************************************************************)
(* Properties.                                                              *)
(***************************************************************************)

\* A run that takes an agent slot finds one free: the pool is never enlarged
\* past the limit in force, although the limit may be lowered under it and a
\* branch repair turns a slotless inventory into agent work halfway
\* (activeWorkers, claimRepair, SetCapacity).
SlotsRespectLimit ==
    [][Active' \subseteq Active \/ Cardinality(Active') <= limit']_vars

\* Work that may have landed on GitHub without Town knowing is never
\* forgotten: its run or its recovery hold stays in state.json across stops,
\* failed saves, crashes and restarts, until it is authorized away; only a panic
\* while the record is open loses it, which the run and the theorem leave out
\* (recoverWorkerRun, the final commit, Open).
LostWorkHeld ==
    \A b \in lost : run[b] \in Targets \/ recovery[b] # None

\* The attempts of every bot obey the contract of Attempts: no work that may
\* write is sent to a bot whose last such work has an unknown outcome, until
\* the operator or issue-bot's own record authorizes it (docs/recovery.md).
InFlight(b) == mode[b] \in Targets /\ pc[b] = "sent"
AttemptOf(b) ==
    IF b \in lost THEN IF InFlight(b) THEN "resent" ELSE "unknown"
    ELSE IF Unsettled(b) THEN "open" ELSE "none"
Attempt == [b \in Bots |-> AttemptOf(b)]
Contract == INSTANCE Attempts WITH attempt <- Attempt
NoBlindResend == Contract!Spec

\* While a town's artifacts are being removed none of its bots runs, none is
\* about to, and no retry holds its issue bot (beginStorage, storageBusy).
CleanupAlone ==
    \A t \in storageBusy :
        /\ \A b \in running : b[1] # t
        /\ retrying[t] = "no" /\ Quiescent(t)

\* The repo worker's one Run slot is shared by its own passes and by merge
\* confirmations: whoever recorded it still holds the gate, so no pass can
\* replace the identity of a repair whose outcome is still owed; only the save
\* under the gate that failed leaves a record without one, until the restart it
\* forces, and a panic between the record and that save, which the run and the
\* theorem leave out (reconcileGate, reconcile).
RepoRunHasHolder ==
    phase # "down" /\ ~fatal =>
        \A t \in Towns :
            run[<<t, Repo>>] # None =>
                /\ gate[t] # None
                /\ pc[gate[t]] \in {"recorded", "sent", "observed"}

\* A bot the operator sees working or finishing is really running: no crash,
\* restart, stop or restoration leaves the status behind; only a save that
\* failed may, until the restart it forces (execute, control, Open).
BusyStatusIsTrue ==
    phase # "down" /\ ~fatal =>
        \A b \in Bots : status[b] \in {"working", "pausing"} => b \in running

\* A canceled run ends: stop, delete, an issue's retry and shutdown are not left
\* waiting.
CanceledRunEnds == \A b \in Bots : (b \in canceled) ~> (b \notin running)

\* An open dispatch record is settled, as a result or as a hold, however the run
\* that made it ends; only a panic in the middle of the repo worker's may leave
\* its record to the next restart, and the run leaves it out.
RunSettles == \A b \in Bots : (run[b] # None) ~> (run[b] = None)

\* docs/recovery.md, "Resolving a hold": retrying the task resolves a hold
\* that names it.
RetryResolvesHold ==
    [][\A t \in Towns : \A k \in Tasks :
          Retry(t, k) => \A r \in Roles :
              run[<<t, r>>] = None => recovery'[<<t, r>>] # k]_vars

-----------------------------------------------------------------------------
(***************************************************************************)
(* The inductive strengthening of LostWorkHeld.  It follows one run: where  *)
(* the goroutine is determines what state.json says about its work, and     *)
(* whether an unknown outcome can be open at all.                           *)
(***************************************************************************)

\* Before an agent's dispatch is recorded nothing is open for that bot.
Unrecorded(b) ==
    \/ pc[b] \in {"reserved", "started"}
    \/ mode[b] = Inventory /\ pc[b] \in {"gate", "picked", "recorded", "sent"}
    \/ pc[b] \in {"observed", "applying", "passed"}

\* The pass b holds the gate.
HoldsGate(b) ==
    \/ pc[b] \in {"picked", "observed", "applying"}
    \/ pc[b] \in {"recorded", "sent"} /\ InPass(b)

\* A goroutine exists exactly for the bots of s.running.
RunningPlaces == \A b \in Bots : pc[b] # "idle" <=> b \in running

\* The places and modes of the two kinds of run.
ModeAt(b) ==
    /\ pc[b] \in {"idle", "reserved", "leaving"} => mode[b] = None
    /\ pc[b] \in {"recorded", "sent"} => mode[b] # None
    /\ b[2] = Repo =>
           /\ mode[b] \in {None, Inventory, Taskless}
           /\ pc[b] = "started" => mode[b] = Inventory
           /\ pc[b] \in {"gate", "picked"} => mode[b] # None
           /\ pc[b] = "finished" => mode[b] = None
    /\ b[2] # Repo =>
           /\ pc[b] = "started" => mode[b] \in Targets
           /\ pc[b] \in {"gate", "picked"} => mode[b] = Inventory
           /\ pc[b] \in {"observed", "applying", "passed"} => mode[b] \in {None, Inventory}
           /\ pc[b] = "finished" => mode[b] # Inventory
ModePlaces == \A b \in Bots : ModeAt(b)

\* The gate has one holder, of its own town.
GateHolder ==
    /\ \A b \in Bots : HoldsGate(b) => gate[b[1]] = b
    /\ \A t \in Towns : gate[t] # None => gate[t][1] = t /\ HoldsGate(gate[t])

\* What is recorded for an agent's run, and that no hold is open beside it.
AgentRecordAt(b) ==
    /\ run[b] # Inventory
    /\ Unrecorded(b) => run[b] = None /\ recovery[b] = None
    /\ pc[b] \in {"recorded", "sent", "finished"} /\ mode[b] \in Targets =>
           run[b] = mode[b] /\ recovery[b] = None
    /\ pc[b] \in {"recorded", "sent"} => b \notin lost
    /\ pc[b] = "finished" /\ b \in lost => outcome[b] = "interrupted"
AgentRecord == \A b \in Bots : b[2] # Repo => AgentRecordAt(b)

\* What is recorded, in the repo worker w, for the repository pass of b.
PassRecordAt(b, w) ==
    /\ pc[b] \in {"recorded", "sent"} /\ InPass(b) => run[w] = mode[b]
    /\ pc[b] = "observed" /\ mode[b] # None => run[w] = mode[b]
    /\ pc[b] \in {"picked", "recorded", "sent", "observed"} /\ mode[b] = Taskless
           /\ b[2] = Repo => recovery[w] = None
    /\ pc[b] = "observed" /\ mode[b] = None => outcome[b] = "interrupted"
    /\ pc[b] \in {"recorded", "sent"} /\ mode[b] = Taskless /\ b[2] = Repo => w \notin lost
    /\ pc[b] = "observed" /\ outcome[b] # "interrupted" /\ w \in lost => recovery[w] # None
PassRecord ==
    /\ \A t \in Towns : run[<<t, Repo>>] \in {None, Inventory, Taskless}
    /\ \A b \in Bots : PassRecordAt(b, <<b[1], Repo>>)

\* Nothing runs in a process that is down.
DownIsQuiet ==
    phase = "down" => running = {} /\ (\A t \in Towns : gate[t] = None)

\* What is recorded of a pass has the pass that holds the gate.
RepoRunHeld ==
    \A t \in Towns :
        phase # "down" /\ run[<<t, Repo>>] # None =>
            /\ gate[t] # None
            /\ pc[gate[t]] \in {"recorded", "sent", "observed"}

DispatchInv ==
    /\ TypeOK /\ RunningPlaces /\ ModePlaces /\ GateHolder /\ AgentRecord
    /\ PassRecord /\ DownIsQuiet /\ RepoRunHeld /\ LostWorkHeld
=============================================================================
