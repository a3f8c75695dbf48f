--------------------------- MODULE DispatchProofs ---------------------------
(***************************************************************************)
(* Theorems about Dispatch, for every set of towns, roles and tasks, every  *)
(* worker limit and any number of crashes and commands.                     *)
(***************************************************************************)
EXTENDS Dispatch, FiniteSetTheorems, TLAPS

\* A bot is a pair: what the steps below need of that.
LEMMA BotFacts ==
    /\ \A b \in Bots : b[1] \in Towns /\ b[2] \in Roles /\ <<b[1], Repo>> \in Bots
    /\ \A b \in Bots : b[2] = Repo => b = <<b[1], Repo>>
    /\ \A t \in Towns, r \in Roles : <<t, r>> \in Bots
    /\ Repo \in Roles /\ Agents \subseteq Roles
    /\ Taskless \in Targets /\ Tasks \subseteq Targets
    /\ None \notin Targets /\ Inventory \notin Targets /\ None # Inventory /\ None \notin Bots
BY ConstantsAssumption DEF Bots, Roles, Targets

LEMMA OwnerIsBot == \A b \in Bots : RunOwner(b) \in Bots
BY BotFacts DEF RunOwner

\* What recoverWorkerRun leaves in a worker's hold.
LEMMA RecoveredType ==
    ASSUME TypeOK, NEW b \in Bots
    PROVE  Recovered(b) \in Targets \cup {None}
BY DEF TypeOK, Recovered

LEMMA MovedType ==
    ASSUME TypeOK, NEW t \in Towns, NEW h \in Moved(t)
    PROVE  h \in [Tasks -> Agents]
BY DEF TypeOK, Moved

-----------------------------------------------------------------------------
\* Every step of a run keeps the types.
\* A panic finds no open dispatch record: it comes before the record or after
\* its settlement.
PanicsUnrecorded == Panics \subseteq {"picked", "applying"}

LEMMA PanicDoes ==
    ASSUME TypeOK, NEW b \in Bots, RunPanics(b)
    PROVE  /\ pc[b] \in {"picked", "recorded", "sent", "observed", "applying"}
           /\ PanicsUnrecorded => pc[b] \in {"picked", "applying"} /\ lost' = lost
           /\ pc' = [pc EXCEPT ![b] = "finished"]
           /\ outcome' = [outcome EXCEPT ![b] = "failed"]
           /\ mode' = [mode EXCEPT ![b] = None]
           /\ IF gate[b[1]] = b THEN gate' = [gate EXCEPT ![b[1]] = None] ELSE gate' = gate
           /\ lost \subseteq lost' /\ lost' \subseteq lost \cup {b}
           /\ \E h \in Moved(b[1]) : house' = [house EXCEPT ![b[1]] = h]
           /\ claim' \in [Towns -> BOOLEAN]
           /\ UNCHANGED <<deleted, enabled, status, run, recovery, limit, held,
                          phase, fatal, running, canceled, stops, repairing,
                          storageBusy, retrying, crashes, commands>>
<1>1. b[1] \in Towns /\ house[b[1]] \in Moved(b[1])
  <2>1. b[1] \in Towns
    BY BotFacts
  <2>. QED  BY <2>1 DEF Moved
<1>2. claim' \in [Towns -> BOOLEAN]
  BY <1>1 DEF RunPanics, TypeOK
<1>3. \E h \in Moved(b[1]) : house' = [house EXCEPT ![b[1]] = h]
  BY <1>1 DEF RunPanics
<1>. QED  BY <1>2, <1>3, ConstantsAssumption DEF RunPanics, PanicsUnrecorded

LEMMA RunStepType ==
    ASSUME TypeOK, NEW b \in Bots, RunStep(b)
    PROVE  TypeOK'
<1> USE BotFacts
<1>1. CASE StartCanceled(b)
  BY <1>1 DEF TypeOK, StartCanceled, durable, Places
<1>2. CASE StartHeld(b)
  BY <1>2 DEF TypeOK, StartHeld, Places, Statuses
<1>3. CASE StartCommit(b)
  BY <1>3 DEF TypeOK, StartCommit, Places, Statuses
<1>4. CASE EndBeforeSending(b)
  BY <1>4 DEF TypeOK, EndBeforeSending, durable, Places
<1>5. CASE ConfirmMerge(b)
  BY <1>5 DEF TypeOK, ConfirmMerge, durable, Places
<1>6. CASE ClaimRepair(b)
  BY <1>6 DEF TypeOK, ClaimRepair, durable, Places
<1>7. CASE EnterGate(b)
  <2>1. /\ pc' \in [Bots -> Places] /\ mode' \in [Bots -> Targets \cup {None, Inventory}]
        /\ gate' \in [Towns -> Bots \cup {None}]
    <3>1. CASE deleted[b[1]]
      BY <1>7, <3>1 DEF TypeOK, EnterGate, Places
    <3>2. CASE ~deleted[b[1]]
      <4>1. pc' = [pc EXCEPT ![b] = "picked"] /\ gate' = [gate EXCEPT ![b[1]] = b]
        BY <1>7, <3>2 DEF EnterGate
      <4>4. pc' \in [Bots -> Places] /\ gate' \in [Towns -> Bots \cup {None}]
        BY <4>1 DEF TypeOK, Places
      <4>2. mode' \in [Bots -> Targets \cup {None, Inventory}]
        BY <1>7, <3>2 DEF TypeOK, EnterGate
      <4>3. QED  BY <4>4, <4>2
    <3>3. QED  BY <3>1, <3>2
  <2>2. QED  BY <1>7, <2>1 DEF TypeOK, EnterGate, durable
<1>8. CASE LeaveGateQueue(b)
  BY <1>8 DEF TypeOK, LeaveGateQueue, durable, Places
<1>9. CASE PassFails(b)
  BY <1>9 DEF TypeOK, PassFails, durable, Places
<1>10. CASE RecordRun(b)
  BY <1>10, OwnerIsBot DEF TypeOK, RecordRun, Places
<1>11. CASE Send(b)
  BY <1>11 DEF TypeOK, Send, durable, Places
<1>12. CASE CancelBeforeSend(b)
  BY <1>12 DEF TypeOK, CancelBeforeSend, AfterAnswer, durable, Places
<1>13. CASE Answer(b)
  BY <1>13 DEF TypeOK, Answer, AfterAnswer, durable, Places
<1>14. CASE LoseAnswer(b)
  BY <1>14 DEF TypeOK, LoseAnswer, AfterAnswer, durable, Places
<1>15. CASE CommitObservation(b)
  BY <1>15, RecoveredType DEF TypeOK, CommitObservation, Places
<1>16. CASE ObservationUnsaved(b)
  BY <1>16 DEF TypeOK, ObservationUnsaved, durable, Places
<1>17. CASE ApplyInventory(b)
  <2>1. PICK h \in Moved(b[1]) : house' = [house EXCEPT ![b[1]] = h]
    BY <1>17 DEF ApplyInventory
  <2>2. house' \in [Towns -> [Tasks -> Agents]]
    BY <2>1, MovedType DEF TypeOK
  <2>3. QED  BY <1>17, <2>2 DEF TypeOK, ApplyInventory, Places
<1>18. CASE ImportIssueEvidence(b)
  BY <1>18 DEF TypeOK, ImportIssueEvidence, Resting, Statuses, volatile
<1>19. CASE EndPass(b)
  BY <1>19 DEF TypeOK, EndPass, durable, Places
<1>20. CASE RunPanics(b)
  <2>1. PICK h \in Moved(b[1]) : house' = [house EXCEPT ![b[1]] = h]
    BY <1>20, PanicDoes
  <2>2. house' \in [Towns -> [Tasks -> Agents]]
    BY <2>1, MovedType, BotFacts DEF TypeOK
  <2>3. lost' \subseteq Bots
    BY <1>20, PanicDoes DEF TypeOK
  <2>4. gate' \in [Towns -> Bots \cup {None}]
    <3>1. gate' = gate \/ gate' = [gate EXCEPT ![b[1]] = None]
      BY <1>20, PanicDoes
    <3>. QED  BY <3>1 DEF TypeOK
  <2>5. pc' \in [Bots -> Places] /\ mode' \in [Bots -> Targets \cup {None, Inventory}]
        /\ outcome' \in [Bots -> {"ok", "failed", "interrupted"}]
    <3>1. /\ pc' = [pc EXCEPT ![b] = "finished"] /\ outcome' = [outcome EXCEPT ![b] = "failed"]
          /\ mode' = [mode EXCEPT ![b] = None]
      BY <1>20, PanicDoes
    <3>. QED  BY <3>1 DEF TypeOK, Places
  <2>6. /\ claim' \in [Towns -> BOOLEAN]
        /\ UNCHANGED <<deleted, enabled, status, run, recovery, limit, held,
                       phase, fatal, running, canceled, stops, repairing,
                       storageBusy, retrying, crashes, commands>>
    BY <1>20, PanicDoes
  <2>. QED  BY <2>2, <2>3, <2>4, <2>5, <2>6 DEF TypeOK
<1>21. CASE FinalCommit(b)
  <2>1. PICK h \in Moved(b[1]) : house' = [house EXCEPT ![b[1]] = h]
    BY <1>21 DEF FinalCommit
  <2>2. house' \in [Towns -> [Tasks -> Agents]]
    BY <2>1, MovedType DEF TypeOK
  <2>3. recovery' \in [Bots -> Targets \cup {None}]
    BY <1>21, RecoveredType DEF TypeOK, FinalCommit
  <2>4. status' \in [Bots -> Statuses] /\ run' \in [Bots -> Targets \cup {None, Inventory}]
    BY <1>21 DEF TypeOK, FinalCommit, RunCleared, Resting, Statuses
  <2>5. QED  BY <1>21, <2>2, <2>3, <2>4 DEF TypeOK, FinalCommit, Places
<1>22. CASE FinalUnsaved(b)
  BY <1>22 DEF TypeOK, FinalUnsaved, durable, Places
<1>23. CASE Leave(b)
  BY <1>23 DEF TypeOK, Leave, durable, Places
<1>24. QED
  BY <1>1, <1>2, <1>3, <1>4, <1>5, <1>6, <1>7, <1>8, <1>9, <1>10, <1>11, <1>12,
     <1>13, <1>14, <1>15, <1>16, <1>17, <1>18, <1>19, <1>20, <1>21, <1>22, <1>23
     DEF RunStep

\* Every command of the operator keeps the types.
LEMMA OperatorType ==
    ASSUME TypeOK, Operator
    PROVE  TypeOK'
<1> USE BotFacts
<1>1. CASE \E t \in Towns : \E k \in Tasks : Retry(t, k)
  BY <1>1, ConstantsAssumption
     DEF TypeOK, Retry, ResetTask, Resting, Statuses, Command, volatile
<1>2. CASE \E t \in Towns : \E k \in Tasks : RetryIssueCommit(t, k)
  BY <1>2 DEF TypeOK, RetryIssueCommit, ResetTask, Resting, Statuses
<1>3. CASE \E t \in Towns : \E S \in Commands : Start(t, S)
  BY <1>3, ConstantsAssumption DEF TypeOK, Start, Statuses, Command, volatile
<1>4. CASE \E t \in Towns : \E S \in Commands : Pause(t, S)
  BY <1>4, ConstantsAssumption DEF TypeOK, Pause, Statuses, Command, volatile
<1>5. CASE \E t \in Towns : \E S \in Commands : Stop(t, S)
  <2>1. PICK t \in Towns, S \in Commands : Stop(t, S)
    BY <1>5
  <2>2. {t} \X S \subseteq Bots
    BY <2>1 DEF Commands, Bots
  <2>3. QED  BY <2>1, <2>2, ConstantsAssumption DEF TypeOK, Stop, Statuses, Command
<1>6. CASE \E t \in Towns : \E k \in Tasks : \E r \in Agents : Decide(t, k, r)
  <2>1. PICK t \in Towns, k \in Tasks, r \in Agents : Decide(t, k, r)
    BY <1>6
  <2>2. house' \in [Towns -> [Tasks -> Agents]]
    BY <2>1 DEF TypeOK, Decide
  <2>3. QED  BY <2>1, <2>2, ConstantsAssumption DEF TypeOK, Decide, Command, volatile
<1>7. CASE \E t \in Towns : RetryIssueBegin(t)
  BY <1>7, ConstantsAssumption DEF TypeOK, RetryIssueBegin, Command, durable
<1>8. CASE \E t \in Towns : RetryIssueStop(t)
  <2>1. PICK t \in Towns : RetryIssueStop(t)
    BY <1>8
  <2>2. canceled' \subseteq Bots /\ retrying' \in [Towns -> {"no", "inspecting", "waiting"}]
    BY <2>1 DEF TypeOK, RetryIssueStop
  <2>3. QED  BY <2>1, <2>2 DEF TypeOK, RetryIssueStop, durable
<1>9. CASE \E t \in Towns : RetryIssueFails(t)
  BY <1>9 DEF TypeOK, RetryIssueFails, durable
<1>10. CASE \E t \in Towns : Delete(t)
  BY <1>10, ConstantsAssumption DEF TypeOK, Delete, Statuses, Command
<1>11. CASE \E t \in Towns : Restore(t)
  <2>1. PICK t \in Towns : Restore(t)
    BY <1>11
  <2>2. enabled' \in [Bots -> BOOLEAN]
    <3>1. \A b \in Bots : (IF b[1] = t THEN b[2] = Repo ELSE enabled[b]) \in BOOLEAN
      BY DEF TypeOK
    <3>2. QED  BY <2>1, <3>1 DEF Restore
  <2>3. status' \in [Bots -> Statuses] /\ deleted' \in [Towns -> BOOLEAN]
    BY <2>1 DEF TypeOK, Restore, Statuses
  <2>4. QED  BY <2>1, <2>2, <2>3, ConstantsAssumption
     DEF TypeOK, Restore, Command, volatile
<1>12. CASE \E t \in Towns : BeginStorage(t)
  BY <1>12, ConstantsAssumption DEF TypeOK, BeginStorage, Command, durable
<1>13. CASE \E t \in Towns : EndStorage(t)
  BY <1>13 DEF TypeOK, EndStorage, durable
<1>14. CASE \E n \in 1..MaxLimit : SetCapacity(n)
  BY <1>14, ConstantsAssumption DEF TypeOK, SetCapacity, Command, volatile
<1>15. CASE StopCancels
  BY <1>15 DEF TypeOK, StopCancels, durable
<1>16. QED
  BY <1>1, <1>2, <1>3, <1>4, <1>5, <1>6, <1>7, <1>8, <1>9, <1>10, <1>11, <1>12,
     <1>13, <1>14, <1>15 DEF Operator

\* The process going down leaves nothing running.
LEMMA LoseProcessType ==
    ASSUME LoseProcess
    PROVE  /\ phase' = "down" /\ fatal' \in BOOLEAN
           /\ running' \subseteq Bots /\ canceled' \subseteq Bots /\ stops' \subseteq Bots
           /\ repairing' \subseteq Towns /\ storageBusy' \subseteq Towns
           /\ gate' \in [Towns -> Bots \cup {None}]
           /\ retrying' \in [Towns -> {"no", "inspecting", "waiting"}]
           /\ pc' \in [Bots -> Places]
           /\ mode' \in [Bots -> Targets \cup {None, Inventory}]
           /\ outcome' \in [Bots -> {"ok", "failed", "interrupted"}]
           /\ claim' \in [Towns -> BOOLEAN]
BY DEF LoseProcess, Places

LEMMA InitType == Init => TypeOK
<1> SUFFICES ASSUME Init PROVE TypeOK
  OBVIOUS
<1>1. status \in [Bots -> Statuses] /\ pc \in [Bots -> Places]
  BY DEF Init, Statuses, Places
<1>2. crashes \in 0..MaxCrashes /\ commands \in 0..MaxCommands
  BY ConstantsAssumption DEF Init
<1>3. QED  BY <1>1, <1>2, BotFacts DEF Init, TypeOK

LEMMA TypeStep ==
    ASSUME TypeOK, [Next]_vars
    PROVE  TypeOK'
<1> USE BotFacts
<1>1. CASE \E b \in Bots : Reserve(b)
  BY <1>1 DEF TypeOK, Reserve, durable, Places
<1>2. CASE \E b \in Bots : RunStep(b)
  BY <1>2, RunStepType
<1>3. CASE Operator
  BY <1>3, OperatorType
<1>4. CASE \E t \in Towns : Hold(t)
  BY <1>4, ConstantsAssumption DEF TypeOK, Hold, Command, volatile
<1>5. CASE Shutdown
  BY <1>5, ConstantsAssumption DEF TypeOK, Shutdown, durable
<1>6. CASE Exit
  BY <1>6, LoseProcessType DEF TypeOK, Exit, durable
<1>7. CASE Crash
  BY <1>7, LoseProcessType, ConstantsAssumption DEF TypeOK, Crash, durable
<1>8. CASE Open
  BY <1>8, RecoveredType DEF TypeOK, Open, StatusAtOpen, Resting, Statuses
<1>9. CASE UNCHANGED vars
  BY <1>9 DEF TypeOK, vars, durable, volatile
<1>10. QED
  BY <1>1, <1>2, <1>3, <1>4, <1>5, <1>6, <1>7, <1>8, <1>9 DEF Next

\* Type correctness: every reachable state of the dispatch is well typed.
THEOREM TypeCorrect == Spec => []TypeOK
BY InitType, TypeStep, PTL DEF Spec

-----------------------------------------------------------------------------
(***************************************************************************)
(* The frame of a step: what a run touches besides itself.                  *)
(***************************************************************************)

\* The operator's commands do not move any run, pass or gate.
LEMMA OperatorFrame ==
    ASSUME Operator
    PROVE  UNCHANGED <<phase, running, gate, pc, mode, outcome>>
BY DEF Operator, Retry, RetryIssueCommit, Start, Pause, Stop, Decide, RetryIssueBegin,
       RetryIssueStop, RetryIssueFails, Delete, Restore, BeginStorage, EndStorage,
       SetCapacity, StopCancels, volatile

\* A run moves only itself, and leaves s.running by releaseWorker alone.
LEMMA RunStepLocal ==
    ASSUME TypeOK, NEW b \in Bots, RunStep(b)
    PROVE  /\ pc[b] # "idle" /\ phase' = phase
           /\ \A c \in Bots : c # b =>
                  pc'[c] = pc[c] /\ mode'[c] = mode[c] /\ outcome'[c] = outcome[c]
           /\ Leave(b) \/ (pc'[b] # "idle" /\ running' = running)
<1>1. CASE StartCanceled(b)
  BY <1>1, BotFacts DEF TypeOK, StartCanceled, durable
<1>2. CASE StartHeld(b)
  BY <1>2, BotFacts DEF TypeOK, StartHeld
<1>3. CASE StartCommit(b)
  BY <1>3, BotFacts DEF TypeOK, StartCommit
<1>4. CASE EndBeforeSending(b)
  BY <1>4, BotFacts DEF TypeOK, EndBeforeSending, durable
<1>5. CASE ConfirmMerge(b)
  BY <1>5, BotFacts DEF TypeOK, ConfirmMerge, durable
<1>6. CASE ClaimRepair(b)
  BY <1>6, BotFacts DEF TypeOK, ClaimRepair, durable
<1>7. CASE EnterGate(b)
  BY <1>7, BotFacts DEF TypeOK, EnterGate, durable
<1>8. CASE LeaveGateQueue(b)
  BY <1>8, BotFacts DEF TypeOK, LeaveGateQueue, durable
<1>9. CASE PassFails(b)
  BY <1>9, BotFacts DEF TypeOK, PassFails, durable
<1>10. CASE RecordRun(b)
  BY <1>10, BotFacts DEF TypeOK, RecordRun, RunOwner
<1>11. CASE Send(b)
  BY <1>11, BotFacts DEF TypeOK, Send, durable
<1>12. CASE CancelBeforeSend(b)
  BY <1>12, BotFacts DEF TypeOK, CancelBeforeSend, durable, AfterAnswer
<1>13. CASE Answer(b)
  BY <1>13, BotFacts DEF TypeOK, Answer, durable, AfterAnswer
<1>14. CASE LoseAnswer(b)
  BY <1>14, BotFacts DEF TypeOK, LoseAnswer, durable, AfterAnswer
<1>15. CASE CommitObservation(b)
  BY <1>15, BotFacts DEF TypeOK, CommitObservation
<1>16. CASE ObservationUnsaved(b)
  BY <1>16, BotFacts DEF TypeOK, ObservationUnsaved, durable
<1>17. CASE ApplyInventory(b)
  BY <1>17, BotFacts DEF TypeOK, ApplyInventory
<1>18. CASE ImportIssueEvidence(b)
  BY <1>18, BotFacts DEF TypeOK, ImportIssueEvidence, volatile
<1>19. CASE EndPass(b)
  BY <1>19, BotFacts DEF TypeOK, EndPass, durable
<1>20. CASE RunPanics(b)
  <2>1. pc' = [pc EXCEPT ![b] = "finished"] /\ mode' = [mode EXCEPT ![b] = None]
        /\ outcome' = [outcome EXCEPT ![b] = "failed"] /\ pc[b] # "idle"
        /\ UNCHANGED <<phase, running>>
    BY <1>20, PanicDoes
  <2>. QED  BY <2>1 DEF TypeOK
<1>21. CASE FinalCommit(b)
  BY <1>21, BotFacts DEF TypeOK, FinalCommit, RunCleared
<1>22. CASE FinalUnsaved(b)
  BY <1>22, BotFacts DEF TypeOK, FinalUnsaved, durable
<1>23. CASE Leave(b)
  BY <1>23, BotFacts DEF TypeOK, Leave, durable
<1>24. QED
  BY <1>1, <1>2, <1>3, <1>4, <1>5, <1>6, <1>7, <1>8, <1>9, <1>10, <1>11, <1>12,
  <1>13, <1>14, <1>15, <1>16, <1>17, <1>18, <1>19, <1>20, <1>21, <1>22, <1>23
  DEF RunStep

\* Of another bot's records a run can only drop a hold that evidence resolved.
LEMMA RunStepOthers ==
    ASSUME TypeOK, NEW b \in Bots, RunStep(b)
    PROVE  /\ \A c \in Bots : c # b /\ c # <<b[1], Repo>> =>
                  /\ run'[c] = run[c]
                  /\ recovery'[c] = recovery[c] \/ (recovery'[c] = None /\ c \notin lost')
           /\ lost' \subseteq lost \cup {b}
<1>1. CASE StartCanceled(b)
  BY <1>1, BotFacts, OwnerIsBot DEF TypeOK, StartCanceled, durable
<1>2. CASE StartHeld(b)
  BY <1>2, BotFacts, OwnerIsBot DEF TypeOK, StartHeld
<1>3. CASE StartCommit(b)
  BY <1>3, BotFacts, OwnerIsBot DEF TypeOK, StartCommit
<1>4. CASE EndBeforeSending(b)
  BY <1>4, BotFacts, OwnerIsBot DEF TypeOK, EndBeforeSending, durable
<1>5. CASE ConfirmMerge(b)
  BY <1>5, BotFacts, OwnerIsBot DEF TypeOK, ConfirmMerge, durable
<1>6. CASE ClaimRepair(b)
  BY <1>6, BotFacts, OwnerIsBot DEF TypeOK, ClaimRepair, durable
<1>7. CASE EnterGate(b)
  BY <1>7, BotFacts, OwnerIsBot DEF TypeOK, EnterGate, durable
<1>8. CASE LeaveGateQueue(b)
  BY <1>8, BotFacts, OwnerIsBot DEF TypeOK, LeaveGateQueue, durable
<1>9. CASE PassFails(b)
  BY <1>9, BotFacts, OwnerIsBot DEF TypeOK, PassFails, durable
<1>10. CASE RecordRun(b)
  BY <1>10, BotFacts, OwnerIsBot DEF TypeOK, RecordRun, RunOwner
<1>11. CASE Send(b)
  BY <1>11, BotFacts, OwnerIsBot DEF TypeOK, Send, durable
<1>12. CASE CancelBeforeSend(b)
  BY <1>12, BotFacts, OwnerIsBot DEF TypeOK, CancelBeforeSend, durable
<1>13. CASE Answer(b)
  BY <1>13, BotFacts, OwnerIsBot DEF TypeOK, Answer, durable
<1>14. CASE LoseAnswer(b)
  BY <1>14, BotFacts, OwnerIsBot DEF TypeOK, LoseAnswer, durable
<1>15. CASE CommitObservation(b)
  BY <1>15, BotFacts, OwnerIsBot DEF TypeOK, CommitObservation
<1>16. CASE ObservationUnsaved(b)
  BY <1>16, BotFacts, OwnerIsBot DEF TypeOK, ObservationUnsaved, durable
<1>17. CASE ApplyInventory(b)
  BY <1>17, BotFacts, OwnerIsBot DEF TypeOK, ApplyInventory
<1>18. CASE ImportIssueEvidence(b)
  BY <1>18, BotFacts, OwnerIsBot DEF TypeOK, ImportIssueEvidence, volatile
<1>19. CASE EndPass(b)
  BY <1>19, BotFacts, OwnerIsBot DEF TypeOK, EndPass, durable
<1>20. CASE RunPanics(b)
  BY <1>20, PanicDoes, BotFacts, OwnerIsBot DEF TypeOK, durable
<1>21. CASE FinalCommit(b)
  BY <1>21, BotFacts, OwnerIsBot DEF TypeOK, FinalCommit, RunCleared
<1>22. CASE FinalUnsaved(b)
  BY <1>22, BotFacts, OwnerIsBot DEF TypeOK, FinalUnsaved, durable
<1>23. CASE Leave(b)
  BY <1>23, BotFacts, OwnerIsBot DEF TypeOK, Leave, durable
<1>24. QED
  BY <1>1, <1>2, <1>3, <1>4, <1>5, <1>6, <1>7, <1>8, <1>9, <1>10, <1>11, <1>12,
  <1>13, <1>14, <1>15, <1>16, <1>17, <1>18, <1>19, <1>20, <1>21, <1>22, <1>23
  DEF RunStep

\* Only the pass that holds the gate touches the repo worker's records.
LEMMA RunStepPass ==
    ASSUME TypeOK, ModePlaces, NEW b \in Bots, RunStep(b), ~HoldsGate(b)
    PROVE  LET w == <<b[1], Repo>> IN
           /\ run'[w] = run[w] /\ recovery'[w] = recovery[w]
           /\ w \in lost' => w \in lost
<1>1. CASE StartCanceled(b)
  BY <1>1, BotFacts, ConstantsAssumption
     DEF TypeOK, HoldsGate, InPass, StartCanceled, durable
<1>2. CASE StartHeld(b)
  BY <1>2, BotFacts, ConstantsAssumption DEF TypeOK, HoldsGate, InPass, StartHeld
<1>3. CASE StartCommit(b)
  BY <1>3, BotFacts, ConstantsAssumption DEF TypeOK, HoldsGate, InPass, StartCommit
<1>4. CASE EndBeforeSending(b)
  BY <1>4, BotFacts, ConstantsAssumption
     DEF TypeOK, HoldsGate, InPass, EndBeforeSending, durable
<1>5. CASE ConfirmMerge(b)
  BY <1>5, BotFacts, ConstantsAssumption
     DEF TypeOK, HoldsGate, InPass, ConfirmMerge, durable
<1>6. CASE ClaimRepair(b)
  BY <1>6, BotFacts, ConstantsAssumption
     DEF TypeOK, HoldsGate, InPass, ClaimRepair, durable
<1>7. CASE EnterGate(b)
  BY <1>7, BotFacts, ConstantsAssumption
     DEF TypeOK, HoldsGate, InPass, EnterGate, durable
<1>8. CASE LeaveGateQueue(b)
  BY <1>8, BotFacts, ConstantsAssumption
     DEF TypeOK, HoldsGate, InPass, LeaveGateQueue, durable
<1>9. CASE PassFails(b)
  BY <1>9, BotFacts, ConstantsAssumption
     DEF TypeOK, HoldsGate, InPass, PassFails, durable
<1>10. CASE RecordRun(b)
  BY <1>10, BotFacts, ConstantsAssumption
     DEF TypeOK, HoldsGate, InPass, RecordRun, RunOwner, ModePlaces, ModeAt
<1>11. CASE Send(b)
  BY <1>11, BotFacts, ConstantsAssumption DEF TypeOK, HoldsGate, InPass, Send, durable
<1>12. CASE CancelBeforeSend(b)
  BY <1>12, BotFacts, ConstantsAssumption
     DEF TypeOK, HoldsGate, InPass, CancelBeforeSend, durable
<1>13. CASE Answer(b)
  BY <1>13, BotFacts, ConstantsAssumption
     DEF TypeOK, HoldsGate, InPass, Answer, durable
<1>14. CASE LoseAnswer(b)
  BY <1>14, BotFacts, ConstantsAssumption
     DEF TypeOK, HoldsGate, InPass, LoseAnswer, durable
<1>15. CASE CommitObservation(b)
  BY <1>15, BotFacts, ConstantsAssumption
     DEF TypeOK, HoldsGate, InPass, CommitObservation
<1>16. CASE ObservationUnsaved(b)
  BY <1>16, BotFacts, ConstantsAssumption
     DEF TypeOK, HoldsGate, InPass, ObservationUnsaved, durable
<1>17. CASE ApplyInventory(b)
  BY <1>17, BotFacts, ConstantsAssumption
     DEF TypeOK, HoldsGate, InPass, ApplyInventory
<1>18. CASE ImportIssueEvidence(b)
  BY <1>18, BotFacts, ConstantsAssumption
     DEF TypeOK, HoldsGate, InPass, ImportIssueEvidence, volatile
<1>19. CASE EndPass(b)
  BY <1>19, BotFacts, ConstantsAssumption
     DEF TypeOK, HoldsGate, InPass, EndPass, durable
<1>20. CASE RunPanics(b)
  BY <1>20, PanicDoes, BotFacts, ConstantsAssumption
     DEF TypeOK, HoldsGate, InPass, durable
<1>21. CASE FinalCommit(b)
  <2>1. CASE b[2] = Repo
    BY <1>21, <2>1, BotFacts DEF TypeOK, FinalCommit, RunCleared
  <2>2. CASE b[2] # Repo
    <3>1. b # <<b[1], Repo>>
      BY <2>2
    <3>2. QED  BY <1>21, <2>2, <3>1, BotFacts DEF TypeOK, FinalCommit, RunCleared
  <2>3. QED  BY <2>1, <2>2
<1>22. CASE FinalUnsaved(b)
  BY <1>22, BotFacts, ConstantsAssumption
     DEF TypeOK, HoldsGate, InPass, FinalUnsaved, durable
<1>23. CASE Leave(b)
  BY <1>23, BotFacts, ConstantsAssumption
     DEF TypeOK, HoldsGate, InPass, Leave, durable
<1>24. QED
  BY <1>1, <1>2, <1>3, <1>4, <1>5, <1>6, <1>7, <1>8, <1>9, <1>10, <1>11, <1>12,
  <1>13, <1>14, <1>15, <1>16, <1>17, <1>18, <1>19, <1>20, <1>21, <1>22, <1>23
  DEF RunStep

-----------------------------------------------------------------------------
(***************************************************************************)
(* The conjuncts of DispatchInv, one lemma each: a step of a run keeps it.  *)
(***************************************************************************)

LEMMA RunStepMode ==
    ASSUME TypeOK, ModePlaces, NEW b \in Bots, RunStep(b)
    PROVE  ModePlaces'
<1> SUFFICES ASSUME NEW c \in Bots PROVE ModeAt(c)'
  BY DEF ModePlaces
<1>a. CASE c # b
  BY <1>a, RunStepLocal DEF ModePlaces, ModeAt
<1>b. CASE c = b
  <2> SUFFICES ModeAt(b)'
    BY <1>b
  <2> ModeAt(b)
    BY DEF ModePlaces
  <2>1. CASE StartCanceled(b)
    BY <2>1, BotFacts DEF TypeOK, ModeAt, StartCanceled, durable
  <2>2. CASE StartHeld(b)
    BY <2>2, BotFacts DEF TypeOK, ModeAt, StartHeld
  <2>3. CASE StartCommit(b)
    BY <2>3, BotFacts DEF TypeOK, ModeAt, StartCommit
  <2>4. CASE EndBeforeSending(b)
    BY <2>4, BotFacts DEF TypeOK, ModeAt, EndBeforeSending, durable
  <2>5. CASE ConfirmMerge(b)
    BY <2>5, BotFacts DEF TypeOK, ModeAt, ConfirmMerge, durable
  <2>6. CASE ClaimRepair(b)
    BY <2>6, BotFacts DEF TypeOK, ModeAt, ClaimRepair, durable
  <2>7. CASE EnterGate(b)
    BY <2>7, BotFacts DEF TypeOK, ModeAt, EnterGate, durable
  <2>8. CASE LeaveGateQueue(b)
    BY <2>8, BotFacts DEF TypeOK, ModeAt, LeaveGateQueue, durable
  <2>9. CASE PassFails(b)
    BY <2>9, BotFacts DEF TypeOK, ModeAt, PassFails, durable
  <2>10. CASE RecordRun(b)
    BY <2>10, BotFacts DEF TypeOK, ModeAt, RecordRun, RunOwner
  <2>11. CASE Send(b)
    BY <2>11, BotFacts DEF TypeOK, ModeAt, Send, durable
  <2>12. CASE CancelBeforeSend(b)
    BY <2>12, BotFacts
       DEF TypeOK, ModeAt, CancelBeforeSend, durable, AfterAnswer, InPass
  <2>13. CASE Answer(b)
    BY <2>13, BotFacts DEF TypeOK, ModeAt, Answer, durable, AfterAnswer, InPass
  <2>14. CASE LoseAnswer(b)
    BY <2>14, BotFacts DEF TypeOK, ModeAt, LoseAnswer, durable, AfterAnswer, InPass
  <2>15. CASE CommitObservation(b)
    BY <2>15, BotFacts DEF TypeOK, ModeAt, CommitObservation
  <2>16. CASE ObservationUnsaved(b)
    BY <2>16, BotFacts DEF TypeOK, ModeAt, ObservationUnsaved, durable
  <2>17. CASE ApplyInventory(b)
    BY <2>17, BotFacts DEF TypeOK, ModeAt, ApplyInventory
  <2>18. CASE ImportIssueEvidence(b)
    BY <2>18, BotFacts DEF TypeOK, ModeAt, ImportIssueEvidence, volatile
  <2>19. CASE EndPass(b)
    BY <2>19, BotFacts DEF TypeOK, ModeAt, EndPass, durable
  <2>20. CASE RunPanics(b)
    BY <2>20, PanicDoes, BotFacts DEF TypeOK, ModeAt, durable
  <2>21. CASE FinalCommit(b)
    BY <2>21, BotFacts DEF TypeOK, ModeAt, FinalCommit, RunCleared
  <2>22. CASE FinalUnsaved(b)
    BY <2>22, BotFacts DEF TypeOK, ModeAt, FinalUnsaved, durable
  <2>23. CASE Leave(b)
    BY <2>23, BotFacts DEF TypeOK, ModeAt, Leave, durable
  <2>24. QED
    BY <2>1, <2>2, <2>3, <2>4, <2>5, <2>6, <2>7, <2>8, <2>9, <2>10, <2>11,
    <2>12, <2>13, <2>14, <2>15, <2>16, <2>17, <2>18, <2>19, <2>20, <2>21, <2>22,
    <2>23 DEF RunStep
<1>c. QED  BY <1>a, <1>b

LEMMA RunStepGate ==
    ASSUME TypeOK, ModePlaces, GateHolder, NEW b \in Bots, RunStep(b)
    PROVE  GateHolder'
<1> ModeAt(b)
  BY DEF ModePlaces
<1>local. \A c \in Bots : c # b => HoldsGate(c)' = HoldsGate(c)
  BY RunStepLocal DEF HoldsGate, InPass
<1>holder. \A t \in Towns : gate[t] = None \/ \E c \in Bots : gate[t] = c /\ c[1] = t /\ HoldsGate(c)
  BY DEF GateHolder, TypeOK
<1>goal. ASSUME \A c \in Bots : HoldsGate(c)' => gate'[c[1]] = c,
             \A t \in Towns : gate'[t] = None
                 \/ \E c \in Bots : gate'[t] = c /\ c[1] = t /\ HoldsGate(c)'
      PROVE  GateHolder'
  <2>1. ASSUME NEW t \in Towns, gate'[t] # None
        PROVE  gate'[t][1] = t /\ HoldsGate(gate[t])'
    <3>1. PICK c \in Bots : gate'[t] = c /\ c[1] = t /\ HoldsGate(c)'
      BY <1>goal, <2>1
    <3>2. QED  BY <3>1 DEF HoldsGate, InPass
  <2>2. QED  BY <1>goal, <2>1 DEF GateHolder
\* A step that keeps the gate keeps its holder; one that takes or releases it
\* changes b's side accordingly.
<1>a. ASSUME gate' = gate, HoldsGate(b)' = HoldsGate(b) PROVE GateHolder'
  <2>1. \A c \in Bots : HoldsGate(c)' => gate'[c[1]] = c
    BY <1>local, <1>a DEF GateHolder
  <2>2. QED  BY <1>local, <1>holder, <1>goal, <1>a, <2>1
<1>b. ASSUME HoldsGate(b), ~HoldsGate(b)', gate' = [gate EXCEPT ![b[1]] = None]
      PROVE  GateHolder'
  <2>1. \A c \in Bots : HoldsGate(c)' => c # b /\ c[1] # b[1] /\ gate'[c[1]] = c
    BY <1>local, <1>b, BotFacts DEF GateHolder, TypeOK
  <2>2. \A t \in Towns : gate'[t] = None
            \/ \E c \in Bots : gate'[t] = c /\ c[1] = t /\ HoldsGate(c)'
    BY <1>local, <1>holder, <1>b, BotFacts DEF TypeOK
  <2>3. QED  BY <1>goal, <2>1, <2>2
<1>c. ASSUME gate[b[1]] = None, HoldsGate(b)', gate' = [gate EXCEPT ![b[1]] = b]
      PROVE  GateHolder'
  <2>1. \A c \in Bots : HoldsGate(c)' => gate'[c[1]] = c
    <3>1. ASSUME NEW c \in Bots, c # b, HoldsGate(c)'
          PROVE  c[1] # b[1] /\ gate[c[1]] = c
      BY <1>local, <1>c, <3>1, BotFacts DEF GateHolder
    <3>2. QED  BY <1>c, <3>1, BotFacts DEF TypeOK
  <2>2. \A t \in Towns : gate'[t] = None
            \/ \E c \in Bots : gate'[t] = c /\ c[1] = t /\ HoldsGate(c)'
    BY <1>local, <1>holder, <1>c, BotFacts DEF TypeOK
  <2>3. QED  BY <1>goal, <2>1, <2>2
<1>1. CASE StartCanceled(b)
  BY <1>1, <1>a, <1>b, <1>c, BotFacts, ConstantsAssumption
     DEF TypeOK, ModeAt, HoldsGate, InPass, StartCanceled, durable
<1>2. CASE StartHeld(b)
  BY <1>2, <1>a, <1>b, <1>c, BotFacts, ConstantsAssumption
     DEF TypeOK, ModeAt, HoldsGate, InPass, StartHeld
<1>3. CASE StartCommit(b)
  BY <1>3, <1>a, <1>b, <1>c, BotFacts, ConstantsAssumption
     DEF TypeOK, ModeAt, HoldsGate, InPass, StartCommit
<1>4. CASE EndBeforeSending(b)
  BY <1>4, <1>a, <1>b, <1>c, BotFacts, ConstantsAssumption
     DEF TypeOK, ModeAt, HoldsGate, InPass, EndBeforeSending, durable
<1>5. CASE ConfirmMerge(b)
  BY <1>5, <1>a, <1>b, <1>c, BotFacts, ConstantsAssumption
     DEF TypeOK, ModeAt, HoldsGate, InPass, ConfirmMerge, durable
<1>6. CASE ClaimRepair(b)
  BY <1>6, <1>a, <1>b, <1>c, BotFacts, ConstantsAssumption
     DEF TypeOK, ModeAt, HoldsGate, InPass, ClaimRepair, durable
<1>7. CASE EnterGate(b)
  BY <1>7, <1>a, <1>b, <1>c, BotFacts, ConstantsAssumption
     DEF TypeOK, ModeAt, HoldsGate, InPass, EnterGate, durable, GateFree
<1>8. CASE LeaveGateQueue(b)
  BY <1>8, <1>a, <1>b, <1>c, BotFacts, ConstantsAssumption
     DEF TypeOK, ModeAt, HoldsGate, InPass, LeaveGateQueue, durable
<1>9. CASE PassFails(b)
  BY <1>9, <1>a, <1>b, <1>c, BotFacts, ConstantsAssumption
     DEF TypeOK, ModeAt, HoldsGate, InPass, PassFails, durable
<1>10. CASE RecordRun(b)
  BY <1>10, <1>a, <1>b, <1>c, BotFacts, ConstantsAssumption
     DEF TypeOK, ModeAt, HoldsGate, InPass, RecordRun, RunOwner
<1>11. CASE Send(b)
  BY <1>11, <1>a, <1>b, <1>c, BotFacts, ConstantsAssumption
     DEF TypeOK, ModeAt, HoldsGate, InPass, Send, durable
<1>12. CASE CancelBeforeSend(b)
  BY <1>12, <1>a, <1>b, <1>c, BotFacts, ConstantsAssumption
     DEF TypeOK, ModeAt, HoldsGate, InPass, CancelBeforeSend, durable, AfterAnswer,
         InPass
<1>13. CASE Answer(b)
  BY <1>13, <1>a, <1>b, <1>c, BotFacts, ConstantsAssumption
     DEF TypeOK, ModeAt, HoldsGate, InPass, Answer, durable, AfterAnswer, InPass
<1>14. CASE LoseAnswer(b)
  BY <1>14, <1>a, <1>b, <1>c, BotFacts, ConstantsAssumption
     DEF TypeOK, ModeAt, HoldsGate, InPass, LoseAnswer, durable, AfterAnswer,
         InPass
<1>15. CASE CommitObservation(b)
  BY <1>15, <1>a, <1>b, <1>c, BotFacts, ConstantsAssumption
     DEF TypeOK, ModeAt, HoldsGate, InPass, CommitObservation
<1>16. CASE ObservationUnsaved(b)
  BY <1>16, <1>a, <1>b, <1>c, BotFacts, ConstantsAssumption
     DEF TypeOK, ModeAt, HoldsGate, InPass, ObservationUnsaved, durable
<1>17. CASE ApplyInventory(b)
  BY <1>17, <1>a, <1>b, <1>c, BotFacts, ConstantsAssumption
     DEF TypeOK, ModeAt, HoldsGate, InPass, ApplyInventory
<1>18. CASE ImportIssueEvidence(b)
  BY <1>18, <1>a, <1>b, <1>c, BotFacts, ConstantsAssumption
     DEF TypeOK, ModeAt, HoldsGate, InPass, ImportIssueEvidence, volatile
<1>19. CASE EndPass(b)
  BY <1>19, <1>a, <1>b, <1>c, BotFacts, ConstantsAssumption
     DEF TypeOK, ModeAt, HoldsGate, InPass, EndPass, durable
<1>20. CASE RunPanics(b)
  <2>1. pc'[b] = "finished" /\ ~HoldsGate(b)'
    BY <1>20, PanicDoes DEF TypeOK, HoldsGate
  <2>2. CASE HoldsGate(b)
    BY <1>20, <1>b, <2>1, <2>2, PanicDoes DEF GateHolder
  <2>3. CASE ~HoldsGate(b)
    <3>1. ASSUME gate[b[1]] = b PROVE FALSE
      <4>1. b[1] \in Towns /\ gate[b[1]] # None
        BY <3>1, BotFacts
      <4>2. HoldsGate(gate[b[1]])
        BY <4>1 DEF GateHolder
      <4>. QED  BY <2>3, <3>1, <4>2
    <3>2. gate' = gate
      BY <1>20, <3>1, PanicDoes
    <3>3. HoldsGate(b)' = HoldsGate(b)
      BY <2>1, <2>3 DEF HoldsGate
    <3>. QED  BY <1>a, <3>2, <3>3
  <2>. QED  BY <2>2, <2>3
<1>21. CASE FinalCommit(b)
  BY <1>21, <1>a, <1>b, <1>c, BotFacts, ConstantsAssumption
     DEF TypeOK, ModeAt, HoldsGate, InPass, FinalCommit, RunCleared
<1>22. CASE FinalUnsaved(b)
  BY <1>22, <1>a, <1>b, <1>c, BotFacts, ConstantsAssumption
     DEF TypeOK, ModeAt, HoldsGate, InPass, FinalUnsaved, durable
<1>23. CASE Leave(b)
  BY <1>23, <1>a, <1>b, <1>c, BotFacts, ConstantsAssumption
     DEF TypeOK, ModeAt, HoldsGate, InPass, Leave, durable
<1>24. QED
  BY <1>1, <1>2, <1>3, <1>4, <1>5, <1>6, <1>7, <1>8, <1>9, <1>10, <1>11, <1>12,
  <1>13, <1>14, <1>15, <1>16, <1>17, <1>18, <1>19, <1>20, <1>21, <1>22, <1>23
  DEF RunStep

LEMMA RunStepAgent ==
    ASSUME TypeOK, ModePlaces, AgentRecord, LostWorkHeld, PanicsUnrecorded,
           NEW b \in Bots, RunStep(b)
    PROVE  AgentRecord'
<1> SUFFICES ASSUME NEW c \in Bots, c[2] # Repo PROVE AgentRecordAt(c)'
  BY DEF AgentRecord
<1>a. CASE c # b
  <2>1. c # <<b[1], Repo>>
    OBVIOUS
  <2>2. QED
    BY <1>a, <2>1, RunStepLocal, RunStepOthers
       DEF AgentRecord, AgentRecordAt, Unrecorded
<1>b. CASE c = b
  <2> SUFFICES AgentRecordAt(b)'
    BY <1>b
  <2> ModeAt(b) /\ AgentRecordAt(b) /\ b[2] # Repo /\ b # <<b[1], Repo>>
    BY <1>b DEF ModePlaces, AgentRecord
  <2> b \in lost => run[b] \in Targets \/ recovery[b] # None
    BY DEF LostWorkHeld
  <2>1. CASE StartCanceled(b)
    BY <2>1, BotFacts, ConstantsAssumption
       DEF TypeOK, ModeAt, AgentRecordAt, Unrecorded, StartCanceled, durable
  <2>2. CASE StartHeld(b)
    BY <2>2, BotFacts, ConstantsAssumption
       DEF TypeOK, ModeAt, AgentRecordAt, Unrecorded, StartHeld
  <2>3. CASE StartCommit(b)
    BY <2>3, BotFacts, ConstantsAssumption
       DEF TypeOK, ModeAt, AgentRecordAt, Unrecorded, StartCommit
  <2>4. CASE EndBeforeSending(b)
    BY <2>4, BotFacts, ConstantsAssumption
       DEF TypeOK, ModeAt, AgentRecordAt, Unrecorded, EndBeforeSending, durable
  <2>5. CASE ConfirmMerge(b)
    BY <2>5, BotFacts, ConstantsAssumption
       DEF TypeOK, ModeAt, AgentRecordAt, Unrecorded, ConfirmMerge, durable
  <2>6. CASE ClaimRepair(b)
    BY <2>6, BotFacts, ConstantsAssumption
       DEF TypeOK, ModeAt, AgentRecordAt, Unrecorded, ClaimRepair, durable
  <2>7. CASE EnterGate(b)
    BY <2>7, BotFacts, ConstantsAssumption
       DEF TypeOK, ModeAt, AgentRecordAt, Unrecorded, EnterGate, durable
  <2>8. CASE LeaveGateQueue(b)
    BY <2>8, BotFacts, ConstantsAssumption
       DEF TypeOK, ModeAt, AgentRecordAt, Unrecorded, LeaveGateQueue, durable
  <2>9. CASE PassFails(b)
    BY <2>9, BotFacts, ConstantsAssumption
       DEF TypeOK, ModeAt, AgentRecordAt, Unrecorded, PassFails, durable
  <2>10. CASE RecordRun(b)
    BY <2>10, BotFacts, ConstantsAssumption
       DEF TypeOK, ModeAt, AgentRecordAt, Unrecorded, RecordRun, RunOwner, InPass
  <2>11. CASE Send(b)
    BY <2>11, BotFacts, ConstantsAssumption
       DEF TypeOK, ModeAt, AgentRecordAt, Unrecorded, Send, durable
  <2>12. CASE CancelBeforeSend(b)
    BY <2>12, BotFacts, ConstantsAssumption
       DEF TypeOK, ModeAt, AgentRecordAt, Unrecorded, CancelBeforeSend, durable,
           AfterAnswer, InPass
  <2>13. CASE Answer(b)
    BY <2>13, BotFacts, ConstantsAssumption
       DEF TypeOK, ModeAt, AgentRecordAt, Unrecorded, Answer, durable, AfterAnswer,
           InPass
  <2>14. CASE LoseAnswer(b)
    BY <2>14, BotFacts, ConstantsAssumption
       DEF TypeOK, ModeAt, AgentRecordAt, Unrecorded, LoseAnswer, durable,
           AfterAnswer, InPass
  <2>15. CASE CommitObservation(b)
    BY <2>15, BotFacts, ConstantsAssumption
       DEF TypeOK, ModeAt, AgentRecordAt, Unrecorded, CommitObservation
  <2>16. CASE ObservationUnsaved(b)
    BY <2>16, BotFacts, ConstantsAssumption
       DEF TypeOK, ModeAt, AgentRecordAt, Unrecorded, ObservationUnsaved, durable
  <2>17. CASE ApplyInventory(b)
    BY <2>17, BotFacts, ConstantsAssumption
       DEF TypeOK, ModeAt, AgentRecordAt, Unrecorded, ApplyInventory
  <2>18. CASE ImportIssueEvidence(b)
    BY <2>18, BotFacts, ConstantsAssumption
       DEF TypeOK, ModeAt, AgentRecordAt, Unrecorded, ImportIssueEvidence, volatile
  <2>19. CASE EndPass(b)
    BY <2>19, BotFacts, ConstantsAssumption
       DEF TypeOK, ModeAt, AgentRecordAt, Unrecorded, EndPass, durable
  <2>20. CASE RunPanics(b)
    BY <2>20, PanicDoes, BotFacts, ConstantsAssumption
       DEF TypeOK, ModeAt, AgentRecordAt, Unrecorded, durable
  <2>21. CASE FinalCommit(b)
    BY <2>21, BotFacts, ConstantsAssumption
       DEF TypeOK, ModeAt, AgentRecordAt, Unrecorded, FinalCommit, RunCleared
  <2>22. CASE FinalUnsaved(b)
    BY <2>22, BotFacts, ConstantsAssumption
       DEF TypeOK, ModeAt, AgentRecordAt, Unrecorded, FinalUnsaved, durable
  <2>23. CASE Leave(b)
    BY <2>23, BotFacts, ConstantsAssumption
       DEF TypeOK, ModeAt, AgentRecordAt, Unrecorded, Leave, durable
  <2>24. QED
    BY <2>1, <2>2, <2>3, <2>4, <2>5, <2>6, <2>7, <2>8, <2>9, <2>10, <2>11,
    <2>12, <2>13, <2>14, <2>15, <2>16, <2>17, <2>18, <2>19, <2>20, <2>21, <2>22,
    <2>23 DEF RunStep
<1>c. QED  BY <1>a, <1>b

\* The gate of another town is not touched.
LEMMA RunStepGates ==
    ASSUME TypeOK, NEW b \in Bots, RunStep(b)
    PROVE  \A t \in Towns : t # b[1] => gate'[t] = gate[t]
<1>1. CASE StartCanceled(b)
  BY <1>1, BotFacts DEF TypeOK, StartCanceled, durable
<1>2. CASE StartHeld(b)
  BY <1>2, BotFacts DEF TypeOK, StartHeld
<1>3. CASE StartCommit(b)
  BY <1>3, BotFacts DEF TypeOK, StartCommit
<1>4. CASE EndBeforeSending(b)
  BY <1>4, BotFacts DEF TypeOK, EndBeforeSending, durable
<1>5. CASE ConfirmMerge(b)
  BY <1>5, BotFacts DEF TypeOK, ConfirmMerge, durable
<1>6. CASE ClaimRepair(b)
  BY <1>6, BotFacts DEF TypeOK, ClaimRepair, durable
<1>7. CASE EnterGate(b)
  BY <1>7, BotFacts DEF TypeOK, EnterGate, durable
<1>8. CASE LeaveGateQueue(b)
  BY <1>8, BotFacts DEF TypeOK, LeaveGateQueue, durable
<1>9. CASE PassFails(b)
  BY <1>9, BotFacts DEF TypeOK, PassFails, durable
<1>10. CASE RecordRun(b)
  BY <1>10, BotFacts DEF TypeOK, RecordRun, RunOwner
<1>11. CASE Send(b)
  BY <1>11, BotFacts DEF TypeOK, Send, durable
<1>12. CASE CancelBeforeSend(b)
  BY <1>12, BotFacts DEF TypeOK, CancelBeforeSend, durable
<1>13. CASE Answer(b)
  BY <1>13, BotFacts DEF TypeOK, Answer, durable
<1>14. CASE LoseAnswer(b)
  BY <1>14, BotFacts DEF TypeOK, LoseAnswer, durable
<1>15. CASE CommitObservation(b)
  BY <1>15, BotFacts DEF TypeOK, CommitObservation
<1>16. CASE ObservationUnsaved(b)
  BY <1>16, BotFacts DEF TypeOK, ObservationUnsaved, durable
<1>17. CASE ApplyInventory(b)
  BY <1>17, BotFacts DEF TypeOK, ApplyInventory
<1>18. CASE ImportIssueEvidence(b)
  BY <1>18, BotFacts DEF TypeOK, ImportIssueEvidence, volatile
<1>19. CASE EndPass(b)
  BY <1>19, BotFacts DEF TypeOK, EndPass, durable
<1>20. CASE RunPanics(b)
  BY <1>20, PanicDoes, BotFacts DEF TypeOK, durable
<1>21. CASE FinalCommit(b)
  BY <1>21, BotFacts DEF TypeOK, FinalCommit, RunCleared
<1>22. CASE FinalUnsaved(b)
  BY <1>22, BotFacts DEF TypeOK, FinalUnsaved, durable
<1>23. CASE Leave(b)
  BY <1>23, BotFacts DEF TypeOK, Leave, durable
<1>24. QED
  BY <1>1, <1>2, <1>3, <1>4, <1>5, <1>6, <1>7, <1>8, <1>9, <1>10, <1>11, <1>12,
  <1>13, <1>14, <1>15, <1>16, <1>17, <1>18, <1>19, <1>20, <1>21, <1>22, <1>23
  DEF RunStep

LEMMA RunStepPassRecord ==
    ASSUME TypeOK, ModePlaces, GateHolder, PassRecord, RepoRunHeld, LostWorkHeld,
           phase # "down", "gate" \notin Faults, PanicsUnrecorded, NEW b \in Bots, RunStep(b)
    PROVE  PassRecord'
<1> DEFINE w == <<b[1], Repo>>
<1> /\ ModeAt(b) /\ PassRecordAt(b, w) /\ w \in Bots
    /\ run[w] \in {None, Inventory, Taskless}
    /\ HoldsGate(b) => gate[b[1]] = b
  BY BotFacts DEF ModePlaces, PassRecord, GateHolder
<1>0. run[w] # None => gate[b[1]] # None /\ pc[gate[b[1]]] \in {"recorded", "sent", "observed"}
  BY BotFacts DEF RepoRunHeld
<1>1. w \in lost => run[w] = Taskless \/ recovery[w] # None
  BY BotFacts DEF LostWorkHeld
<1>a. run'[w] \in {None, Inventory, Taskless}
  <2>1. CASE StartCanceled(b)
    BY <2>1, BotFacts, ConstantsAssumption
       DEF TypeOK, ModeAt, HoldsGate, InPass, StartCanceled, durable
  <2>2. CASE StartHeld(b)
    BY <2>2, BotFacts, ConstantsAssumption
       DEF TypeOK, ModeAt, HoldsGate, InPass, StartHeld
  <2>3. CASE StartCommit(b)
    BY <2>3, BotFacts, ConstantsAssumption
       DEF TypeOK, ModeAt, HoldsGate, InPass, StartCommit
  <2>4. CASE EndBeforeSending(b)
    BY <2>4, BotFacts, ConstantsAssumption
       DEF TypeOK, ModeAt, HoldsGate, InPass, EndBeforeSending, durable
  <2>5. CASE ConfirmMerge(b)
    BY <2>5, BotFacts, ConstantsAssumption
       DEF TypeOK, ModeAt, HoldsGate, InPass, ConfirmMerge, durable
  <2>6. CASE ClaimRepair(b)
    BY <2>6, BotFacts, ConstantsAssumption
       DEF TypeOK, ModeAt, HoldsGate, InPass, ClaimRepair, durable
  <2>7. CASE EnterGate(b)
    BY <2>7, BotFacts, ConstantsAssumption
       DEF TypeOK, ModeAt, HoldsGate, InPass, EnterGate, durable
  <2>8. CASE LeaveGateQueue(b)
    BY <2>8, BotFacts, ConstantsAssumption
       DEF TypeOK, ModeAt, HoldsGate, InPass, LeaveGateQueue, durable
  <2>9. CASE PassFails(b)
    BY <2>9, BotFacts, ConstantsAssumption
       DEF TypeOK, ModeAt, HoldsGate, InPass, PassFails, durable
  <2>10. CASE RecordRun(b)
    BY <2>10, BotFacts, ConstantsAssumption
       DEF TypeOK, ModeAt, HoldsGate, InPass, RecordRun, RunOwner
  <2>11. CASE Send(b)
    BY <2>11, BotFacts, ConstantsAssumption
       DEF TypeOK, ModeAt, HoldsGate, InPass, Send, durable
  <2>12. CASE CancelBeforeSend(b)
    BY <2>12, BotFacts, ConstantsAssumption
       DEF TypeOK, ModeAt, HoldsGate, InPass, CancelBeforeSend, durable
  <2>13. CASE Answer(b)
    BY <2>13, BotFacts, ConstantsAssumption
       DEF TypeOK, ModeAt, HoldsGate, InPass, Answer, durable
  <2>14. CASE LoseAnswer(b)
    BY <2>14, BotFacts, ConstantsAssumption
       DEF TypeOK, ModeAt, HoldsGate, InPass, LoseAnswer, durable
  <2>15. CASE CommitObservation(b)
    BY <2>15, BotFacts, ConstantsAssumption
       DEF TypeOK, ModeAt, HoldsGate, InPass, CommitObservation
  <2>16. CASE ObservationUnsaved(b)
    BY <2>16 DEF ObservationUnsaved
  <2>17. CASE ApplyInventory(b)
    BY <2>17, BotFacts, ConstantsAssumption
       DEF TypeOK, ModeAt, HoldsGate, InPass, ApplyInventory
  <2>18. CASE ImportIssueEvidence(b)
    BY <2>18, BotFacts, ConstantsAssumption
       DEF TypeOK, ModeAt, HoldsGate, InPass, ImportIssueEvidence, volatile
  <2>19. CASE EndPass(b)
    BY <2>19, BotFacts, ConstantsAssumption
       DEF TypeOK, ModeAt, HoldsGate, InPass, EndPass, durable
  <2>20. CASE RunPanics(b)
    BY <2>20, PanicDoes, BotFacts, ConstantsAssumption
       DEF TypeOK, ModeAt, HoldsGate, InPass, durable
  <2>21. CASE FinalCommit(b)
    BY <2>21, BotFacts, ConstantsAssumption
       DEF TypeOK, ModeAt, HoldsGate, InPass, FinalCommit, RunCleared
  <2>22. CASE FinalUnsaved(b)
    BY <2>22, BotFacts, ConstantsAssumption
       DEF TypeOK, ModeAt, HoldsGate, InPass, FinalUnsaved, durable
  <2>23. CASE Leave(b)
    BY <2>23, BotFacts, ConstantsAssumption
       DEF TypeOK, ModeAt, HoldsGate, InPass, Leave, durable
  <2>24. QED
    BY <2>1, <2>2, <2>3, <2>4, <2>5, <2>6, <2>7, <2>8, <2>9, <2>10, <2>11,
    <2>12, <2>13, <2>14, <2>15, <2>16, <2>17, <2>18, <2>19, <2>20, <2>21, <2>22,
    <2>23 DEF RunStep
<1>b. PassRecordAt(b, w)'
  <2>1. CASE StartCanceled(b)
    BY <2>1, <1>0, <1>1, BotFacts, ConstantsAssumption
       DEF TypeOK, ModeAt, PassRecordAt, InPass, StartCanceled, durable
  <2>2. CASE StartHeld(b)
    BY <2>2, <1>0, <1>1, BotFacts, ConstantsAssumption
       DEF TypeOK, ModeAt, PassRecordAt, InPass, StartHeld
  <2>3. CASE StartCommit(b)
    BY <2>3, <1>0, <1>1, BotFacts, ConstantsAssumption
       DEF TypeOK, ModeAt, PassRecordAt, InPass, StartCommit
  <2>4. CASE EndBeforeSending(b)
    BY <2>4, <1>0, <1>1, BotFacts, ConstantsAssumption
       DEF TypeOK, ModeAt, PassRecordAt, InPass, EndBeforeSending, durable
  <2>5. CASE ConfirmMerge(b)
    BY <2>5, <1>0, <1>1, BotFacts, ConstantsAssumption
       DEF TypeOK, ModeAt, PassRecordAt, InPass, ConfirmMerge, durable
  <2>6. CASE ClaimRepair(b)
    BY <2>6, <1>0, <1>1, BotFacts, ConstantsAssumption
       DEF TypeOK, ModeAt, PassRecordAt, InPass, ClaimRepair, durable
  <2>7. CASE EnterGate(b)
    BY <2>7, <1>0, <1>1, BotFacts, ConstantsAssumption
       DEF TypeOK, ModeAt, PassRecordAt, InPass, EnterGate, durable
  <2>8. CASE LeaveGateQueue(b)
    BY <2>8, <1>0, <1>1, BotFacts, ConstantsAssumption
       DEF TypeOK, ModeAt, PassRecordAt, InPass, LeaveGateQueue, durable
  <2>9. CASE PassFails(b)
    BY <2>9, <1>0, <1>1, BotFacts, ConstantsAssumption
       DEF TypeOK, ModeAt, PassRecordAt, InPass, PassFails, durable
  <2>10. CASE RecordRun(b)
    BY <2>10, <1>0, <1>1, BotFacts, ConstantsAssumption
       DEF TypeOK, ModeAt, PassRecordAt, InPass, RecordRun, RunOwner, HoldsGate
  <2>11. CASE Send(b)
    BY <2>11, <1>0, <1>1, BotFacts, ConstantsAssumption
       DEF TypeOK, ModeAt, PassRecordAt, InPass, Send, durable
  <2>12. CASE CancelBeforeSend(b)
    BY <2>12, <1>0, <1>1, BotFacts, ConstantsAssumption
       DEF TypeOK, ModeAt, PassRecordAt, InPass, CancelBeforeSend, durable,
           AfterAnswer
  <2>13. CASE Answer(b)
    BY <2>13, <1>0, <1>1, BotFacts, ConstantsAssumption
       DEF TypeOK, ModeAt, PassRecordAt, InPass, Answer, durable, AfterAnswer
  <2>14. CASE LoseAnswer(b)
    BY <2>14, <1>0, <1>1, BotFacts, ConstantsAssumption
       DEF TypeOK, ModeAt, PassRecordAt, InPass, LoseAnswer, durable, AfterAnswer
  <2>15. CASE CommitObservation(b)
    BY <2>15, <1>0, <1>1, BotFacts, ConstantsAssumption
       DEF TypeOK, ModeAt, PassRecordAt, InPass, CommitObservation, Recovered
  <2>16. CASE ObservationUnsaved(b)
    BY <2>16 DEF ObservationUnsaved
  <2>17. CASE ApplyInventory(b)
    BY <2>17, <1>0, <1>1, BotFacts, ConstantsAssumption
       DEF TypeOK, ModeAt, PassRecordAt, InPass, ApplyInventory
  <2>18. CASE ImportIssueEvidence(b)
    BY <2>18, <1>0, <1>1, BotFacts, ConstantsAssumption
       DEF TypeOK, ModeAt, PassRecordAt, InPass, ImportIssueEvidence, volatile
  <2>19. CASE EndPass(b)
    BY <2>19, <1>0, <1>1, BotFacts, ConstantsAssumption
       DEF TypeOK, ModeAt, PassRecordAt, InPass, EndPass, durable
  <2>20. CASE RunPanics(b)
    BY <2>20, PanicDoes, <1>0, <1>1, BotFacts, ConstantsAssumption
       DEF TypeOK, ModeAt, PassRecordAt, InPass, durable
  <2>21. CASE FinalCommit(b)
    BY <2>21, <1>0, <1>1, BotFacts, ConstantsAssumption
       DEF TypeOK, ModeAt, PassRecordAt, InPass, FinalCommit, RunCleared, Recovered
  <2>22. CASE FinalUnsaved(b)
    BY <2>22, <1>0, <1>1, BotFacts, ConstantsAssumption
       DEF TypeOK, ModeAt, PassRecordAt, InPass, FinalUnsaved, durable
  <2>23. CASE Leave(b)
    BY <2>23, <1>0, <1>1, BotFacts, ConstantsAssumption
       DEF TypeOK, ModeAt, PassRecordAt, InPass, Leave, durable
  <2>24. QED
    BY <2>1, <2>2, <2>3, <2>4, <2>5, <2>6, <2>7, <2>8, <2>9, <2>10, <2>11,
    <2>12, <2>13, <2>14, <2>15, <2>16, <2>17, <2>18, <2>19, <2>20, <2>21, <2>22,
    <2>23 DEF RunStep
<1>c. \A t \in Towns : run'[<<t, Repo>>] \in {None, Inventory, Taskless}
  <2>1. ASSUME NEW t \in Towns, t # b[1] PROVE run'[<<t, Repo>>] = run[<<t, Repo>>] \/ <<t, Repo>> = b
    BY <2>1, BotFacts, RunStepOthers
  <2>2. \A t \in Towns : <<t, Repo>> = b => t = b[1]
    OBVIOUS
  <2>3. QED  BY <1>a, <2>1, <2>2 DEF PassRecord
<1>d. ASSUME NEW c \in Bots, c # b PROVE PassRecordAt(c, <<c[1], Repo>>)'
  <2> DEFINE v == <<c[1], Repo>>
  <2> /\ PassRecordAt(c, v) /\ v \in Bots
      /\ pc'[c] = pc[c] /\ mode'[c] = mode[c] /\ outcome'[c] = outcome[c]
    BY <1>d, BotFacts, RunStepLocal DEF PassRecord
  <2>1. CASE c[1] # b[1]
    <3>1. v # b /\ v # w
      BY <2>1
    <3>2. /\ run'[v] = run[v] /\ (v \in lost' => v \in lost)
          /\ recovery'[v] = recovery[v] \/ (recovery'[v] = None /\ v \notin lost')
      BY <3>1, RunStepOthers
    <3>3. QED  BY <3>2 DEF PassRecordAt, InPass
  <2>2. CASE c[1] = b[1] /\ HoldsGate(b)
    <3>1. ~HoldsGate(c)
      BY <1>d, <2>2 DEF GateHolder
    <3>2. QED  BY <3>1 DEF PassRecordAt, HoldsGate, InPass
  <2>3. CASE c[1] = b[1] /\ ~HoldsGate(b)
    <3>1. run'[v] = run[v] /\ recovery'[v] = recovery[v] /\ (v \in lost' => v \in lost)
      BY <2>3, RunStepPass
    <3>2. QED  BY <3>1 DEF PassRecordAt, InPass
  <2>4. QED  BY <2>1, <2>2, <2>3
<1>e. QED  BY <1>b, <1>c, <1>d DEF PassRecord

LEMMA RunStepHolder ==
    ASSUME TypeOK, ModePlaces, GateHolder, RepoRunHeld, phase # "down", PanicsUnrecorded,
           NEW b \in Bots, RunStep(b), ~ObservationUnsaved(b)
    PROVE  RepoRunHeld'
<1> SUFFICES ASSUME NEW t \in Towns, run'[<<t, Repo>>] # None
             PROVE  gate'[t] # None /\ pc'[gate'[t]] \in {"recorded", "sent", "observed"}
  BY DEF RepoRunHeld
<1> DEFINE w == <<b[1], Repo>>
<1> ModeAt(b) /\ w \in Bots /\ b[1] \in Towns
  BY BotFacts DEF ModePlaces
<1>0. \A u \in Towns : run[<<u, Repo>>] # None =>
          gate[u] # None /\ pc[gate[u]] \in {"recorded", "sent", "observed"}
  BY DEF RepoRunHeld
<1>1. \A u \in Towns : gate[u] # None => gate[u] \in Bots /\ gate[u][1] = u /\ HoldsGate(gate[u])
  BY DEF GateHolder, TypeOK
<1>a. CASE t # b[1]
  <2>1. <<t, Repo>> # b /\ <<t, Repo>> # w
    BY <1>a
  <2>2. run[<<t, Repo>>] # None
    BY <2>1, RunStepOthers, BotFacts
  <2>3. gate'[t] = gate[t] /\ gate[t] # b
    BY <1>a, <1>0, <1>1, <2>2, RunStepGates
  <2>4. QED  BY <1>0, <1>1, <2>2, <2>3, RunStepLocal
<1>b. CASE t = b[1] /\ ~HoldsGate(b)
  <2>1. run[<<t, Repo>>] # None
    BY <1>b, RunStepPass
  <2>2. gate[t] \in Bots /\ gate[t] # b /\ gate[t] # None /\ pc[gate[t]] \in {"recorded", "sent", "observed"}
    BY <1>b, <1>0, <1>1, <2>1
  <2>3. gate'[t] = gate[t]
    <3>1. CASE StartCanceled(b)
      BY <3>1, <1>b, <2>2 DEF TypeOK, HoldsGate, StartCanceled, durable
    <3>2. CASE StartHeld(b)
      BY <3>2, <1>b, <2>2 DEF TypeOK, HoldsGate, StartHeld
    <3>3. CASE StartCommit(b)
      BY <3>3, <1>b, <2>2 DEF TypeOK, HoldsGate, StartCommit
    <3>4. CASE EndBeforeSending(b)
      BY <3>4, <1>b, <2>2 DEF TypeOK, HoldsGate, EndBeforeSending, durable
    <3>5. CASE ConfirmMerge(b)
      BY <3>5, <1>b, <2>2 DEF TypeOK, HoldsGate, ConfirmMerge, durable
    <3>6. CASE ClaimRepair(b)
      BY <3>6, <1>b, <2>2 DEF TypeOK, HoldsGate, ClaimRepair, durable
    <3>7. CASE EnterGate(b)
      BY <3>7, <1>b, <2>2 DEF TypeOK, HoldsGate, EnterGate, durable, GateFree
    <3>8. CASE LeaveGateQueue(b)
      BY <3>8, <1>b, <2>2 DEF TypeOK, HoldsGate, LeaveGateQueue, durable
    <3>9. CASE PassFails(b)
      BY <3>9, <1>b, <2>2 DEF TypeOK, HoldsGate, PassFails, durable
    <3>10. CASE RecordRun(b)
      BY <3>10, <1>b, <2>2 DEF TypeOK, HoldsGate, RecordRun, RunOwner
    <3>11. CASE Send(b)
      BY <3>11, <1>b, <2>2 DEF TypeOK, HoldsGate, Send, durable
    <3>12. CASE CancelBeforeSend(b)
      BY <3>12, <1>b, <2>2 DEF TypeOK, HoldsGate, CancelBeforeSend, durable
    <3>13. CASE Answer(b)
      BY <3>13, <1>b, <2>2 DEF TypeOK, HoldsGate, Answer, durable
    <3>14. CASE LoseAnswer(b)
      BY <3>14, <1>b, <2>2 DEF TypeOK, HoldsGate, LoseAnswer, durable
    <3>15. CASE CommitObservation(b)
      BY <3>15, <1>b, <2>2 DEF TypeOK, HoldsGate, CommitObservation
    <3>16. CASE ObservationUnsaved(b)
      BY <3>16
    <3>17. CASE ApplyInventory(b)
      BY <3>17, <1>b, <2>2 DEF TypeOK, HoldsGate, ApplyInventory
    <3>18. CASE ImportIssueEvidence(b)
      BY <3>18, <1>b, <2>2 DEF TypeOK, HoldsGate, ImportIssueEvidence, volatile
    <3>19. CASE EndPass(b)
      BY <3>19, <1>b, <2>2 DEF TypeOK, HoldsGate, EndPass, durable
    <3>20. CASE RunPanics(b)
      BY <3>20, PanicDoes, <1>b, <2>2 DEF TypeOK, HoldsGate, durable
    <3>21. CASE FinalCommit(b)
      BY <3>21, <1>b, <2>2 DEF TypeOK, HoldsGate, FinalCommit, RunCleared
    <3>22. CASE FinalUnsaved(b)
      BY <3>22, <1>b, <2>2 DEF TypeOK, HoldsGate, FinalUnsaved, durable
    <3>23. CASE Leave(b)
      BY <3>23, <1>b, <2>2 DEF TypeOK, HoldsGate, Leave, durable
    <3>24. QED
      BY <3>1, <3>2, <3>3, <3>4, <3>5, <3>6, <3>7, <3>8, <3>9, <3>10, <3>11,
      <3>12, <3>13, <3>14, <3>15, <3>16, <3>17, <3>18, <3>19, <3>20, <3>21,
      <3>22, <3>23 DEF RunStep
  <2>4. QED  BY <2>2, <2>3, RunStepLocal
<1>c. CASE t = b[1] /\ HoldsGate(b)
  <2> gate[t] = b /\ b # None
    BY <1>c, BotFacts DEF GateHolder
  <2>1. CASE StartCanceled(b)
    BY <2>1, <1>c, <1>0, BotFacts
       DEF TypeOK, ModeAt, HoldsGate, InPass, StartCanceled, durable
  <2>2. CASE StartHeld(b)
    BY <2>2, <1>c, <1>0, BotFacts DEF TypeOK, ModeAt, HoldsGate, InPass, StartHeld
  <2>3. CASE StartCommit(b)
    BY <2>3, <1>c, <1>0, BotFacts DEF TypeOK, ModeAt, HoldsGate, InPass, StartCommit
  <2>4. CASE EndBeforeSending(b)
    BY <2>4, <1>c, <1>0, BotFacts
       DEF TypeOK, ModeAt, HoldsGate, InPass, EndBeforeSending, durable
  <2>5. CASE ConfirmMerge(b)
    BY <2>5, <1>c, <1>0, BotFacts
       DEF TypeOK, ModeAt, HoldsGate, InPass, ConfirmMerge, durable
  <2>6. CASE ClaimRepair(b)
    BY <2>6, <1>c, <1>0, BotFacts
       DEF TypeOK, ModeAt, HoldsGate, InPass, ClaimRepair, durable
  <2>7. CASE EnterGate(b)
    BY <2>7, <1>c, <1>0, BotFacts
       DEF TypeOK, ModeAt, HoldsGate, InPass, EnterGate, durable
  <2>8. CASE LeaveGateQueue(b)
    BY <2>8, <1>c, <1>0, BotFacts
       DEF TypeOK, ModeAt, HoldsGate, InPass, LeaveGateQueue, durable
  <2>9. CASE PassFails(b)
    BY <2>9, <1>c, <1>0, BotFacts
       DEF TypeOK, ModeAt, HoldsGate, InPass, PassFails, durable
  <2>10. CASE RecordRun(b)
    BY <2>10, <1>c, <1>0, BotFacts
       DEF TypeOK, ModeAt, HoldsGate, InPass, RecordRun, RunOwner
  <2>11. CASE Send(b)
    BY <2>11, <1>c, <1>0, BotFacts
       DEF TypeOK, ModeAt, HoldsGate, InPass, Send, durable
  <2>12. CASE CancelBeforeSend(b)
    BY <2>12, <1>c, <1>0, BotFacts
       DEF TypeOK, ModeAt, HoldsGate, InPass, CancelBeforeSend, durable,
           AfterAnswer
  <2>13. CASE Answer(b)
    BY <2>13, <1>c, <1>0, BotFacts
       DEF TypeOK, ModeAt, HoldsGate, InPass, Answer, durable, AfterAnswer
  <2>14. CASE LoseAnswer(b)
    BY <2>14, <1>c, <1>0, BotFacts
       DEF TypeOK, ModeAt, HoldsGate, InPass, LoseAnswer, durable, AfterAnswer
  <2>15. CASE CommitObservation(b)
    BY <2>15, <1>c, <1>0, BotFacts
       DEF TypeOK, ModeAt, HoldsGate, InPass, CommitObservation
  <2>16. CASE ObservationUnsaved(b)
    BY <2>16
  <2>17. CASE ApplyInventory(b)
    BY <2>17, <1>c, <1>0, BotFacts
       DEF TypeOK, ModeAt, HoldsGate, InPass, ApplyInventory
  <2>18. CASE ImportIssueEvidence(b)
    BY <2>18, <1>c, <1>0, BotFacts
       DEF TypeOK, ModeAt, HoldsGate, InPass, ImportIssueEvidence, volatile
  <2>19. CASE EndPass(b)
    BY <2>19, <1>c, <1>0, BotFacts
       DEF TypeOK, ModeAt, HoldsGate, InPass, EndPass, durable
  <2>20. CASE RunPanics(b)
    BY <2>20, PanicDoes, <1>c, <1>0, BotFacts
       DEF TypeOK, ModeAt, HoldsGate, InPass, durable
  <2>21. CASE FinalCommit(b)
    BY <2>21, <1>c, <1>0, BotFacts
       DEF TypeOK, ModeAt, HoldsGate, InPass, FinalCommit, RunCleared
  <2>22. CASE FinalUnsaved(b)
    BY <2>22, <1>c, <1>0, BotFacts
       DEF TypeOK, ModeAt, HoldsGate, InPass, FinalUnsaved, durable
  <2>23. CASE Leave(b)
    BY <2>23, <1>c, <1>0, BotFacts
       DEF TypeOK, ModeAt, HoldsGate, InPass, Leave, durable
  <2>24. QED
    BY <2>1, <2>2, <2>3, <2>4, <2>5, <2>6, <2>7, <2>8, <2>9, <2>10, <2>11,
    <2>12, <2>13, <2>14, <2>15, <2>16, <2>17, <2>18, <2>19, <2>20, <2>21, <2>22,
    <2>23 DEF RunStep
<1>d. QED  BY <1>a, <1>b, <1>c

LEMMA RunStepLost ==
    ASSUME TypeOK, ModePlaces, GateHolder, AgentRecord, PassRecord, RepoRunHeld,
           LostWorkHeld, phase # "down", "gate" \notin Faults, PanicsUnrecorded, NEW b \in Bots, RunStep(b)
    PROVE  LostWorkHeld'
<1> SUFFICES ASSUME NEW c \in Bots, c \in lost'
             PROVE  run'[c] \in Targets \/ recovery'[c] # None
  BY RunStepOthers DEF LostWorkHeld, TypeOK
<1> DEFINE w == <<b[1], Repo>>
<1> ModeAt(b) /\ PassRecordAt(b, w) /\ w \in Bots
  BY BotFacts DEF ModePlaces, PassRecord
<1>1. \A d \in Bots : d \in lost => run[d] \in Targets \/ recovery[d] # None
  BY DEF LostWorkHeld
<1>a. CASE c # b /\ c # w
  BY <1>a, <1>1, RunStepOthers
<1>b. CASE c = w /\ ~HoldsGate(b)
  BY <1>b, <1>1, RunStepPass
<1>c. CASE c = w /\ HoldsGate(b)
  <2> w \in lost => run[w] \in Targets \/ recovery[w] # None
    BY <1>1
  <2> pc[b] = "picked" => run[w] = None
    BY <1>c, BotFacts DEF GateHolder, RepoRunHeld
  <2>1. CASE StartCanceled(b)
    BY <2>1, <1>c, BotFacts, ConstantsAssumption
       DEF TypeOK, ModeAt, PassRecordAt, HoldsGate, InPass, StartCanceled, durable
  <2>2. CASE StartHeld(b)
    BY <2>2, <1>c, BotFacts, ConstantsAssumption
       DEF TypeOK, ModeAt, PassRecordAt, HoldsGate, InPass, StartHeld
  <2>3. CASE StartCommit(b)
    BY <2>3, <1>c, BotFacts, ConstantsAssumption
       DEF TypeOK, ModeAt, PassRecordAt, HoldsGate, InPass, StartCommit
  <2>4. CASE EndBeforeSending(b)
    BY <2>4, <1>c, BotFacts, ConstantsAssumption
       DEF TypeOK, ModeAt, PassRecordAt, HoldsGate, InPass, EndBeforeSending,
           durable
  <2>5. CASE ConfirmMerge(b)
    BY <2>5, <1>c, BotFacts, ConstantsAssumption
       DEF TypeOK, ModeAt, PassRecordAt, HoldsGate, InPass, ConfirmMerge, durable
  <2>6. CASE ClaimRepair(b)
    BY <2>6, <1>c, BotFacts, ConstantsAssumption
       DEF TypeOK, ModeAt, PassRecordAt, HoldsGate, InPass, ClaimRepair, durable
  <2>7. CASE EnterGate(b)
    BY <2>7, <1>c, BotFacts, ConstantsAssumption
       DEF TypeOK, ModeAt, PassRecordAt, HoldsGate, InPass, EnterGate, durable
  <2>8. CASE LeaveGateQueue(b)
    BY <2>8, <1>c, BotFacts, ConstantsAssumption
       DEF TypeOK, ModeAt, PassRecordAt, HoldsGate, InPass, LeaveGateQueue, durable
  <2>9. CASE PassFails(b)
    BY <2>9, <1>c, BotFacts, ConstantsAssumption
       DEF TypeOK, ModeAt, PassRecordAt, HoldsGate, InPass, PassFails, durable
  <2>10. CASE RecordRun(b)
    BY <2>10, <1>c, BotFacts, ConstantsAssumption
       DEF TypeOK, ModeAt, PassRecordAt, HoldsGate, InPass, RecordRun, RunOwner
  <2>11. CASE Send(b)
    BY <2>11, <1>c, BotFacts, ConstantsAssumption
       DEF TypeOK, ModeAt, PassRecordAt, HoldsGate, InPass, Send, durable
  <2>12. CASE CancelBeforeSend(b)
    BY <2>12, <1>c, BotFacts, ConstantsAssumption
       DEF TypeOK, ModeAt, PassRecordAt, HoldsGate, InPass, CancelBeforeSend,
           durable, AfterAnswer
  <2>13. CASE Answer(b)
    BY <2>13, <1>c, BotFacts, ConstantsAssumption
       DEF TypeOK, ModeAt, PassRecordAt, HoldsGate, InPass, Answer, durable,
           AfterAnswer
  <2>14. CASE LoseAnswer(b)
    BY <2>14, <1>c, BotFacts, ConstantsAssumption
       DEF TypeOK, ModeAt, PassRecordAt, HoldsGate, InPass, LoseAnswer, durable,
           AfterAnswer
  <2>15. CASE CommitObservation(b)
    BY <2>15, <1>c, BotFacts, ConstantsAssumption
       DEF TypeOK, ModeAt, PassRecordAt, HoldsGate, InPass, CommitObservation,
           Recovered
  <2>16. CASE ObservationUnsaved(b)
    BY <2>16 DEF ObservationUnsaved
  <2>17. CASE ApplyInventory(b)
    BY <2>17, <1>c, BotFacts, ConstantsAssumption
       DEF TypeOK, ModeAt, PassRecordAt, HoldsGate, InPass, ApplyInventory
  <2>18. CASE ImportIssueEvidence(b)
    BY <2>18, <1>c, BotFacts, ConstantsAssumption
       DEF TypeOK, ModeAt, PassRecordAt, HoldsGate, InPass, ImportIssueEvidence,
           volatile
  <2>19. CASE EndPass(b)
    BY <2>19, <1>c, BotFacts, ConstantsAssumption
       DEF TypeOK, ModeAt, PassRecordAt, HoldsGate, InPass, EndPass, durable
  <2>20. CASE RunPanics(b)
    BY <2>20, PanicDoes, <1>c, BotFacts, ConstantsAssumption
       DEF TypeOK, ModeAt, PassRecordAt, HoldsGate, InPass, durable
  <2>21. CASE FinalCommit(b)
    BY <2>21, <1>c, BotFacts, ConstantsAssumption
       DEF TypeOK, ModeAt, PassRecordAt, HoldsGate, InPass, FinalCommit, RunCleared,
           Recovered
  <2>22. CASE FinalUnsaved(b)
    BY <2>22, <1>c, BotFacts, ConstantsAssumption
       DEF TypeOK, ModeAt, PassRecordAt, HoldsGate, InPass, FinalUnsaved, durable
  <2>23. CASE Leave(b)
    BY <2>23, <1>c, BotFacts, ConstantsAssumption
       DEF TypeOK, ModeAt, PassRecordAt, HoldsGate, InPass, Leave, durable
  <2>24. QED
    BY <2>1, <2>2, <2>3, <2>4, <2>5, <2>6, <2>7, <2>8, <2>9, <2>10, <2>11,
    <2>12, <2>13, <2>14, <2>15, <2>16, <2>17, <2>18, <2>19, <2>20, <2>21, <2>22,
    <2>23 DEF RunStep
<1>d. CASE c = b /\ c # w
  <2> /\ b[2] # Repo /\ AgentRecordAt(b)
      /\ b \in lost => run[b] \in Targets \/ recovery[b] # None
    BY <1>d, <1>1, BotFacts DEF AgentRecord
  <2>1. CASE StartCanceled(b)
    BY <2>1, <1>d, BotFacts, ConstantsAssumption
       DEF TypeOK, ModeAt, AgentRecordAt, Unrecorded, StartCanceled, durable
  <2>2. CASE StartHeld(b)
    BY <2>2, <1>d, BotFacts, ConstantsAssumption
       DEF TypeOK, ModeAt, AgentRecordAt, Unrecorded, StartHeld
  <2>3. CASE StartCommit(b)
    BY <2>3, <1>d, BotFacts, ConstantsAssumption
       DEF TypeOK, ModeAt, AgentRecordAt, Unrecorded, StartCommit
  <2>4. CASE EndBeforeSending(b)
    BY <2>4, <1>d, BotFacts, ConstantsAssumption
       DEF TypeOK, ModeAt, AgentRecordAt, Unrecorded, EndBeforeSending, durable
  <2>5. CASE ConfirmMerge(b)
    BY <2>5, <1>d, BotFacts, ConstantsAssumption
       DEF TypeOK, ModeAt, AgentRecordAt, Unrecorded, ConfirmMerge, durable
  <2>6. CASE ClaimRepair(b)
    BY <2>6, <1>d, BotFacts, ConstantsAssumption
       DEF TypeOK, ModeAt, AgentRecordAt, Unrecorded, ClaimRepair, durable
  <2>7. CASE EnterGate(b)
    BY <2>7, <1>d, BotFacts, ConstantsAssumption
       DEF TypeOK, ModeAt, AgentRecordAt, Unrecorded, EnterGate, durable
  <2>8. CASE LeaveGateQueue(b)
    BY <2>8, <1>d, BotFacts, ConstantsAssumption
       DEF TypeOK, ModeAt, AgentRecordAt, Unrecorded, LeaveGateQueue, durable
  <2>9. CASE PassFails(b)
    BY <2>9, <1>d, BotFacts, ConstantsAssumption
       DEF TypeOK, ModeAt, AgentRecordAt, Unrecorded, PassFails, durable
  <2>10. CASE RecordRun(b)
    BY <2>10, <1>d, BotFacts, ConstantsAssumption
       DEF TypeOK, ModeAt, AgentRecordAt, Unrecorded, RecordRun, RunOwner, RunOwner,
           InPass
  <2>11. CASE Send(b)
    BY <2>11, <1>d, BotFacts, ConstantsAssumption
       DEF TypeOK, ModeAt, AgentRecordAt, Unrecorded, Send, durable
  <2>12. CASE CancelBeforeSend(b)
    BY <2>12, <1>d, BotFacts, ConstantsAssumption
       DEF TypeOK, ModeAt, AgentRecordAt, Unrecorded, CancelBeforeSend, durable,
           AfterAnswer
  <2>13. CASE Answer(b)
    BY <2>13, <1>d, BotFacts, ConstantsAssumption
       DEF TypeOK, ModeAt, AgentRecordAt, Unrecorded, Answer, durable, AfterAnswer
  <2>14. CASE LoseAnswer(b)
    BY <2>14, <1>d, BotFacts, ConstantsAssumption
       DEF TypeOK, ModeAt, AgentRecordAt, Unrecorded, LoseAnswer, durable,
           AfterAnswer
  <2>15. CASE CommitObservation(b)
    BY <2>15, <1>d, BotFacts, ConstantsAssumption
       DEF TypeOK, ModeAt, AgentRecordAt, Unrecorded, CommitObservation, Recovered
  <2>16. CASE ObservationUnsaved(b)
    BY <2>16 DEF ObservationUnsaved
  <2>17. CASE ApplyInventory(b)
    BY <2>17, <1>d, BotFacts, ConstantsAssumption
       DEF TypeOK, ModeAt, AgentRecordAt, Unrecorded, ApplyInventory
  <2>18. CASE ImportIssueEvidence(b)
    BY <2>18, <1>d, BotFacts, ConstantsAssumption
       DEF TypeOK, ModeAt, AgentRecordAt, Unrecorded, ImportIssueEvidence, volatile
  <2>19. CASE EndPass(b)
    BY <2>19, <1>d, BotFacts, ConstantsAssumption
       DEF TypeOK, ModeAt, AgentRecordAt, Unrecorded, EndPass, durable
  <2>20. CASE RunPanics(b)
    BY <2>20, PanicDoes, <1>d, BotFacts, ConstantsAssumption
       DEF TypeOK, ModeAt, AgentRecordAt, Unrecorded, durable
  <2>21. CASE FinalCommit(b)
    BY <2>21, <1>d, BotFacts, ConstantsAssumption
       DEF TypeOK, ModeAt, AgentRecordAt, Unrecorded, FinalCommit, RunCleared,
           Recovered
  <2>22. CASE FinalUnsaved(b)
    BY <2>22, <1>d, BotFacts, ConstantsAssumption
       DEF TypeOK, ModeAt, AgentRecordAt, Unrecorded, FinalUnsaved, durable
  <2>23. CASE Leave(b)
    BY <2>23, <1>d, BotFacts, ConstantsAssumption
       DEF TypeOK, ModeAt, AgentRecordAt, Unrecorded, Leave, durable
  <2>24. QED
    BY <2>1, <2>2, <2>3, <2>4, <2>5, <2>6, <2>7, <2>8, <2>9, <2>10, <2>11,
    <2>12, <2>13, <2>14, <2>15, <2>16, <2>17, <2>18, <2>19, <2>20, <2>21, <2>22,
    <2>23 DEF RunStep
<1>e. QED  BY <1>a, <1>b, <1>c, <1>d

-----------------------------------------------------------------------------
(***************************************************************************)
(* The other steps.                                                         *)
(***************************************************************************)

\* The operator's commands drop a hold only with the work it stood for.
LEMMA OperatorRecords ==
    ASSUME TypeOK, Operator
    PROVE  /\ run' = run /\ lost' \subseteq lost
           /\ \A c \in Bots : recovery'[c] = recovery[c]
                  \/ (recovery'[c] = None /\ c \notin lost')
<1>1. CASE \E t \in Towns : \E k \in Tasks : Retry(t, k)
  BY <1>1 DEF TypeOK, Retry, ResetTask
<1>2. CASE \E t \in Towns : \E k \in Tasks : RetryIssueCommit(t, k)
  BY <1>2 DEF TypeOK, RetryIssueCommit, ResetTask
<1>3. CASE \E t \in Towns : \E S \in Commands : Start(t, S)
  BY <1>3 DEF TypeOK, Start
<1>4. CASE ~(\E t \in Towns : \E k \in Tasks : Retry(t, k) \/ RetryIssueCommit(t, k))
           /\ ~(\E t \in Towns : \E S \in Commands : Start(t, S))
  BY <1>4 DEF Operator, Pause, Stop, Decide, RetryIssueBegin, RetryIssueStop,
       RetryIssueFails, Delete, Restore, BeginStorage, EndStorage, SetCapacity,
       StopCancels, durable
<1>5. QED  BY <1>1, <1>2, <1>3, <1>4

\* A step that moves no run, and drops a hold only with the work it stood for.
LEMMA QuietStep ==
    ASSUME DispatchInv, UNCHANGED <<running, gate, pc, mode, outcome, run>>,
           phase' = "down" <=> phase = "down", TypeOK', lost' \subseteq lost,
           \A c \in Bots : recovery'[c] = recovery[c]
               \/ (recovery'[c] = None /\ c \notin lost')
    PROVE  DispatchInv'
<1> USE DEF DispatchInv
<1>1. RunningPlaces'
  BY DEF RunningPlaces
<1>2. ModePlaces'
  BY DEF ModePlaces, ModeAt
<1>3. GateHolder'
  BY DEF GateHolder, HoldsGate, InPass
<1>4. AgentRecord'
  BY DEF AgentRecord, AgentRecordAt, Unrecorded
<1>5. PassRecord'
  BY BotFacts DEF PassRecord, PassRecordAt, InPass
<1>6. DownIsQuiet'
  BY DEF DownIsQuiet
<1>7. RepoRunHeld'
  BY DEF RepoRunHeld
<1>8. LostWorkHeld'
  BY DEF LostWorkHeld, TypeOK
<1>9. QED  BY <1>1, <1>2, <1>3, <1>4, <1>5, <1>6, <1>7, <1>8

\* Once the process is gone nothing is open but what state.json says; what was
\* in flight had been recorded there.
LEMMA LoseProcessStep ==
    ASSUME DispatchInv, LoseProcess, TypeOK', UNCHANGED <<run, recovery>>,
           lost' \subseteq lost \cup {b \in Bots : Unsettled(b)}
    PROVE  DispatchInv'
<1> USE DEF DispatchInv
<1>1. RunningPlaces' /\ ModePlaces' /\ DownIsQuiet' /\ RepoRunHeld'
  BY BotFacts
     DEF LoseProcess, RunningPlaces, ModePlaces, ModeAt, DownIsQuiet,
         RepoRunHeld
<1>2. GateHolder'
  BY BotFacts DEF LoseProcess, GateHolder, HoldsGate
<1>3. AgentRecord'
  BY DEF LoseProcess, AgentRecord, AgentRecordAt, Unrecorded
<1>4. PassRecord'
  BY BotFacts DEF LoseProcess, PassRecord, PassRecordAt
<1>5. LostWorkHeld'
  <2> SUFFICES ASSUME NEW b \in Bots, Unsettled(b)
               PROVE  run[b] \in Targets \/ recovery[b] # None
    BY DEF LostWorkHeld, TypeOK
  <2>1. ModeAt(b) /\ PassRecordAt(b, <<b[1], Repo>>)
    BY DEF ModePlaces, PassRecord
  <2>2. CASE b[2] = Repo
    BY <2>1, <2>2, BotFacts DEF Unsettled, ModeAt, PassRecordAt, InPass
  <2>3. CASE b[2] # Repo
    BY <2>1, <2>3, BotFacts DEF Unsettled, ModeAt, AgentRecord, AgentRecordAt
  <2>4. QED  BY <2>2, <2>3
<1>6. QED  BY <1>1, <1>2, <1>3, <1>4, <1>5

\* Open settles every record, as a hold when it may have had an effect.
LEMMA OpenStep ==
    ASSUME DispatchInv, Open, TypeOK'
    PROVE  DispatchInv'
<1> USE DEF DispatchInv
<1>1. \A b \in Bots : pc[b] = "idle" /\ pc'[b] = "idle"
  BY DEF Open, DownIsQuiet, RunningPlaces
<1>2. RunningPlaces' /\ ModePlaces' /\ DownIsQuiet' /\ RepoRunHeld'
  BY <1>1, BotFacts
     DEF Open, RunningPlaces, ModePlaces, ModeAt, DownIsQuiet, RepoRunHeld
<1>3. GateHolder'
  BY <1>1 DEF Open, GateHolder, HoldsGate, DownIsQuiet
<1>4. AgentRecord'
  BY <1>1, BotFacts DEF Open, AgentRecord, AgentRecordAt, Unrecorded
<1>5. PassRecord'
  BY <1>1, BotFacts DEF Open, PassRecord, PassRecordAt
<1>6. LostWorkHeld'
  BY BotFacts DEF Open, LostWorkHeld, Recovered, TypeOK
<1>7. QED  BY <1>2, <1>3, <1>4, <1>5, <1>6

\* A reservation finds nothing open for an agent.
LEMMA ReserveStep ==
    ASSUME DispatchInv, NEW b \in Bots, Reserve(b), TypeOK'
    PROVE  DispatchInv'
<1> USE DEF DispatchInv
<1>1. pc[b] = "idle" /\ pc' = [pc EXCEPT ![b] = "reserved"]
      /\ UNCHANGED <<mode, gate, run, recovery, lost, outcome, phase>>
  BY DEF Reserve, RunningPlaces, durable
<1>2. RunningPlaces' /\ DownIsQuiet'
  BY DEF Reserve, RunningPlaces, DownIsQuiet, TypeOK
<1>3. ModePlaces'
  BY <1>1 DEF ModePlaces, ModeAt, TypeOK
<1>4. \A c \in Bots : HoldsGate(c)' = HoldsGate(c)
  BY <1>1 DEF HoldsGate, InPass, TypeOK
<1>5. GateHolder'
  <2>1. \A t \in Towns : gate[t] # None => HoldsGate(gate[t])' = HoldsGate(gate[t])
    BY <1>1 DEF HoldsGate, InPass, TypeOK
  <2>2. QED  BY <1>1, <1>4, <2>1 DEF GateHolder
<1>6. AgentRecord'
  BY <1>1 DEF Reserve, Eligible, AgentRecord, AgentRecordAt, Unrecorded, TypeOK
<1>7. PassRecord'
  BY <1>1 DEF PassRecord, PassRecordAt, InPass, TypeOK
<1>8. RepoRunHeld' /\ LostWorkHeld'
  <2>1. \A t \in Towns : gate[t] # None /\ pc[gate[t]] # "idle" => pc'[gate[t]] = pc[gate[t]]
    BY <1>1 DEF TypeOK
  <2>2. QED  BY <1>1, <2>1 DEF RepoRunHeld, LostWorkHeld
<1>9. QED  BY <1>2, <1>3, <1>5, <1>6, <1>7, <1>8

LEMMA DispatchInvInit == Init => DispatchInv
<1> SUFFICES ASSUME Init PROVE DispatchInv
  OBVIOUS
<1>1. TypeOK
  BY InitType
<1>2. RunningPlaces /\ ModePlaces /\ DownIsQuiet /\ RepoRunHeld /\ LostWorkHeld
  BY BotFacts
     DEF Init, RunningPlaces, ModePlaces, ModeAt, DownIsQuiet, RepoRunHeld,
                  LostWorkHeld
<1>3. GateHolder /\ AgentRecord /\ PassRecord
  BY BotFacts DEF Init, GateHolder, HoldsGate, AgentRecord, AgentRecordAt, Unrecorded,
                  PassRecord, PassRecordAt
<1>4. QED  BY <1>1, <1>2, <1>3 DEF DispatchInv

\* A goroutine and its entry in s.running come and go together.
LEMMA RunningPlacesStep ==
    ASSUME TypeOK, RunningPlaces, [Next]_vars
    PROVE  RunningPlaces'
<1>1. CASE \E b \in Bots : Reserve(b)
  BY <1>1 DEF Reserve, RunningPlaces, TypeOK
<1>2. ASSUME NEW b \in Bots, RunStep(b) PROVE RunningPlaces'
  <2>1. CASE Leave(b)
    BY <2>1 DEF Leave, RunningPlaces, TypeOK
  <2>2. CASE pc'[b] # "idle" /\ running' = running
    BY <1>2, <2>2, RunStepLocal DEF RunningPlaces
  <2>3. QED  BY <1>2, <2>1, <2>2, RunStepLocal
<1>3. CASE Operator
  BY <1>3, OperatorFrame DEF RunningPlaces
<1>4. CASE Exit \/ Crash
  BY <1>4 DEF Exit, Crash, LoseProcess, RunningPlaces
<1>5. CASE (\E t \in Towns : Hold(t)) \/ Shutdown \/ Open \/ UNCHANGED vars
  BY <1>5 DEF Hold, Shutdown, Open, vars, durable, volatile, RunningPlaces
<1>6. QED
  BY <1>1, <1>2, <1>3, <1>4, <1>5 DEF Next

LEMMA DispatchInvStep ==
    ASSUME "gate" \notin Faults, PanicsUnrecorded, DispatchInv, [Next]_vars
    PROVE  DispatchInv'
<1>0. TypeOK'
  BY TypeStep DEF DispatchInv
<1>1. CASE \E b \in Bots : Reserve(b)
  BY <1>0, <1>1, ReserveStep
<1>2. CASE \E b \in Bots : RunStep(b)
  <2>1. PICK b \in Bots : RunStep(b)
    BY <1>2
  <2>2. phase' = phase /\ pc[b] # "idle" /\ phase # "down"
    BY <2>1, RunStepLocal DEF DispatchInv, DownIsQuiet, RunningPlaces
  <2>3. RunningPlaces'
    BY RunningPlacesStep DEF DispatchInv
  <2>4. DownIsQuiet'
    BY <2>2 DEF DownIsQuiet
  <2>5. ModePlaces' /\ GateHolder' /\ AgentRecord'
    BY <2>1, RunStepMode, RunStepGate, RunStepAgent DEF DispatchInv
  <2>6. PassRecord' /\ RepoRunHeld' /\ LostWorkHeld'
    BY <2>1, <2>2, RunStepPassRecord, RunStepHolder, RunStepLost
       DEF DispatchInv, ObservationUnsaved
  <2>7. QED  BY <1>0, <2>3, <2>4, <2>5, <2>6 DEF DispatchInv
<1>3. CASE Operator
  BY <1>0, <1>3, OperatorFrame, OperatorRecords, QuietStep DEF DispatchInv
<1>4. CASE \E t \in Towns : Hold(t)
  BY <1>0, <1>4, QuietStep DEF Hold, volatile
<1>5. CASE Shutdown
  BY <1>0, <1>5, QuietStep DEF Shutdown, durable
<1>6. CASE Exit
  BY <1>0, <1>6, LoseProcessStep DEF Exit, durable
<1>7. CASE Crash
  BY <1>0, <1>7, LoseProcessStep DEF Crash, durable
<1>8. CASE Open
  BY <1>0, <1>8, OpenStep
<1>9. CASE UNCHANGED vars
  BY <1>0, <1>9, QuietStep DEF vars, durable, volatile
<1>10. QED
  BY <1>1, <1>2, <1>3, <1>4, <1>5, <1>6, <1>7, <1>8, <1>9 DEF Next

-----------------------------------------------------------------------------
\* As long as the commit made under the gate can be trusted, work that may have
\* landed is never forgotten, across any number of stops, failed final commits,
\* crashes and restarts, and panics while nothing is recorded of the dispatch
\* (recoverWorkerRun, execute, reconcile, Open).
THEOREM LostWorkIsHeld ==
    ASSUME "gate" \notin Faults, PanicsUnrecorded
    PROVE  Spec => []LostWorkHeld
<1>1. DispatchInv /\ [Next]_vars => DispatchInv'
  BY DispatchInvStep
<1>2. DispatchInv => LostWorkHeld
  BY DEF DispatchInv
<1>3. QED
  BY DispatchInvInit, <1>1, <1>2, PTL DEF Spec

\* As long as every save under the gate succeeds and nothing panics between a
\* dispatch record and that save, the open Run of the repo worker belongs to the pass that holds the gate (reconcile).
THEOREM RepoRunIsHeld ==
    ASSUME "gate" \notin Faults, PanicsUnrecorded
    PROVE  Spec => []RepoRunHeld
<1>1. DispatchInv /\ [Next]_vars => DispatchInv'
  BY DispatchInvStep
<1>2. DispatchInv => RepoRunHeld
  BY DEF DispatchInv
<1>3. QED
  BY DispatchInvInit, <1>1, <1>2, PTL DEF Spec

-----------------------------------------------------------------------------
(***************************************************************************)
(* The same whatever save fails: from the failure to the restart it forces  *)
(* nothing is claimed, and the restart begins anew.                         *)
(***************************************************************************)
HolderInv ==
    /\ TypeOK /\ RunningPlaces /\ ModePlaces /\ GateHolder /\ DownIsQuiet
    /\ fatal \/ RepoRunHeld

\* Within a process an error that stops the service is not taken back.
LEMMA FatalStays ==
    ASSUME fatal, NEW b \in Bots, RunStep(b) \/ Reserve(b) PROVE fatal'
<1>1. CASE \/ StartCanceled(b) \/ StartHeld(b) \/ StartCommit(b) \/ EndBeforeSending(b)
           \/ ConfirmMerge(b) \/ ClaimRepair(b) \/ EnterGate(b) \/ LeaveGateQueue(b)
  BY <1>1 DEF StartCanceled, StartHeld, StartCommit, EndBeforeSending, ConfirmMerge,
     ClaimRepair, EnterGate, LeaveGateQueue
<1>2. CASE \/ PassFails(b) \/ RecordRun(b) \/ Send(b) \/ CancelBeforeSend(b) \/ Answer(b)
           \/ LoseAnswer(b) \/ CommitObservation(b) \/ ObservationUnsaved(b)
  BY <1>2 DEF PassFails, RecordRun, Send, CancelBeforeSend, Answer, LoseAnswer,
     CommitObservation, ObservationUnsaved
<1>3. CASE \/ ApplyInventory(b) \/ ImportIssueEvidence(b) \/ EndPass(b) \/ RunPanics(b)
           \/ FinalCommit(b) \/ FinalUnsaved(b) \/ Leave(b) \/ Reserve(b)
  BY <1>3 DEF ApplyInventory, ImportIssueEvidence, EndPass, RunPanics, FinalCommit,
     FinalUnsaved, Leave, Reserve, volatile
<1>4. QED  BY <1>1, <1>2, <1>3 DEF RunStep

LEMMA HolderInvRests ==
    ASSUME HolderInv, UNCHANGED <<running, gate, pc, mode, run>>, fatal => fatal',
           phase' = "down" <=> phase = "down", TypeOK'
    PROVE  HolderInv'
<1> USE DEF HolderInv
<1>1. RunningPlaces' /\ ModePlaces' /\ GateHolder' /\ DownIsQuiet'
  BY DEF RunningPlaces, ModePlaces, ModeAt, GateHolder, HoldsGate, InPass, DownIsQuiet
<1>2. fatal' \/ RepoRunHeld'
  BY DEF RepoRunHeld
<1>3. QED  BY <1>1, <1>2

LEMMA HolderInvStep ==
    ASSUME HolderInv, PanicsUnrecorded, [Next]_vars
    PROVE  HolderInv'
<1> USE DEF HolderInv
<1>0. TypeOK'
  BY TypeStep
<1>1. ASSUME NEW b \in Bots, Reserve(b) PROVE HolderInv'
  <2>1. /\ pc[b] = "idle" /\ pc' = [pc EXCEPT ![b] = "reserved"] /\ phase = "up"
        /\ running' = running \cup {b}
        /\ UNCHANGED <<phase, fatal, gate, mode, run>>
    BY <1>1 DEF Reserve, RunningPlaces, durable
  <2>2. RunningPlaces' /\ DownIsQuiet'
    BY <2>1 DEF RunningPlaces, DownIsQuiet, TypeOK
  <2>3. ModePlaces'
    BY <2>1 DEF ModePlaces, ModeAt, TypeOK
  <2>4. \A t \in Towns : gate[t] # None => gate[t] \in Bots /\ gate[t] # b
                                           /\ pc'[gate[t]] = pc[gate[t]]
    <3>1. /\ gate \in [Towns -> Bots \cup {None}] /\ DOMAIN pc = Bots
          /\ \A t \in Towns : gate[t] # None => HoldsGate(gate[t])
      BY DEF GateHolder, TypeOK
    <3>2. ~HoldsGate(b)
      BY <2>1 DEF HoldsGate
    <3> HIDE DEF HolderInv
    <3>3. ASSUME NEW t \in Towns, gate[t] # None
          PROVE  gate[t] \in Bots /\ gate[t] # b
      BY <3>1, <3>2, <3>3
    <3>4. \A c \in Bots : c # b => pc'[c] = pc[c]
      BY <2>1, <3>1
    <3> QED  BY <3>3, <3>4
  <2>5. GateHolder'
    BY <2>1, <2>4 DEF GateHolder, HoldsGate, InPass, TypeOK
  <2>6. fatal' \/ RepoRunHeld'
    BY <2>1, <2>4 DEF RepoRunHeld
  <2>7. QED  BY <1>0, <2>2, <2>3, <2>5, <2>6
<1>2. ASSUME NEW b \in Bots, RunStep(b) PROVE HolderInv'
  <2>1. phase' = phase /\ pc[b] # "idle" /\ phase # "down"
    BY <1>2, RunStepLocal DEF DownIsQuiet, RunningPlaces
  <2>2. RunningPlaces' /\ DownIsQuiet'
    BY <2>1, RunningPlacesStep DEF DownIsQuiet
  <2>3. ModePlaces' /\ GateHolder'
    BY <1>2, <2>1, RunStepMode, RunStepGate
  <2>4. fatal' \/ RepoRunHeld'
    <3>1. CASE ObservationUnsaved(b)
      BY <3>1 DEF ObservationUnsaved
    <3>2. CASE ~ObservationUnsaved(b) /\ fatal
      BY <1>2, <3>2, FatalStays
    <3>3. CASE ~ObservationUnsaved(b) /\ ~fatal
      BY <1>2, <2>1, <3>3, RunStepHolder
    <3>4. QED  BY <3>1, <3>2, <3>3
  <2>5. QED  BY <1>0, <2>2, <2>3, <2>4
<1>3. CASE Operator
  <2>1. run' = run /\ UNCHANGED <<phase, running, gate, pc, mode>>
    BY <1>3, OperatorFrame, OperatorRecords
  <2>2. fatal' = fatal
    BY <1>3 DEF Operator, Retry, RetryIssueCommit, Start, Pause, Stop, Decide, RetryIssueBegin,
       RetryIssueStop, RetryIssueFails, Delete, Restore, BeginStorage, EndStorage,
       SetCapacity, StopCancels, volatile
  <2>3. QED  BY <1>0, <2>1, <2>2, HolderInvRests
<1>4. CASE (\E t \in Towns : Hold(t)) \/ UNCHANGED vars
  BY <1>0, <1>4, HolderInvRests DEF Hold, vars, durable, volatile
<1>5. CASE Shutdown
  BY <1>0, <1>5, HolderInvRests DEF Shutdown, durable
<1>6. CASE Exit \/ Crash
  <2>1. LoseProcess
    BY <1>6 DEF Exit, Crash
  <2>2. RunningPlaces' /\ ModePlaces' /\ DownIsQuiet' /\ RepoRunHeld'
    BY <2>1, BotFacts
       DEF LoseProcess, RunningPlaces, ModePlaces, ModeAt, DownIsQuiet, RepoRunHeld
  <2>3. GateHolder'
    BY <2>1, BotFacts DEF LoseProcess, GateHolder, HoldsGate
  <2>4. QED  BY <1>0, <2>2, <2>3
<1>7. CASE Open
  <2>1. \A b \in Bots : pc[b] = "idle" /\ pc'[b] = "idle"
    BY <1>7 DEF Open, DownIsQuiet, RunningPlaces
  <2>2. RunningPlaces' /\ ModePlaces' /\ DownIsQuiet' /\ RepoRunHeld'
    BY <1>7, <2>1, BotFacts
       DEF Open, RunningPlaces, ModePlaces, ModeAt, DownIsQuiet, RepoRunHeld
  <2>3. GateHolder'
    BY <1>7, <2>1 DEF Open, GateHolder, HoldsGate, DownIsQuiet
  <2>4. QED  BY <1>0, <2>2, <2>3
<1>8. QED
  BY <1>1, <1>2, <1>3, <1>4, <1>5, <1>6, <1>7 DEF Next

\* No pass replaces the recorded identity of another: whatever save fails, the
\* open Run of the repo worker belongs to the pass that holds the gate, unless
\* the failure has already stopped the service; a panic between the record and
\* the save under the gate is excluded: it leaves the Run to nobody (reconcile,
\* fatal, execute).
THEOREM RepoRunIsOwned ==
    ASSUME PanicsUnrecorded
    PROVE  Spec => []RepoRunHasHolder
<1>1. Init => HolderInv
  BY DispatchInvInit DEF DispatchInv, HolderInv
<1>2. HolderInv /\ [Next]_vars => HolderInv'
  BY HolderInvStep
<1>3. HolderInv => RepoRunHasHolder
  BY DEF HolderInv, RepoRunHeld, RepoRunHasHolder
<1>4. QED
  BY <1>1, <1>2, <1>3, PTL DEF Spec

-----------------------------------------------------------------------------
(***************************************************************************)
(* What is seen of Dispatch from outside a run: the agent slots, whose pool *)
(* is never enlarged past its limit; what the operator and the storage      *)
(* cleanup see, a status that says a bot is busy and a town without runs;   *)
(* and the contract of Attempts, which Dispatch implements.  The slots, the *)
(* status and the cleanup are shown without trusting any commit, so they    *)
(* need none of the records of DispatchInv; its full invariant is stated    *)
(* here as well, and the contract rests on it.                              *)
(***************************************************************************)

(***************************************************************************)
(* The slots.                                                               *)
(***************************************************************************)

\* A repair holds its slot from the claim to the end of its pass.
RepairPlaces == \A t \in repairing :
    LET w == <<t, Repo>> IN
    /\ claim[t]
    /\ w \in running /\ pc[w] \in Places \ {"idle", "reserved", "started", "finished", "leaving"}

LEMMA RepairPlacesStep ==
    ASSUME Panics = {}, TypeOK, RunningPlaces, RepairPlaces, [Next]_vars
    PROVE  RepairPlaces'
<1>1. CASE \E b \in Bots : RunStep(b)
  <2>1. PICK b \in Bots : RunStep(b)
    BY <1>1
  <2> DEFINE w == <<b[1], Repo>>
  <2>2. b[1] \in Towns /\ (b[2] = Repo => b = w)
    BY BotFacts
  <2>3. ASSUME NEW t \in repairing', t # b[1]
        PROVE  t \in repairing /\ claim'[t] = claim[t] /\ pc'[<<t, Repo>>] = pc[<<t, Repo>>]
               /\ <<t, Repo>> \in running'
    <3>1. <<t, Repo>> # b /\ <<t, Repo>> \in Bots /\ t \in Towns
      BY <2>1, <2>3, BotFacts, TypeStep DEF TypeOK
    <3>2. t \in repairing /\ claim'[t] = claim[t]
      <4>1. CASE StartCanceled(b)
        BY <4>1, <2>3, <3>1, <2>2 DEF TypeOK, StartCanceled, durable
      <4>2. CASE StartHeld(b)
        BY <4>2, <2>3, <3>1, <2>2 DEF TypeOK, StartHeld
      <4>3. CASE StartCommit(b)
        BY <4>3, <2>3, <3>1, <2>2 DEF TypeOK, StartCommit
      <4>4. CASE EndBeforeSending(b)
        BY <4>4, <2>3, <3>1, <2>2 DEF TypeOK, EndBeforeSending, durable
      <4>5. CASE ConfirmMerge(b)
        BY <4>5, <2>3, <3>1, <2>2 DEF TypeOK, ConfirmMerge, durable
      <4>6. CASE ClaimRepair(b)
        BY <4>6, <2>3, <3>1, <2>2 DEF TypeOK, ClaimRepair, durable
      <4>7. CASE EnterGate(b)
        BY <4>7, <2>3, <3>1, <2>2 DEF TypeOK, EnterGate, durable
      <4>8. CASE LeaveGateQueue(b)
        BY <4>8, <2>3, <3>1, <2>2 DEF TypeOK, LeaveGateQueue, durable
      <4>9. CASE PassFails(b)
        BY <4>9, <2>3, <3>1, <2>2 DEF TypeOK, PassFails, durable
      <4>10. CASE RecordRun(b)
        BY <4>10, <2>3, <3>1, <2>2 DEF TypeOK, RecordRun
      <4>11. CASE Send(b)
        BY <4>11, <2>3, <3>1, <2>2 DEF TypeOK, Send, durable
      <4>12. CASE CancelBeforeSend(b)
        BY <4>12, <2>3, <3>1, <2>2 DEF TypeOK, CancelBeforeSend, durable
      <4>13. CASE Answer(b)
        BY <4>13, <2>3, <3>1, <2>2 DEF TypeOK, Answer, durable
      <4>14. CASE LoseAnswer(b)
        BY <4>14, <2>3, <3>1, <2>2 DEF TypeOK, LoseAnswer, durable
      <4>15. CASE CommitObservation(b)
        BY <4>15, <2>3, <3>1, <2>2 DEF TypeOK, CommitObservation
      <4>16. CASE ObservationUnsaved(b)
        BY <4>16, <2>3, <3>1, <2>2 DEF TypeOK, ObservationUnsaved, durable
      <4>17. CASE ApplyInventory(b)
        BY <4>17, <2>3, <3>1, <2>2 DEF TypeOK, ApplyInventory
      <4>18. CASE ImportIssueEvidence(b)
        BY <4>18, <2>3, <3>1, <2>2 DEF TypeOK, ImportIssueEvidence, volatile
      <4>19. CASE EndPass(b)
        BY <4>19, <2>3, <3>1, <2>2 DEF TypeOK, EndPass, durable
      <4>20. CASE RunPanics(b)
        BY <4>20 DEF RunPanics
      <4>21. CASE FinalCommit(b)
        BY <4>21, <2>3, <3>1, <2>2 DEF TypeOK, FinalCommit, RunCleared
      <4>22. CASE FinalUnsaved(b)
        BY <4>22, <2>3, <3>1, <2>2 DEF TypeOK, FinalUnsaved, durable
      <4>23. CASE Leave(b)
        BY <4>23, <2>3, <3>1, <2>2 DEF TypeOK, Leave, durable
      <4>24. QED
        BY <2>1, <4>1, <4>2, <4>3, <4>4, <4>5, <4>6, <4>7, <4>8, <4>9, <4>10, <4>11,
        <4>12, <4>13, <4>14, <4>15, <4>16, <4>17, <4>18, <4>19, <4>20, <4>21,
        <4>22, <4>23 DEF RunStep
    <3>3. <<t, Repo>> \in running'
      BY <2>1, <3>1, <3>2, RunStepLocal DEF RepairPlaces, Leave
    <3>4. QED  BY <2>1, <3>1, <3>2, <3>3, RunStepLocal
  <2>4. ASSUME b[1] \in repairing'
        PROVE  /\ claim'[b[1]] /\ w \in running'
               /\ pc'[w] \in Places \ {"idle", "reserved", "started", "finished", "leaving"}
    <3>1. b[1] \in repairing => /\ claim[b[1]] /\ w \in running
              /\ pc[w] \in Places \ {"idle", "reserved", "started", "finished", "leaving"}
      BY DEF RepairPlaces
    <3> w \in Bots
      BY BotFacts
    <3>31. CASE StartCanceled(b)
      BY <3>31, <2>4, <2>2, <3>1
         DEF TypeOK, RunningPlaces, Places, StartCanceled, durable
    <3>2. CASE StartHeld(b)
      BY <3>2, <2>4, <2>2, <3>1 DEF TypeOK, RunningPlaces, Places, StartHeld
    <3>3. CASE StartCommit(b)
      BY <3>3, <2>4, <2>2, <3>1 DEF TypeOK, RunningPlaces, Places, StartCommit
    <3>4. CASE EndBeforeSending(b)
      BY <3>4, <2>4, <2>2, <3>1
         DEF TypeOK, RunningPlaces, Places, EndBeforeSending, durable
    <3>5. CASE ConfirmMerge(b)
      BY <3>5, <2>4, <2>2, <3>1
         DEF TypeOK, RunningPlaces, Places, ConfirmMerge, durable
    <3>6. CASE ClaimRepair(b)
      BY <3>6, <2>4, <2>2, <3>1
         DEF TypeOK, RunningPlaces, Places, ClaimRepair, durable
    <3>7. CASE EnterGate(b)
      BY <3>7, <2>4, <2>2, <3>1 DEF TypeOK, RunningPlaces, Places, EnterGate, durable
    <3>8. CASE LeaveGateQueue(b)
      BY <3>8, <2>4, <2>2, <3>1
         DEF TypeOK, RunningPlaces, Places, LeaveGateQueue, durable
    <3>9. CASE PassFails(b)
      BY <3>9, <2>4, <2>2, <3>1 DEF TypeOK, RunningPlaces, Places, PassFails, durable
    <3>10. CASE RecordRun(b)
      BY <3>10, <2>4, <2>2, <3>1 DEF TypeOK, RunningPlaces, Places, RecordRun
    <3>11. CASE Send(b)
      BY <3>11, <2>4, <2>2, <3>1 DEF TypeOK, RunningPlaces, Places, Send, durable
    <3>12. CASE CancelBeforeSend(b)
      BY <3>12, <2>4, <2>2, <3>1
         DEF TypeOK, RunningPlaces, Places, CancelBeforeSend, durable, AfterAnswer,
             InPass
    <3>13. CASE Answer(b)
      BY <3>13, <2>4, <2>2, <3>1
         DEF TypeOK, RunningPlaces, Places, Answer, durable, AfterAnswer, InPass
    <3>14. CASE LoseAnswer(b)
      BY <3>14, <2>4, <2>2, <3>1
         DEF TypeOK, RunningPlaces, Places, LoseAnswer, durable, AfterAnswer,
             InPass
    <3>15. CASE CommitObservation(b)
      BY <3>15, <2>4, <2>2, <3>1 DEF TypeOK, RunningPlaces, Places, CommitObservation
    <3>16. CASE ObservationUnsaved(b)
      BY <3>16, <2>4, <2>2, <3>1
         DEF TypeOK, RunningPlaces, Places, ObservationUnsaved, durable
    <3>17. CASE ApplyInventory(b)
      BY <3>17, <2>4, <2>2, <3>1 DEF TypeOK, RunningPlaces, Places, ApplyInventory
    <3>18. CASE ImportIssueEvidence(b)
      BY <3>18, <2>4, <2>2, <3>1
         DEF TypeOK, RunningPlaces, Places, ImportIssueEvidence, volatile
    <3>19. CASE EndPass(b)
      BY <3>19, <2>4, <2>2, <3>1 DEF TypeOK, RunningPlaces, Places, EndPass, durable
    <3>20. CASE RunPanics(b)
      BY <3>20 DEF RunPanics
    <3>21. CASE FinalCommit(b)
      BY <3>21, <2>4, <2>2, <3>1
         DEF TypeOK, RunningPlaces, Places, FinalCommit, RunCleared
    <3>22. CASE FinalUnsaved(b)
      BY <3>22, <2>4, <2>2, <3>1
         DEF TypeOK, RunningPlaces, Places, FinalUnsaved, durable
    <3>23. CASE Leave(b)
      BY <3>23, <2>4, <2>2, <3>1 DEF TypeOK, RunningPlaces, Places, Leave, durable
    <3>24. QED
      BY <2>1, <3>31, <3>2, <3>3, <3>4, <3>5, <3>6, <3>7, <3>8, <3>9, <3>10, <3>11,
      <3>12, <3>13, <3>14, <3>15, <3>16, <3>17, <3>18, <3>19, <3>20, <3>21,
      <3>22, <3>23 DEF RunStep
  <2>5. QED  BY <2>3, <2>4 DEF RepairPlaces
<1>2. CASE \E b \in Bots : Reserve(b)
  BY <1>2, BotFacts DEF Reserve, RepairPlaces, RunningPlaces, TypeOK
<1>3. CASE Operator
  <2>1. UNCHANGED <<repairing, claim, running, pc>>
    BY <1>3 DEF Operator, Retry, RetryIssueCommit, Start, Pause, Stop, Decide,
       RetryIssueBegin, RetryIssueStop, RetryIssueFails, Delete, Restore, BeginStorage,
       EndStorage, SetCapacity, StopCancels, volatile
  <2>2. QED  BY <2>1 DEF RepairPlaces
<1>4. CASE Exit \/ Crash
  BY <1>4 DEF Exit, Crash, LoseProcess, RepairPlaces
<1>5. CASE (\E t \in Towns : Hold(t)) \/ Shutdown \/ Open \/ UNCHANGED vars
  BY <1>5 DEF Hold, Shutdown, Open, vars, durable, volatile, RepairPlaces
<1>6. QED
  BY <1>1, <1>2, <1>3, <1>4, <1>5 DEF Next

LEMMA FiniteBots == IsFiniteSet(Bots)
<1>1. IsFiniteSet(Roles)
  BY ConstantsAssumption, FS_AddElement DEF Roles
<1>2. QED
  BY <1>1, ConstantsAssumption, FS_Product DEF Bots

LEMMA FewerActive ==
    ASSUME running' \subseteq running, repairing' \subseteq repairing
    PROVE  Active' \subseteq Active
BY DEF Active

\* One more run needs one more slot, and the check found one.
LEMMA OneMoreActive ==
    ASSUME TypeOK, SlotFree, NEW b, Active' \subseteq Active \cup {b}, limit' = limit
    PROVE  Cardinality(Active') <= limit'
<1>1. IsFiniteSet(Active)
  BY FiniteBots, FS_Subset DEF Active, TypeOK
<1>2. IsFiniteSet(Active \cup {b}) /\ Cardinality(Active \cup {b}) <= Cardinality(Active) + 1
      /\ Cardinality(Active) \in Nat
  BY <1>1, FS_AddElement, FS_CardinalityType
<1>3. Cardinality(Active') <= Cardinality(Active \cup {b}) /\ Cardinality(Active') \in Nat
  BY <1>2, FS_Subset, FS_CardinalityType
<1>4. Cardinality(Active \cup {b}) \in Nat /\ limit \in Nat
  BY <1>2, FS_CardinalityType, ConstantsAssumption DEF TypeOK
<1>5. QED
  BY <1>2, <1>3, <1>4 DEF SlotFree

LEMMA SlotsStep ==
    ASSUME Panics = {}, TypeOK, RunningPlaces, RepairPlaces, [Next]_vars
    PROVE  Active' \subseteq Active \/ Cardinality(Active') <= limit'
<1>1. CASE \E b \in Bots : Reserve(b)
  <2>1. PICK b \in Bots : Reserve(b)
    BY <1>1
  <2>2. Active' \subseteq Active \cup {b} /\ limit' = limit
    BY <2>1 DEF Reserve, Active, durable
  <2>3. CASE b[2] = Repo
    <3>1. b[1] \notin repairing
      BY <2>1, <2>3, BotFacts DEF Reserve, RepairPlaces
    <3>2. QED  BY <2>1, <2>3, <3>1 DEF Reserve, Active
  <2>4. CASE b[2] # Repo
    BY <2>1, <2>2, <2>4, OneMoreActive DEF Reserve
  <2>5. QED  BY <2>3, <2>4
<1>2. CASE \E b \in Bots : RunStep(b)
  <2>1. PICK b \in Bots : RunStep(b)
    BY <1>2
  <2>2. running' \subseteq running
    BY <2>1, RunStepLocal DEF Leave
  <2>3. CASE ClaimRepair(b) /\ SlotFree
    <3>1. Active' \subseteq Active \cup {b} /\ limit' = limit
      <4>1. \A c \in running : c[2] = Repo /\ c[1] = b[1] => c = b
        BY <2>1, <2>3, BotFacts DEF ClaimRepair, TypeOK
      <4>2. QED
        BY <2>1, <2>3, <4>1, BotFacts DEF ClaimRepair, Active, durable
    <3>2. QED  BY <2>3, <3>1, OneMoreActive
  <2>4. CASE ~(ClaimRepair(b) /\ SlotFree)
    <3>1. repairing' \subseteq repairing
      <4>1. CASE StartCanceled(b)
        BY <4>1, <2>4 DEF StartCanceled, durable
      <4>2. CASE StartHeld(b)
        BY <4>2, <2>4 DEF StartHeld
      <4>3. CASE StartCommit(b)
        BY <4>3, <2>4 DEF StartCommit
      <4>4. CASE EndBeforeSending(b)
        BY <4>4, <2>4 DEF EndBeforeSending, durable
      <4>5. CASE ConfirmMerge(b)
        BY <4>5, <2>4 DEF ConfirmMerge, durable
      <4>6. CASE ClaimRepair(b)
        BY <4>6, <2>4 DEF ClaimRepair, durable
      <4>7. CASE EnterGate(b)
        BY <4>7, <2>4 DEF EnterGate, durable
      <4>8. CASE LeaveGateQueue(b)
        BY <4>8, <2>4 DEF LeaveGateQueue, durable
      <4>9. CASE PassFails(b)
        BY <4>9, <2>4 DEF PassFails, durable
      <4>10. CASE RecordRun(b)
        BY <4>10, <2>4 DEF RecordRun, RunOwner
      <4>11. CASE Send(b)
        BY <4>11, <2>4 DEF Send, durable
      <4>12. CASE CancelBeforeSend(b)
        BY <4>12, <2>4 DEF CancelBeforeSend, durable
      <4>13. CASE Answer(b)
        BY <4>13, <2>4 DEF Answer, durable
      <4>14. CASE LoseAnswer(b)
        BY <4>14, <2>4 DEF LoseAnswer, durable
      <4>15. CASE CommitObservation(b)
        BY <4>15, <2>4 DEF CommitObservation
      <4>16. CASE ObservationUnsaved(b)
        BY <4>16, <2>4 DEF ObservationUnsaved, durable
      <4>17. CASE ApplyInventory(b)
        BY <4>17, <2>4 DEF ApplyInventory
      <4>18. CASE ImportIssueEvidence(b)
        BY <4>18, <2>4 DEF ImportIssueEvidence, volatile
      <4>19. CASE EndPass(b)
        BY <4>19, <2>4 DEF EndPass, durable
      <4>20. CASE RunPanics(b)
        BY <4>20 DEF RunPanics
      <4>21. CASE FinalCommit(b)
        BY <4>21, <2>4 DEF FinalCommit, RunCleared
      <4>22. CASE FinalUnsaved(b)
        BY <4>22, <2>4 DEF FinalUnsaved, durable
      <4>23. CASE Leave(b)
        BY <4>23, <2>4 DEF Leave, durable
      <4>24. QED
        BY <2>1, <4>1, <4>2, <4>3, <4>4, <4>5, <4>6, <4>7, <4>8, <4>9, <4>10, <4>11,
        <4>12, <4>13, <4>14, <4>15, <4>16, <4>17, <4>18, <4>19, <4>20, <4>21,
        <4>22, <4>23 DEF RunStep
    <3>2. QED  BY <2>2, <3>1, FewerActive
  <2>5. QED  BY <2>3, <2>4
<1>3. CASE Operator \/ (\E t \in Towns : Hold(t)) \/ Shutdown \/ Open \/ UNCHANGED vars
  <2>1. UNCHANGED <<running, repairing>>
    BY <1>3 DEF Operator, Retry, RetryIssueCommit, Start, Pause, Stop, Decide,
       RetryIssueBegin, RetryIssueStop, RetryIssueFails, Delete, Restore, BeginStorage,
       EndStorage, SetCapacity, StopCancels, Hold, Shutdown, Open, vars, volatile
  <2>2. QED  BY <2>1, FewerActive
<1>4. CASE Exit \/ Crash
  BY <1>4, FewerActive DEF Exit, Crash, LoseProcess
<1>5. QED
  BY <1>1, <1>2, <1>3, <1>4 DEF Next

\* No dispatch and no branch repair takes a slot beyond the limit in force, for
\* any number of towns, roles and concurrent runs, as long as no run panics
\* (schedule, claimRepair, activeWorkers).
THEOREM SlotsStayWithinLimit ==
    ASSUME Panics = {}
    PROVE  Spec => SlotsRespectLimit
<1> DEFINE SlotInv == TypeOK /\ RunningPlaces /\ RepairPlaces
<1>1. Init => SlotInv
  BY InitType, BotFacts DEF Init, RunningPlaces, RepairPlaces
<1>2. SlotInv /\ [Next]_vars => SlotInv'
  BY TypeStep, RunningPlacesStep, RepairPlacesStep
<1>3. SlotInv /\ [Next]_vars => [Active' \subseteq Active \/ Cardinality(Active') <= limit']_vars
  BY SlotsStep
<1>4. QED
  BY <1>1, <1>2, <1>3, PTL DEF Spec, SlotsRespectLimit

-----------------------------------------------------------------------------
(***************************************************************************)
(* Busy statuses.                                                           *)
(***************************************************************************)

Busy == {"working", "pausing"}

\* The inductive form of BusyStatusIsTrue: a status is busy only between the
\* start commit and the final one, unless a save has failed.
BusyPlaces ==
    phase # "down" /\ ~fatal =>
        \A b \in Bots : status[b] \in Busy => pc[b] \notin {"idle", "reserved", "leaving"}

\* A run's step writes the status of its own bot, or a resting one; only the
\* start commit makes a bot busy, and only a save that failed leaves it so.
LEMMA RunStepStatus ==
    ASSUME TypeOK, NEW b \in Bots, RunStep(b), BusyPlaces
    PROVE  BusyPlaces'
<1>1. CASE StartCanceled(b)
  BY <1>1, BotFacts DEF TypeOK, BusyPlaces, Busy, StartCanceled, durable
<1>2. CASE StartHeld(b)
  BY <1>2, BotFacts DEF TypeOK, BusyPlaces, Busy, StartHeld
<1>3. CASE StartCommit(b)
  BY <1>3, BotFacts DEF TypeOK, BusyPlaces, Busy, StartCommit
<1>4. CASE EndBeforeSending(b)
  BY <1>4, BotFacts DEF TypeOK, BusyPlaces, Busy, EndBeforeSending, durable
<1>5. CASE ConfirmMerge(b)
  BY <1>5, BotFacts DEF TypeOK, BusyPlaces, Busy, ConfirmMerge, durable
<1>6. CASE ClaimRepair(b)
  BY <1>6, BotFacts DEF TypeOK, BusyPlaces, Busy, ClaimRepair, durable
<1>7. CASE EnterGate(b)
  BY <1>7, BotFacts DEF TypeOK, BusyPlaces, Busy, EnterGate, durable
<1>8. CASE LeaveGateQueue(b)
  BY <1>8, BotFacts DEF TypeOK, BusyPlaces, Busy, LeaveGateQueue, durable
<1>9. CASE PassFails(b)
  BY <1>9, BotFacts DEF TypeOK, BusyPlaces, Busy, PassFails, durable
<1>10. CASE RecordRun(b)
  BY <1>10, BotFacts DEF TypeOK, BusyPlaces, Busy, RecordRun
<1>11. CASE Send(b)
  BY <1>11, BotFacts DEF TypeOK, BusyPlaces, Busy, Send, durable
<1>12. CASE CancelBeforeSend(b)
  BY <1>12, BotFacts DEF TypeOK, BusyPlaces, Busy, CancelBeforeSend, durable, AfterAnswer
<1>13. CASE Answer(b)
  BY <1>13, BotFacts DEF TypeOK, BusyPlaces, Busy, Answer, durable, AfterAnswer
<1>14. CASE LoseAnswer(b)
  BY <1>14, BotFacts DEF TypeOK, BusyPlaces, Busy, LoseAnswer, durable, AfterAnswer
<1>15. CASE CommitObservation(b)
  BY <1>15, BotFacts DEF TypeOK, BusyPlaces, Busy, CommitObservation
<1>16. CASE ObservationUnsaved(b)
  BY <1>16, BotFacts DEF TypeOK, BusyPlaces, Busy, ObservationUnsaved, durable
<1>17. CASE ApplyInventory(b)
  BY <1>17, BotFacts DEF TypeOK, BusyPlaces, Busy, ApplyInventory
<1>18. CASE ImportIssueEvidence(b)
  BY <1>18, BotFacts DEF TypeOK, BusyPlaces, Busy, ImportIssueEvidence, volatile, Resting
<1>19. CASE EndPass(b)
  BY <1>19, BotFacts DEF TypeOK, BusyPlaces, Busy, EndPass, durable
<1>20. CASE RunPanics(b)
  BY <1>20, PanicDoes, BotFacts DEF TypeOK, BusyPlaces, Busy, durable
<1>21. CASE FinalCommit(b)
  BY <1>21, BotFacts DEF TypeOK, BusyPlaces, Busy, FinalCommit, Resting
<1>22. CASE FinalUnsaved(b)
  BY <1>22, BotFacts DEF TypeOK, BusyPlaces, Busy, FinalUnsaved, durable
<1>23. CASE Leave(b)
  BY <1>23, BotFacts DEF TypeOK, BusyPlaces, Busy, Leave, durable
<1>24. QED
  BY <1>1, <1>2, <1>3, <1>4, <1>5, <1>6, <1>7, <1>8, <1>9, <1>10, <1>11, <1>12,
     <1>13, <1>14, <1>15, <1>16, <1>17, <1>18, <1>19, <1>20, <1>21, <1>22, <1>23 DEF RunStep

LEMMA BusyPlacesStep ==
    ASSUME TypeOK, RunningPlaces, BusyPlaces, [Next]_vars
    PROVE  BusyPlaces'
<1>1. CASE \E b \in Bots : Reserve(b)
  BY <1>1 DEF Reserve, RunningPlaces, BusyPlaces, TypeOK, durable
<1>2. CASE \E b \in Bots : RunStep(b)
  BY <1>2, RunStepStatus
<1>3. CASE Operator
  <2>1. UNCHANGED <<phase, pc, fatal>>
    BY <1>3, OperatorFrame
       DEF Operator, Retry, RetryIssueCommit, Start, Pause, Stop, Decide, RetryIssueBegin,
           RetryIssueStop, RetryIssueFails, Delete, Restore, BeginStorage, EndStorage,
           SetCapacity, StopCancels, volatile
  <2>2. \A b \in Bots : status'[b] \in Busy => status[b] \in Busy
    <3>1. CASE \E t \in Towns : \E k \in Tasks : Retry(t, k) \/ RetryIssueCommit(t, k)
      <4>1. PICK t \in Towns, k \in Tasks : ResetTask(t, k)
        BY <3>1 DEF Retry, RetryIssueCommit
      <4>2. Resting(<<t, house[t][k]>>) \in {"waiting", "paused"}
        BY DEF Resting
      <4>3. QED
        BY <4>1, <4>2 DEF ResetTask, Busy, TypeOK
    <3>2. CASE \E t \in Towns : \E S \in Commands : Start(t, S) \/ Pause(t, S) \/ Stop(t, S)
      BY <3>2 DEF Start, Pause, Stop, Busy, TypeOK
    <3>3. CASE \E t \in Towns : Delete(t) \/ Restore(t)
      BY <3>3 DEF Delete, Restore, Busy, TypeOK
    <3>4. CASE status' = status
      BY <3>4
    <3>5. QED
      BY <1>3, <3>1, <3>2, <3>3, <3>4
         DEF Operator, Decide, RetryIssueBegin, RetryIssueStop, RetryIssueFails,
             BeginStorage, EndStorage, SetCapacity, StopCancels, durable
  <2>3. QED  BY <2>1, <2>2 DEF BusyPlaces
<1>4. CASE Exit \/ Crash
  BY <1>4 DEF Exit, Crash, LoseProcess, BusyPlaces
<1>5. CASE Open
  BY <1>5 DEF Open, StatusAtOpen, Resting, BusyPlaces, Busy, TypeOK
<1>6. CASE (\E t \in Towns : Hold(t)) \/ Shutdown \/ UNCHANGED vars
  BY <1>6 DEF Hold, Shutdown, vars, durable, volatile, BusyPlaces
<1>7. QED
  BY <1>1, <1>2, <1>3, <1>4, <1>5, <1>6 DEF Next

\* Nobody is shown working or finishing who is not running, whatever commits
\* fail and whenever the process stops, dies and opens its file again
\* (execute, control, releaseWorker, Open).
THEOREM BusyStatusIsReal == Spec => []BusyStatusIsTrue
<1> DEFINE Inv == TypeOK /\ RunningPlaces /\ BusyPlaces
<1>1. Init => Inv
  BY InitType DEF Init, RunningPlaces, BusyPlaces, Busy
<1>2. Inv /\ [Next]_vars => Inv'
  BY TypeStep, RunningPlacesStep, BusyPlacesStep
<1>3. Inv => BusyStatusIsTrue
  BY DEF RunningPlaces, BusyPlaces, BusyStatusIsTrue, Busy
<1>4. QED
  BY <1>1, <1>2, <1>3, PTL DEF Spec

(***************************************************************************)
(* The storage cleanup.                                                     *)
(***************************************************************************)

\* A run changes the records of its own town's bots only, and no reservation.
LEMMA RunStepTown ==
    ASSUME TypeOK, NEW b \in Bots, RunStep(b)
    PROVE  /\ UNCHANGED <<storageBusy, retrying, enabled>> /\ running' \subseteq running
           /\ \A c \in Bots : c[1] # b[1] =>
                  /\ status'[c] = status[c] /\ run'[c] = run[c]
                  /\ recovery'[c] = recovery[c]
<1>1. CASE StartCanceled(b)
  BY <1>1, BotFacts DEF TypeOK, StartCanceled, durable
<1>2. CASE StartHeld(b)
  BY <1>2, BotFacts DEF TypeOK, StartHeld
<1>3. CASE StartCommit(b)
  BY <1>3, BotFacts DEF TypeOK, StartCommit
<1>4. CASE EndBeforeSending(b)
  BY <1>4, BotFacts DEF TypeOK, EndBeforeSending, durable
<1>5. CASE ConfirmMerge(b)
  BY <1>5, BotFacts DEF TypeOK, ConfirmMerge, durable
<1>6. CASE ClaimRepair(b)
  BY <1>6, BotFacts DEF TypeOK, ClaimRepair, durable
<1>7. CASE EnterGate(b)
  BY <1>7, BotFacts DEF TypeOK, EnterGate, durable
<1>8. CASE LeaveGateQueue(b)
  BY <1>8, BotFacts DEF TypeOK, LeaveGateQueue, durable
<1>9. CASE PassFails(b)
  BY <1>9, BotFacts DEF TypeOK, PassFails, durable
<1>10. CASE RecordRun(b)
  BY <1>10, BotFacts DEF TypeOK, RecordRun, RunOwner, InPass
<1>11. CASE Send(b)
  BY <1>11, BotFacts DEF TypeOK, Send, durable
<1>12. CASE CancelBeforeSend(b)
  BY <1>12, BotFacts DEF TypeOK, CancelBeforeSend, durable
<1>13. CASE Answer(b)
  BY <1>13, BotFacts DEF TypeOK, Answer, durable
<1>14. CASE LoseAnswer(b)
  BY <1>14, BotFacts DEF TypeOK, LoseAnswer, durable
<1>15. CASE CommitObservation(b)
  BY <1>15, BotFacts DEF TypeOK, CommitObservation
<1>16. CASE ObservationUnsaved(b)
  BY <1>16, BotFacts DEF TypeOK, ObservationUnsaved, durable
<1>17. CASE ApplyInventory(b)
  BY <1>17, BotFacts DEF TypeOK, ApplyInventory
<1>18. CASE ImportIssueEvidence(b)
  BY <1>18, BotFacts DEF TypeOK, ImportIssueEvidence, volatile
<1>19. CASE EndPass(b)
  BY <1>19, BotFacts DEF TypeOK, EndPass, durable
<1>20. CASE RunPanics(b)
  BY <1>20, PanicDoes, BotFacts DEF TypeOK, durable
<1>21. CASE FinalCommit(b)
  BY <1>21, BotFacts DEF TypeOK, FinalCommit, RunCleared
<1>22. CASE FinalUnsaved(b)
  BY <1>22, BotFacts DEF TypeOK, FinalUnsaved, durable
<1>23. CASE Leave(b)
  BY <1>23, BotFacts DEF TypeOK, Leave, durable
<1>24. QED
  BY <1>1, <1>2, <1>3, <1>4, <1>5, <1>6, <1>7, <1>8, <1>9, <1>10, <1>11, <1>12,
     <1>13, <1>14, <1>15, <1>16, <1>17, <1>18, <1>19, <1>20, <1>21, <1>22, <1>23 DEF RunStep

\* What keeps a town quiescent, as the operator's commands leave it.
LEMMA SameTownQuiescent ==
    ASSUME NEW t \in Towns, Quiescent(t),
           \A r \in Roles : LET b == <<t, r>> IN
               /\ status'[b] = status[b] /\ run'[b] = run[b]
               /\ recovery'[b] = recovery[b] /\ enabled'[b] = enabled[b]
    PROVE  Quiescent(t)'
BY DEF Quiescent

LEMMA CleanupAloneStep ==
    ASSUME TypeOK, RunningPlaces, CleanupAlone, [Next]_vars
    PROVE  CleanupAlone'
<1>1. CASE \E b \in Bots : Reserve(b)
  <2>1. PICK b \in Bots : Reserve(b)
    BY <1>1
  <2>2. b[1] \notin storageBusy /\ running' = running \cup {b}
        /\ UNCHANGED <<storageBusy, retrying, recovery, run, enabled, status>>
    BY <2>1 DEF Reserve, Eligible, durable
  <2>3. QED
    BY <2>2 DEF CleanupAlone, Quiescent
<1>2. CASE \E b \in Bots : RunStep(b)
  <2>1. PICK b \in Bots : RunStep(b)
    BY <1>2
  <2>2. b[1] \notin storageBusy
    BY <2>1, RunStepLocal DEF RunningPlaces, CleanupAlone
  <2>3. ASSUME NEW t \in storageBusy, t # b[1]
        PROVE  Quiescent(t)'
    <3>1. t \in Towns /\ Quiescent(t)
      BY <2>3 DEF CleanupAlone, TypeOK
    <3>2. \A r \in Roles : <<t, r>> \in Bots /\ <<t, r>>[1] # b[1]
      BY <2>3, <3>1 DEF Bots
    <3>3. \A r \in Roles : LET c == <<t, r>> IN
              /\ status'[c] = status[c] /\ run'[c] = run[c]
              /\ recovery'[c] = recovery[c] /\ enabled'[c] = enabled[c]
      BY <2>1, <3>2, RunStepTown
    <3>4. QED
      BY <3>1, <3>3, SameTownQuiescent
  <2>4. QED
    BY <2>1, <2>2, <2>3, RunStepTown DEF CleanupAlone
<1>3. CASE Operator
  <2>1. CASE /\ UNCHANGED <<storageBusy, retrying, running>> /\ StoreAccepts
    BY <2>1 DEF StoreAccepts, CleanupAlone
  <2>2. CASE \E t \in Towns : \E k \in Tasks : RetryIssueCommit(t, k)
    <3>1. PICK t \in Towns, k \in Tasks : RetryIssueCommit(t, k)
      BY <2>2
    <3>2. t \notin storageBusy
      BY <3>1 DEF RetryIssueCommit, CleanupAlone
    <3>3. ASSUME NEW u \in storageBusy
          PROVE  retrying'[u] = "no" /\ Quiescent(u)'
      <4>1. u # t /\ u \in Towns /\ retrying[u] = "no" /\ Quiescent(u)
        BY <3>2, <3>3 DEF CleanupAlone, TypeOK
      <4>2. retrying'[u] = "no"
        BY <3>1, <4>1 DEF RetryIssueCommit, TypeOK
      <4>3. \A r \in Roles : LET c == <<u, r>> IN
                /\ status'[c] = status[c] /\ run'[c] = run[c]
                /\ recovery'[c] = recovery[c] /\ enabled'[c] = enabled[c]
        BY <3>1, <4>1 DEF RetryIssueCommit, ResetTask, TypeOK, Bots
      <4>4. QED
        BY <4>1, <4>2, <4>3, SameTownQuiescent
    <3>4. QED
      BY <3>1, <3>3 DEF RetryIssueCommit, CleanupAlone
  <2>3. CASE \E t \in Towns : BeginStorage(t)
    BY <2>3 DEF BeginStorage, CleanupAlone, Quiescent, durable
  <2>4. CASE \E t \in Towns : EndStorage(t)
    BY <2>4 DEF EndStorage, CleanupAlone, Quiescent, durable
  <2>5. CASE \E t \in Towns : RetryIssueBegin(t) \/ RetryIssueStop(t) \/ RetryIssueFails(t)
    BY <2>5 DEF RetryIssueBegin, IssueBotFree, RetryIssueStop, RetryIssueFails,
                CleanupAlone, Quiescent, durable, TypeOK
  <2>6. CASE UNCHANGED <<storageBusy, retrying, running, recovery, run, enabled, status>>
    BY <2>6 DEF CleanupAlone, Quiescent
  <2>7. QED
    BY <1>3, <2>1, <2>2, <2>3, <2>4, <2>5, <2>6
       DEF Operator, Retry, Start, Pause, Stop, Decide, Delete, Restore, SetCapacity,
           StopCancels, volatile, durable
<1>4. CASE Exit \/ Crash
  BY <1>4 DEF Exit, Crash, LoseProcess, CleanupAlone
<1>5. CASE Open
  <2>1. UNCHANGED <<storageBusy, retrying, running, enabled>>
    BY <1>5 DEF Open
  <2>2. ASSUME NEW t \in storageBusy
        PROVE  Quiescent(t)'
    <3>1. \A r \in Roles : <<t, r>> \in Bots
      BY DEF Bots, TypeOK
    <3>2. QED
      BY <1>5, <2>2, <3>1, BotFacts
         DEF Open, CleanupAlone, Quiescent, Recovered, StatusAtOpen, Resting, TypeOK
  <2>3. QED
    BY <2>1, <2>2 DEF CleanupAlone
<1>6. CASE (\E t \in Towns : Hold(t)) \/ Shutdown \/ UNCHANGED vars
  BY <1>6 DEF Hold, Shutdown, vars, durable, volatile, CleanupAlone, Quiescent
<1>7. QED
  BY <1>1, <1>2, <1>3, <1>4, <1>5, <1>6 DEF Next

\* While a town's artifacts are removed none of its bots runs or could be
\* started, and no retry holds its issue bot, in any interleaving of commands,
\* runs, failed commits and crashes (beginStorage, storageHold, Update).
THEOREM CleanupHasTheTown == Spec => []CleanupAlone
<1> DEFINE Inv == TypeOK /\ RunningPlaces /\ CleanupAlone
<1>1. Init => Inv
  BY InitType DEF Init, RunningPlaces, CleanupAlone
<1>2. Inv /\ [Next]_vars => Inv'
  BY TypeStep, RunningPlacesStep, CleanupAloneStep
<1>3. QED
  BY <1>1, <1>2, PTL DEF Spec

\* Where a run is determines what state.json says of its work: the whole
\* inductive invariant behind LostWorkIsHeld, RepoRunIsOwned and the refinement
\* of Attempts, under the same two assumptions as the first (execute, reconcile,
\* recoverWorkerRun).
THEOREM RecordsFollowRuns ==
    ASSUME "gate" \notin Faults, PanicsUnrecorded
    PROVE  Spec => []DispatchInv
<1>1. DispatchInv /\ [Next]_vars => DispatchInv'
  BY DispatchInvStep
<1>2. QED
  BY DispatchInvInit, <1>1, PTL DEF Spec

-----------------------------------------------------------------------------
(***************************************************************************)
(* The contract: every step of the dispatch begins, settles, loses or       *)
(* authorizes attempts of it, or changes none.                              *)
(***************************************************************************)

LEMMA AttemptSame ==
    ASSUME \A c \in Bots : AttemptOf(c)' = AttemptOf(c)
    PROVE  Attempt' = Attempt
BY DEF Attempt

LEMMA AttemptChange ==
    ASSUME NEW S \in SUBSET Bots, NEW x, NEW y,
           \A c \in S : AttemptOf(c) = x /\ AttemptOf(c)' = y,
           \A c \in Bots \ S : AttemptOf(c)' = AttemptOf(c)
    PROVE  Contract!Change(S, x, y)
BY DEF Attempt, Contract!Change

\* A run's step begins, settles or loses its own attempt, or resolves one on
\* issue-bot's evidence, or changes no attempt.
LEMMA RunStepAttempt ==
    ASSUME DispatchInv, "gate" \notin Faults, PanicsUnrecorded, NEW b \in Bots, RunStep(b)
    PROVE  [Contract!Next]_Attempt
<1> TypeOK /\ ModeAt(b) /\ PassRecordAt(b, <<b[1], Repo>>) /\ (b[2] # Repo => AgentRecordAt(b))
  BY DEF DispatchInv, ModePlaces, PassRecord, AgentRecord
<1> b[2] = Repo => b = <<b[1], Repo>>
  BY BotFacts
<1>0. {b} \in SUBSET Bots
  OBVIOUS
<1>1. CASE \/ StartCanceled(b) \/ StartHeld(b) \/ StartCommit(b) \/
              EndBeforeSending(b) \/ ConfirmMerge(b) \/ ClaimRepair(b) \/
              EnterGate(b) \/ LeaveGateQueue(b) \/ PassFails(b) \/
              RecordRun(b) \/ CancelBeforeSend(b) \/ Answer(b) \/
              ApplyInventory(b) \/ EndPass(b) \/ RunPanics(b) \/ Leave(b)
  <2> SUFFICES \A c \in Bots : AttemptOf(c)' = AttemptOf(c)
    BY AttemptSame
  <2>1. CASE StartCanceled(b)
    BY <2>1, BotFacts
       DEF TypeOK, ModeAt, AttemptOf, InFlight, Unsettled, durable, StartCanceled
  <2>2. CASE StartHeld(b)
    BY <2>2, BotFacts DEF TypeOK, ModeAt, AttemptOf, InFlight, Unsettled, StartHeld
  <2>3. CASE StartCommit(b)
    BY <2>3, BotFacts DEF TypeOK, ModeAt, AttemptOf, InFlight, Unsettled, StartCommit
  <2>4. CASE EndBeforeSending(b)
    BY <2>4, BotFacts
       DEF TypeOK, ModeAt, AttemptOf, InFlight, Unsettled, durable,
           EndBeforeSending
  <2>5. CASE ConfirmMerge(b)
    BY <2>5, BotFacts
       DEF TypeOK, ModeAt, AttemptOf, InFlight, Unsettled, durable, ConfirmMerge
  <2>6. CASE ClaimRepair(b)
    BY <2>6, BotFacts
       DEF TypeOK, ModeAt, AttemptOf, InFlight, Unsettled, durable, ClaimRepair
  <2>7. CASE EnterGate(b)
    BY <2>7, BotFacts
       DEF TypeOK, ModeAt, AttemptOf, InFlight, Unsettled, durable, EnterGate
  <2>8. CASE LeaveGateQueue(b)
    BY <2>8, BotFacts
       DEF TypeOK, ModeAt, AttemptOf, InFlight, Unsettled, durable, LeaveGateQueue
  <2>9. CASE PassFails(b)
    BY <2>9, BotFacts
       DEF TypeOK, ModeAt, AttemptOf, InFlight, Unsettled, durable, PassFails
  <2>10. CASE RecordRun(b)
    BY <2>10, BotFacts
       DEF TypeOK, ModeAt, AttemptOf, InFlight, Unsettled, RunOwner, RecordRun
  <2>11. CASE CancelBeforeSend(b)
    BY <2>11, BotFacts
       DEF TypeOK, ModeAt, AttemptOf, InFlight, Unsettled, durable, AfterAnswer,
           InPass, CancelBeforeSend
  <2>12. CASE Answer(b)
    <3>1. mode[b] \in Targets => b \notin lost
      BY <2>12, BotFacts DEF Answer, ModeAt, AgentRecordAt, PassRecordAt
    <3>2. pc' = [pc EXCEPT ![b] = AfterAnswer(b)] /\ pc[b] = "sent" /\ UNCHANGED <<mode, lost>>
      BY <2>12 DEF Answer
    <3>3. AttemptOf(b)' = AttemptOf(b)
      BY <3>1, <3>2 DEF TypeOK, AttemptOf, InFlight, Unsettled, AfterAnswer
    <3>4. QED
      BY <3>2, <3>3 DEF TypeOK, AttemptOf, InFlight, Unsettled
  <2>13. CASE ApplyInventory(b)
    BY <2>13, BotFacts
       DEF TypeOK, ModeAt, AttemptOf, InFlight, Unsettled, ApplyInventory
  <2>14. CASE EndPass(b)
    BY <2>14, BotFacts
       DEF TypeOK, ModeAt, AttemptOf, InFlight, Unsettled, durable, EndPass
  <2>15. CASE RunPanics(b)
    BY <2>15, PanicDoes, BotFacts
       DEF TypeOK, ModeAt, AttemptOf, InFlight, Unsettled
  <2>16. CASE Leave(b)
    BY <2>16, BotFacts
       DEF TypeOK, ModeAt, AttemptOf, InFlight, Unsettled, durable, Leave
  <2>20. QED
    BY <1>1, <2>1, <2>2, <2>3, <2>4, <2>5, <2>6, <2>7, <2>8, <2>9, <2>10,
         <2>11, <2>12, <2>13, <2>14, <2>15, <2>16
<1>2. CASE Send(b)
  <2>1. \A c \in Bots \ {b} : AttemptOf(c)' = AttemptOf(c)
    BY <1>2, BotFacts DEF TypeOK, AttemptOf, InFlight, Unsettled, Send, durable
  <2>2. CASE mode[b] \in Targets
    <3>1. AttemptOf(b) = "none" /\ AttemptOf(b)' = "open"
      BY <1>2, <2>2, BotFacts DEF TypeOK, ModeAt, AgentRecordAt, PassRecordAt, InPass,
         AttemptOf, InFlight, Unsettled, Send, durable
    <3>2. Contract!Begin(b)
      BY <1>0, <2>1, <3>1, AttemptChange DEF Contract!Begin
    <3>3. QED  BY <3>2 DEF Contract!Next
  <2>3. CASE mode[b] \notin Targets
    BY <1>2, <2>1, <2>3, AttemptSame
       DEF TypeOK, AttemptOf, InFlight, Unsettled, Send, durable
  <2>4. QED  BY <2>2, <2>3
<1>3. CASE LoseAnswer(b)
  <2>1. \A c \in Bots \ {b} : AttemptOf(c)' = AttemptOf(c)
    BY <1>3, BotFacts DEF TypeOK, AttemptOf, InFlight, Unsettled, LoseAnswer, durable
  <2>2. CASE mode[b] \in Targets
    <3>1. AttemptOf(b) = "open" /\ AttemptOf(b)' = "unknown"
      BY <1>3, <2>2, BotFacts DEF TypeOK, ModeAt, AgentRecordAt, PassRecordAt, InPass,
         AttemptOf, InFlight, Unsettled, LoseAnswer, AfterAnswer, durable
    <3>2. Contract!Lose({b})
      BY <1>0, <2>1, <3>1, AttemptChange DEF Contract!Lose
    <3>3. QED  BY <1>0, <3>2 DEF Contract!Next
  <2>3. CASE mode[b] \notin Targets
    BY <1>3, <2>1, <2>3, AttemptSame
       DEF TypeOK, AttemptOf, InFlight, Unsettled, LoseAnswer, AfterAnswer, durable
  <2>4. QED  BY <2>2, <2>3
<1>4. CASE CommitObservation(b) \/ FinalCommit(b)
  <2>1. \A c \in Bots \ {b} : AttemptOf(c)' = AttemptOf(c)
    BY <1>4, BotFacts
       DEF TypeOK, AttemptOf, InFlight, Unsettled, CommitObservation, FinalCommit
  <2>2. CASE AttemptOf(b) = "open"
    <3>1. AttemptOf(b)' = "none"
      BY <1>4, <2>2, BotFacts DEF TypeOK, AttemptOf, InFlight, Unsettled,
         CommitObservation, FinalCommit
    <3>2. Contract!Settle(b)
      BY <1>0, <2>1, <2>2, <3>1, AttemptChange DEF Contract!Settle
    <3>3. QED  BY <3>2 DEF Contract!Next
  <2>3. CASE AttemptOf(b) # "open"
    BY <1>4, <2>1, <2>3, AttemptSame DEF TypeOK, AttemptOf, InFlight, Unsettled,
       CommitObservation, FinalCommit
  <2>4. QED  BY <2>2, <2>3
<1>5. CASE FinalUnsaved(b)
  <2>1. \A c \in Bots \ {b} : AttemptOf(c)' = AttemptOf(c)
    BY <1>5, BotFacts
       DEF TypeOK, AttemptOf, InFlight, Unsettled, FinalUnsaved, durable
  <2>2. CASE AttemptOf(b) = "open"
    <3>1. AttemptOf(b)' = "unknown"
      BY <1>5, <2>2, BotFacts DEF TypeOK, ModeAt, AttemptOf, InFlight, Unsettled,
         FinalUnsaved, durable
    <3>2. Contract!Lose({b})
      BY <1>0, <2>1, <2>2, <3>1, AttemptChange DEF Contract!Lose
    <3>3. QED  BY <1>0, <3>2 DEF Contract!Next
  <2>3. CASE AttemptOf(b) # "open"
    BY <1>5, <2>1, <2>3, AttemptSame, BotFacts
       DEF TypeOK, ModeAt, AttemptOf, InFlight, Unsettled,
       FinalUnsaved, durable
  <2>4. QED  BY <2>2, <2>3
<1>6. CASE ImportIssueEvidence(b)
  <2> DEFINE w == <<b[1], Issue>>
  <2>1. w \in Bots /\ w[2] # Repo /\ run[w] = None /\ recovery[w] # None
        /\ lost' = lost \ {w} /\ UNCHANGED <<pc, mode>>
    BY <1>6, BotFacts, ConstantsAssumption
       DEF ImportIssueEvidence, Bots, Roles, volatile
  <2>2. ModeAt(w) /\ AgentRecordAt(w)
    BY <2>1 DEF DispatchInv, ModePlaces, AgentRecord
  <2>3. ~Unsettled(w) /\ ~InFlight(w)
    BY <2>1, <2>2, BotFacts DEF Unsettled, InFlight, ModeAt, AgentRecordAt
  <2>4. \A c \in Bots \ {w} : AttemptOf(c)' = AttemptOf(c)
    BY <2>1 DEF AttemptOf, InFlight, Unsettled
  <2>5. CASE w \in lost
    <3>1. AttemptOf(w) = "unknown" /\ AttemptOf(w)' = "none"
      BY <2>1, <2>3, <2>5 DEF AttemptOf, InFlight, Unsettled
    <3>2. {w} \in SUBSET Bots
      BY <2>1
    <3>3. Contract!Authorize({w})
      BY <2>4, <3>1, <3>2, AttemptChange DEF Contract!Authorize
    <3>4. QED  BY <3>2, <3>3 DEF Contract!Next
  <2>6. CASE w \notin lost
    BY <2>1, <2>4, <2>6, AttemptSame DEF AttemptOf, InFlight, Unsettled
  <2>7. QED  BY <2>5, <2>6
<1>7. QED
  BY <1>1, <1>2, <1>3, <1>4, <1>5, <1>6 DEF RunStep, ObservationUnsaved

\* A bot whose hold a command may drop has nothing in flight or unsettled.
LEMMA HeldIsSettled ==
    ASSUME DispatchInv, NEW w \in Bots, run[w] = None
    PROVE  ~Unsettled(w) /\ ~InFlight(w)
<1> ModeAt(w) /\ PassRecordAt(w, <<w[1], Repo>>) /\ (w[2] # Repo => AgentRecordAt(w))
  BY DEF DispatchInv, ModePlaces, PassRecord, AgentRecord
<1>1. QED
  BY BotFacts DEF Unsettled, InFlight, ModeAt, PassRecordAt, AgentRecordAt, InPass

\* A command that takes bots out of lost finds no run of theirs recorded.
LEMMA AuthorizeStep ==
    ASSUME DispatchInv, UNCHANGED <<pc, mode>>, lost' \subseteq lost,
           \A c \in lost : c \notin lost' => run[c] = None
    PROVE  Contract!Authorize(lost \ lost')
<1> DEFINE S == lost \ lost'
<1>1. S \in SUBSET Bots
  BY DEF DispatchInv, TypeOK
<1>2. \A c \in S : ~Unsettled(c) /\ ~InFlight(c)
  BY <1>1, HeldIsSettled
<1>3. \A c \in S : AttemptOf(c) = "unknown" /\ AttemptOf(c)' = "none"
  BY <1>2 DEF AttemptOf, InFlight, Unsettled
<1>4. \A c \in Bots \ S : AttemptOf(c)' = AttemptOf(c)
  BY DEF AttemptOf, InFlight, Unsettled
<1>5. QED
  BY <1>1, <1>3, <1>4, AttemptChange DEF Contract!Authorize

LEMMA OperatorAttempt ==
    ASSUME DispatchInv, Operator
    PROVE  [Contract!Next]_Attempt
<1>1. lost' \subseteq lost /\ UNCHANGED <<pc, mode>>
  BY OperatorFrame, OperatorRecords DEF DispatchInv
<1>2. \A c \in lost : c \notin lost' => run[c] = None
  <2>1. CASE \E t \in Towns : \E k \in Tasks : Retry(t, k) \/ RetryIssueCommit(t, k)
    BY <2>1 DEF Retry, RetryIssueCommit, ResetTask
  <2>2. CASE \E t \in Towns : \E S \in Commands : Start(t, S)
    BY <2>2 DEF Start
  <2>3. CASE ~(\E t \in Towns : \E k \in Tasks : Retry(t, k) \/ RetryIssueCommit(t, k))
             /\ ~(\E t \in Towns : \E S \in Commands : Start(t, S))
    BY <2>3 DEF Operator, Pause, Stop, Decide, RetryIssueBegin, RetryIssueStop,
       RetryIssueFails, Delete, Restore, BeginStorage, EndStorage, SetCapacity, StopCancels
  <2>4. QED  BY <2>1, <2>2, <2>3
<1>3. lost \ lost' \in SUBSET Bots
  BY DEF DispatchInv, TypeOK
<1>4. QED
  BY <1>1, <1>2, <1>3, AuthorizeStep DEF Contract!Next

\* The process going down loses exactly the attempts still open.
LEMMA LoseProcessAttempt ==
    ASSUME DispatchInv, LoseProcess, lost' = lost \cup {b \in Bots : Unsettled(b)}
    PROVE  [Contract!Next]_Attempt
<1> DEFINE S == {b \in Bots : Unsettled(b) /\ b \notin lost}
<1>0. S \in SUBSET Bots
  OBVIOUS
<1>1. \A c \in S : AttemptOf(c) = "open"
  BY DEF AttemptOf
<1>2. \A c \in Bots : c \in lost => ~InFlight(c)
  BY BotFacts DEF DispatchInv, ModePlaces, ModeAt, AgentRecord, AgentRecordAt,
                  PassRecord, PassRecordAt, InFlight
<1>3. \A c \in Bots : pc'[c] = "idle"
  BY DEF LoseProcess
<1>4. \A c \in S : AttemptOf(c)' = "unknown"
  BY <1>3 DEF AttemptOf, InFlight
<1>5. \A c \in Bots \ S : AttemptOf(c)' = AttemptOf(c)
  BY <1>2, <1>3 DEF AttemptOf, InFlight, Unsettled
<1>6. Contract!Lose(S)
  BY <1>0, <1>1, <1>4, <1>5, AttemptChange DEF Contract!Lose
<1>7. QED  BY <1>0, <1>6 DEF Contract!Next

\* No work is sent to a bot whose earlier work has an unknown outcome: the
\* dispatch implements the contract of Attempts (docs/recovery.md), as long as
\* the save under the gate succeeds and no panic skips it.
THEOREM DispatchImplementsAttempts ==
    ASSUME "gate" \notin Faults, PanicsUnrecorded
    PROVE  Spec => NoBlindResend
<1>1. Init => Contract!Init
  BY BotFacts DEF Init, Contract!Init, Attempt, AttemptOf, Unsettled
<1>2. DispatchInv /\ [Next]_vars => [Contract!Next]_Attempt
  <2> SUFFICES ASSUME DispatchInv, [Next]_vars PROVE [Contract!Next]_Attempt
    OBVIOUS
  <2>1. CASE \E b \in Bots : Reserve(b)
    <3>1. PICK b \in Bots : Reserve(b)
      BY <2>1
    <3>2. pc[b] = "idle" /\ pc' = [pc EXCEPT ![b] = "reserved"] /\ UNCHANGED <<mode, lost>>
      BY <3>1 DEF Reserve, DispatchInv, RunningPlaces
    <3>3. \A c \in Bots : AttemptOf(c)' = AttemptOf(c)
      BY <3>2 DEF AttemptOf, InFlight, Unsettled, DispatchInv, TypeOK
    <3>4. QED  BY <3>3, AttemptSame
  <2>2. CASE \E b \in Bots : RunStep(b)
    BY <2>2, RunStepAttempt
  <2>3. CASE Operator
    BY <2>3, OperatorAttempt
  <2>4. CASE Exit
    <3>1. \A c \in Bots : ~Unsettled(c)
      BY <2>4 DEF Exit, Unsettled, DispatchInv, RunningPlaces
    <3>2. lost' = lost \cup {b \in Bots : Unsettled(b)}
      BY <2>4, <3>1 DEF Exit
    <3>3. QED  BY <2>4, <3>2, LoseProcessAttempt DEF Exit
  <2>5. CASE Crash
    BY <2>5, LoseProcessAttempt DEF Crash
  <2>6. CASE (\E t \in Towns : Hold(t)) \/ Shutdown \/ Open \/ UNCHANGED vars
    <3>1. UNCHANGED <<pc, mode, lost>>
      BY <2>6 DEF Hold, Shutdown, Open, vars, durable, volatile
    <3>2. \A c \in Bots : AttemptOf(c)' = AttemptOf(c)
      BY <3>1 DEF AttemptOf, InFlight, Unsettled
    <3>3. QED  BY <3>2, AttemptSame
  <2>7. QED
    BY <2>1, <2>2, <2>3, <2>4, <2>5, <2>6 DEF Next
<1>3. DispatchInv /\ [Next]_vars => DispatchInv'
  BY DispatchInvStep
<1>4. QED
  BY DispatchInvInit, <1>1, <1>2, <1>3, PTL DEF Spec, NoBlindResend, Contract!Spec
=============================================================================
