----------------------------- MODULE ManagedRun -----------------------------
(***************************************************************************)
(* Work placed on Mjolnir (internal/mjolnir, town/managed.go).  A dispatch  *)
(* of a bot opens one session after another in Mjolnir's daemon; each is    *)
(* prepared at an exact commit, prompted once, and read back as evidence; a *)
(* repair is exported and imported into a private checkout; and only when   *)
(* the whole dispatch has succeeded are its sessions destroyed.  Every step *)
(* that changes the daemon is preceded by a record on disk; the daemon has  *)
(* no idempotent calls, so a dispatch that was cut short is never repeated. *)
(*                                                                         *)
(* One role of one repository: records of another role are in a directory  *)
(* of their own.  Commits are counted, the history of a session is linear,  *)
(* and a diff is the head and whether there is uncommitted work.  What is   *)
(* in a plan, a placement or a transcript, and every size bound, is left    *)
(* out, but a session that does not match its plan is a fault.              *)
(***************************************************************************)
EXTENDS Naturals, FiniteSets

CONSTANTS
    MaxSessions,      \* sessions, and so run directories, there can be
    DispatchLimit,    \* managedDispatch: sessions of one dispatch (32)
    MaxWork,          \* bound: commits a session adds to its base
    MaxTouches,       \* bound: what others do in Town's sessions
    MaxManagedFaults  \* bound: lost answers, failed writes, timeouts, crashes

ASSUME ManagedConstants ==
    {MaxSessions, DispatchLimit, MaxWork, MaxTouches, MaxManagedFaults} \subseteq Nat

VARIABLES
    record,    \* run.json of each run, as on disk
    kept,      \* the evidence saved beside it, evidence.json and repair.bundle
    held,      \* Run.record.State: the record in the memory of its dispatch
    dispatch,  \* the dispatch in progress and the step of it that is next
    session,   \* Mjolnir's sessions, one per run
    checkout,  \* the head of the private local checkout a repair works in
    touches, mfaults

managed == <<record, kept, held, dispatch, session, checkout, touches, mfaults>>

Runs  == 1..MaxSessions
Unresolved == {"empty", "creating", "uncertain", "preparing", "held", "ready",
               "prompting", "exporting", "evidence", "destroying", "uncertain_cleanup"}
Given == {"evidence", "destroying", "uncertain_cleanup", "destroyed"}
None  == 99   \* no commit

NoSession  == [life |-> "none", by |-> 0, base |-> 0, head |-> 0, dirty |-> FALSE,
               seq |-> 0, last |-> "none", busy |-> FALSE, ordinal |-> 0, late |-> FALSE]
NoEvidence == [complete |-> FALSE, head |-> 0, bundle |-> None, seq |-> 0]
NoDispatch == [pc |-> "off", n |-> 0, repair |-> FALSE, runs |-> {}, cur |-> 0, failed |-> FALSE,
               head |-> 0, seq |-> 0, bundle |-> None]

ManagedInit ==
    /\ record   = [r \in Runs |-> "absent"]
    /\ kept     = [r \in Runs |-> NoEvidence]
    /\ held     = [r \in Runs |-> "absent"]
    /\ dispatch = NoDispatch
    /\ session  = [r \in Runs |-> NoSession]
    /\ checkout = 0 /\ touches = 0 /\ mfaults = 0

Fault == mfaults < MaxManagedFaults /\ mfaults' = mfaults + 1
cur   == dispatch.cur
mine  == session[cur]
At(pc) == dispatch.pc = pc

\* Execute returned an error: the run keeps the record it has, and the dispatch
\* starts no further session and destroys none.
StepFails(pc) == dispatch' = [dispatch EXCEPT !.pc = pc, !.failed = TRUE]

\* writeCache, then SyncDir.  The file is renamed whole before its directory is
\* synced, and a save that fails there leaves the memory behind the file.
Saved(r, s)  == record' = [record EXCEPT ![r] = s] /\ held' = [held EXCEPT ![r] = s]
Unsaved(r, s) ==
    \/ UNCHANGED <<record, held>>
    \/ record' = [record EXCEPT ![r] = s] /\ UNCHANGED held

\* A step that saves s and goes on at pc, or fails to.
SaveThen(s, pc) ==
    \/ Saved(cur, s) /\ dispatch' = [dispatch EXCEPT !.pc = pc] /\ UNCHANGED mfaults
    \/ Unsaved(cur, s) /\ StepFails("bot") /\ Fault

\* A step that gives up with s; the save of that may fail as well.
GiveUp(s) ==
    /\ StepFails("bot")
    /\ \/ Saved(cur, s) /\ UNCHANGED mfaults
       \/ Unsaved(cur, s) /\ Fault

----------------------------------------------------------------------------
\* Town: beginManaged and managedDispatch.execute.

\* The number of a dispatch is its place among those that opened a run.
Dispatched ==
    /\ \E repair \in BOOLEAN :
          dispatch' = [NoDispatch EXCEPT !.pc = "bot", !.repair = repair,
                                         !.n = Cardinality({r \in Runs : record[r] # "absent"}) + 1]
    /\ held' = [r \in Runs |-> "absent"] /\ checkout' = 0
    /\ UNCHANGED <<record, kept, session, touches, mfaults>>

\* A bug: only records that name a session hold the next dispatch back.
BeginWithoutSession ==
    /\ At("off") /\ \A r \in Runs : record[r] \in {"absent", "creating", "destroyed"}
    /\ \E r \in Runs : record[r] = "absent"
    /\ Dispatched

\* Nothing starts while a run of the role is unresolved, whatever became of it.
Begin ==
    /\ At("off") /\ \A r \in Runs : record[r] \notin Unresolved
    /\ \E r \in Runs : record[r] = "absent"
    /\ Dispatched

\* execute and Prepare: a fresh run; its directory must not exist, and its
\* intent is saved before anything is asked of the daemon.
Prepare ==
    /\ At("bot") /\ ~dispatch.failed /\ Cardinality(dispatch.runs) < DispatchLimit
    /\ \E r \in Runs :
          /\ record[r] = "absent" /\ \A q \in Runs : record[q] = "absent" => r <= q
          /\ \/ Saved(r, "creating") /\ UNCHANGED mfaults
                /\ dispatch' = [dispatch EXCEPT !.pc = "create", !.cur = r, !.runs = @ \cup {r}]
             \/ /\ \E s \in {"empty", "creating"} : record' = [record EXCEPT ![r] = s]
                /\ dispatch' = [dispatch EXCEPT !.cur = r, !.failed = TRUE, !.runs = @ \cup {r}]
                /\ Fault /\ UNCHANGED held
    /\ UNCHANGED <<kept, session, checkout, touches>>

Opened == session' = [session EXCEPT ![cur] =
             [NoSession EXCEPT !.life = "live", !.by = dispatch.n, !.base = checkout, !.head = checkout]]

\* The one session/new.  An answer that is lost leaves it open whether there is
\* a session, and only the saved intent knows of it.
CreateAnswered == At("create") /\ Opened /\ SaveThen("preparing", "ready?") /\ UNCHANGED <<kept, checkout, touches>>
CreateLost ==
    /\ At("create") /\ mfaults < MaxManagedFaults /\ mfaults' = mfaults + 1
    /\ Opened \/ UNCHANGED session
    /\ StepFails("bot") /\ (Saved(cur, "uncertain") \/ Unsaved(cur, "uncertain"))
    /\ UNCHANGED <<kept, checkout, touches>>

Clean(s, head) == s.head = head /\ ~s.dirty
\* CheckLaunchReceipt, and the worker that answered first (checkCurrentSession).
Ready(s)   == s.life = "live" /\ ~s.busy
Current(s) == Ready(s) /\ s.ordinal = 0

\* The session is read until it is live and idle: it must be the one planned,
\* at the planned commit; the wait has an end.
Receipt ==
    /\ At("ready?")
    /\ \/ Ready(mine) /\ Clean(mine, mine.base) /\ SaveThen("ready", "configure")
       \/ ~(Ready(mine) /\ Clean(mine, mine.base)) /\ GiveUp("held")
    /\ UNCHANGED <<kept, session, checkout, touches>>
ReceiptFails ==
    /\ At("ready?") /\ Fault /\ StepFails("bot")
    /\ \E s \in {"uncertain", "held"} : Saved(cur, s) \/ Unsaved(cur, s)
    /\ UNCHANGED <<kept, session, checkout, touches>>

\* What was read is wrong; and a call may fail whatever there is to read.
Fails(right) == Fault \/ (~right /\ UNCHANGED mfaults)

\* A step in which the run saves nothing.
Check(pc, right, next) ==
    /\ At(pc)
    /\ \/ right /\ dispatch' = next /\ UNCHANGED mfaults
       \/ Fails(right) /\ StepFails("bot")
    /\ UNCHANGED <<record, kept, held, session, checkout, touches>>
Go(pc) == [dispatch EXCEPT !.pc = pc]

\* Model and effort are set and read back, then the session is checked again.
Configure == Check("configure", Current(mine) /\ Clean(mine, mine.base), Go("mark"))

MarkPrompting == At("mark") /\ SaveThen("prompting", "prompt") /\ UNCHANGED <<kept, session, checkout, touches>>

\* The single prompt; Mjolnir refuses it to a session it may not run in.
Prompt ==
    /\ At("prompt")
    /\ \/ Current(mine) /\ session' = [session EXCEPT ![cur].busy = TRUE]
          /\ dispatch' = Go("turn")
       \/ ~Current(mine) /\ StepFails("bot") /\ UNCHANGED session
    /\ UNCHANGED <<record, kept, held, checkout, touches, mfaults>>

\* The prompt's deadline or its connection ends; the turn may go on.
PromptLost ==
    /\ At("turn") /\ Fault /\ StepFails("bot")
    /\ UNCHANGED <<record, kept, held, session, checkout, touches>>

\* The answer was retained (completed-answer.json); the session publishes that it
\* is idle within a while.
AwaitIdle == Check("idle?", Ready(mine), Go("collect"))

----------------------------------------------------------------------------
\* Collect: the evidence of exactly this turn.

Committed(s) == s.head # s.base
Untouched(s) == s.head = dispatch.head /\ ~s.dirty

Collect ==
    Check("collect",
          Current(mine) /\ (IF dispatch.repair THEN Committed(mine) ELSE Clean(mine, mine.base)),
          [Go("transcript") EXCEPT !.head = mine.head])

\* All pages of the transcript; the last message of the agent is the answer.
ReadTranscript ==
    Check("transcript", mine.life = "live" /\ mine.last = "town",
          [Go(IF dispatch.repair THEN "clean" ELSE "recheck") EXCEPT !.seq = mine.seq])

\* A repair must be committed whole.  Its export may checkpoint the workspace,
\* so that the intent of it is saved first and it is asked for once.
CheckClean ==
    /\ At("clean")
    /\ \/ Untouched(mine) /\ SaveThen("exporting", "export")
       \/ Fails(Untouched(mine)) /\ StepFails("bot") /\ UNCHANGED <<record, held>>
    /\ UNCHANGED <<kept, session, checkout, touches>>

Checkpointed == [mine EXCEPT !.head = IF mine.dirty THEN @ + 1 ELSE @, !.dirty = FALSE]

Export ==
    /\ At("export") /\ mine.life = "live"
    /\ session' = [session EXCEPT ![cur] = Checkpointed]
    /\ \/ /\ kept' = [kept EXCEPT ![cur].bundle = Checkpointed.head]
          /\ dispatch' = [Go("recheck") EXCEPT !.bundle = Checkpointed.head] /\ UNCHANGED mfaults
       \/ /\ kept' \in {kept, [kept EXCEPT ![cur].bundle = Checkpointed.head]}
          /\ StepFails("bot") /\ Fault
    /\ UNCHANGED <<record, held, checkout, touches>>
ExportGone == At("export") /\ mine.life # "live" /\ StepFails("bot") /\ UNCHANGED <<record, kept, held, session, checkout, touches, mfaults>>

\* Neither the export nor another turn may have moved the checkout meanwhile.
Recheck == Check("recheck", mine.life = "live" /\ Untouched(mine), Go("end"))

CheckTranscript == Check("end", mine.life = "live" /\ mine.seq = dispatch.seq, Go("save"))

Evidence == [complete |-> TRUE, head |-> dispatch.head, bundle |-> dispatch.bundle, seq |-> dispatch.seq]

\* The evidence is on disk before the record says so, and the record before the
\* answer is used.
SaveEvidence ==
    /\ At("save")
    /\ \/ Current(mine) /\ kept' = [kept EXCEPT ![cur] = Evidence]
          /\ SaveThen("evidence", IF dispatch.repair THEN "import" ELSE "bot")
       \/ Fails(Current(mine)) /\ StepFails("bot")
          /\ kept' \in {kept, [kept EXCEPT ![cur] = Evidence]} /\ UNCHANGED <<record, held>>
    /\ UNCHANGED <<session, checkout, touches>>

\* ImportRepair: the bundle must have the recorded commit, and the private
\* checkout moves to it, forward only.
ImportRepair ==
    /\ At("import")
    /\ \/ dispatch.bundle = dispatch.head /\ dispatch' = Go("bot")
          /\ checkout' = dispatch.head /\ UNCHANGED mfaults
       \/ dispatch.bundle # dispatch.head /\ StepFails("bot") /\ UNCHANGED <<checkout, mfaults>>
       \/ Fault /\ StepFails("bot") /\ UNCHANGED checkout
    /\ UNCHANGED <<record, kept, held, session, touches>>

----------------------------------------------------------------------------
\* managedDispatch.finish and Run.Destroy: only a dispatch without any error
\* cleans up, run by run.

Left == {r \in dispatch.runs : held[r] # "destroyed"}

BotEnds ==
    /\ At("bot")
    /\ dispatch' \in {Go("off")} \cup (IF dispatch.failed THEN {} ELSE {Go("finish")})
    /\ UNCHANGED <<record, kept, held, session, checkout, touches, mfaults>>

FinishNext ==
    /\ At("finish")
    /\ \/ Left = {} /\ dispatch' = Go("off")
       \/ \E r \in Left : /\ \A q \in Left : r <= q
                          /\ dispatch' = [Go("destroy") EXCEPT !.cur = r]
    /\ UNCHANGED <<record, kept, held, session, checkout, touches, mfaults>>

\* The evidence is read back from disk, and the session is the one that worked.
DestroyMarked ==
    /\ At("destroy")
    /\ IF held[cur] = "evidence" /\ kept[cur].complete /\ Current(mine)
       THEN \/ Saved(cur, "destroying") /\ dispatch' = Go("post") /\ UNCHANGED mfaults
            \/ Unsaved(cur, "destroying") /\ dispatch' = Go("off") /\ Fault
       ELSE UNCHANGED <<record, held, mfaults>> /\ dispatch' = Go("off")
    /\ UNCHANGED <<kept, session, checkout, touches>>

CleanupOpen ==
    /\ Fault /\ dispatch' = Go("off")
    /\ Saved(cur, "uncertain_cleanup") \/ Unsaved(cur, "uncertain_cleanup")

\* The one request, and the wait for the session to be gone.
SubmitDestroy ==
    /\ At("post")
    /\ \/ session' = [session EXCEPT ![cur].life = "ending"]
          /\ \/ dispatch' = Go("poll") /\ UNCHANGED <<record, held, mfaults>>
             \/ CleanupOpen
       \/ UNCHANGED session /\ CleanupOpen
    /\ UNCHANGED <<kept, checkout, touches>>

PollDestroyed ==
    /\ At("poll")
    /\ \/ mine.life = "gone" /\ Saved(cur, "destroyed") /\ dispatch' = Go("finish") /\ UNCHANGED mfaults
       \/ mine.life = "gone" /\ Unsaved(cur, "destroyed") /\ dispatch' = Go("off") /\ Fault
       \/ CleanupOpen
    /\ UNCHANGED <<kept, session, checkout, touches>>

\* The service dies with its dispatch; the daemon and its sessions go on.
ServiceDies ==
    /\ ~At("off") /\ Fault
    /\ dispatch' = [NoDispatch EXCEPT !.n = dispatch.n]
    /\ held' = [r \in Runs |-> "absent"]
    /\ UNCHANGED <<record, kept, session, checkout, touches>>

----------------------------------------------------------------------------
\* Mjolnir: the agent in a session, other people who use it, its worker.

Live(r) == session[r].life = "live"
Change(r, s) ==
    /\ session' = [session EXCEPT ![r] = s]
    /\ UNCHANGED <<record, kept, held, checkout>>
\* A session with uncommitted work, or with one commit more.
Worked(s) == {[s EXCEPT !.dirty = TRUE]} \cup
             (IF s.head < s.base + MaxWork THEN {[s EXCEPT !.head = @ + 1, !.dirty = FALSE]} ELSE {})

AgentWorks(r) ==
    /\ Live(r) /\ session[r].busy
    /\ \E s \in Worked(session[r]) : Change(r, s)
    /\ UNCHANGED <<dispatch, touches, mfaults>>

\* The turn ends and Town hears of it, or it ends without an answer.
TurnEnds(r) ==
    /\ Live(r) /\ session[r].busy
    /\ Change(r, [session[r] EXCEPT !.busy = FALSE, !.seq = @ + 1, !.last = "town"])
    /\ dispatch' = IF At("turn") /\ cur = r THEN Go("idle?") ELSE dispatch
    /\ UNCHANGED <<touches, mfaults>>
TurnStops(r) ==
    /\ Live(r) /\ session[r].busy /\ Fault
    /\ Change(r, [session[r] EXCEPT !.busy = FALSE, !.seq = @ + 1, !.last = "none"])
    /\ IF At("turn") /\ cur = r THEN StepFails("bot") ELSE UNCHANGED dispatch
    /\ UNCHANGED touches

\* What Town can no longer see: it has read the diff, and the transcript, for
\* the last time.
Read(r, pcs) == kept[r].complete \/ (r = cur /\ dispatch.pc \in pcs)
Touch == touches < MaxTouches /\ touches' = touches + 1 /\ UNCHANGED <<dispatch, mfaults>>

OtherEdits(r) ==
    /\ Live(r) /\ Touch
    /\ \E s \in Worked(session[r]) : Change(r, [s EXCEPT !.late = @ \/ Read(r, {"end", "save"})])

OtherTurn(r) ==
    /\ Live(r) /\ ~session[r].busy /\ Touch
    /\ \E s \in Worked(session[r]) \cup {session[r]} :
          Change(r, [s EXCEPT !.seq = @ + 1, !.last = "other", !.late = @ \/ Read(r, {"save"})])

\* Before the receipt there is nothing to compare another worker with.
WorkerRestarts(r) ==
    /\ record[r] \notin {"creating", "preparing"} /\ Live(r) /\ Touch /\ session[r].ordinal = 0
    /\ Change(r, [session[r] EXCEPT !.ordinal = 1, !.busy = FALSE])

SessionStops(r) == Live(r) /\ Touch /\ Change(r, [session[r] EXCEPT !.life = "stopped", !.busy = FALSE])

SessionGone(r) ==
    /\ session[r].life = "ending" /\ Change(r, [session[r] EXCEPT !.life = "gone"])
    /\ UNCHANGED <<dispatch, touches, mfaults>>

ManagedNext ==
    \/ Begin \/ Prepare \/ CreateAnswered \/ CreateLost \/ Receipt \/ ReceiptFails
    \/ Configure \/ MarkPrompting \/ Prompt \/ PromptLost \/ AwaitIdle
    \/ Collect \/ ReadTranscript \/ CheckClean \/ Export \/ ExportGone
    \/ Recheck \/ CheckTranscript \/ SaveEvidence \/ ImportRepair
    \/ BotEnds \/ FinishNext \/ DestroyMarked \/ SubmitDestroy \/ PollDestroyed
    \/ ServiceDies
    \/ \E r \in Runs : \/ AgentWorks(r) \/ TurnEnds(r) \/ TurnStops(r)
                       \/ OtherEdits(r) \/ OtherTurn(r) \/ WorkerRestarts(r)
                       \/ SessionStops(r) \/ SessionGone(r)

ManagedSpec == ManagedInit /\ [][ManagedNext]_managed

----------------------------------------------------------------------------
\* Properties.

ManagedTypeOK ==
    /\ record \in [Runs -> {"absent", "destroyed"} \cup Unresolved]
    /\ held \in [Runs -> {"absent", "destroyed"} \cup Unresolved]
    /\ dispatch.runs \subseteq Runs /\ cur \in Runs \cup {0}
    /\ Cardinality(dispatch.runs) <= DispatchLimit
    /\ \A r \in Runs : session[r].life \in {"none", "live", "stopped", "ending", "gone"}
    /\ touches \in 0..MaxTouches /\ mfaults \in 0..MaxManagedFaults

(* While a session of an earlier dispatch is in Mjolnir, whatever answers and *)
(* saves were lost and wherever the service died, no later dispatch opens one *)
(* (Prepare's intent, beginManaged).                                         *)
OneDispatchAtWork ==
    \A r, q \in Runs :
        session[r].by # 0 /\ session[r].by < session[q].by => session[r].life = "gone"

(* What Town saved of a session is its work: the head, all of it committed,   *)
(* and the whole transcript, whoever else used the session while it was read; *)
(* and no session is destroyed of which that is not on disk (Collect, Destroy).*)
EvidenceIsTheWork ==
    \A r \in Runs :
        /\ kept[r].complete /\ ~session[r].late =>
              /\ Clean(session[r], kept[r].head) /\ session[r].seq = kept[r].seq
              /\ kept[r].bundle \in {None, kept[r].head}
        /\ session[r].life \in {"ending", "gone"} => kept[r].complete

(* The private checkout moves only to a commit whose evidence, with the       *)
(* bundle that holds it, is on disk and recorded (saveEvidence, ImportRepair).*)
CheckoutIsEvidenced ==
    checkout # 0 => \E r \in Runs : record[r] \in Given /\ kept[r].complete
                                    /\ kept[r].bundle = checkout

ManagedHolds == ManagedTypeOK /\ OneDispatchAtWork /\ EvidenceIsTheWork /\ CheckoutIsEvidenced
=============================================================================
