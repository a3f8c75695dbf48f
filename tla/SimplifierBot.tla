--------------------------- MODULE SimplifierBot ---------------------------
(***************************************************************************)
(* Simplifier Bot's scan of a branch (bots/simplifier-bot/run.go): an      *)
(* agent proposes simplifications of the branch's head, and each one is    *)
(* filed as an issue that carries the proposal's request id in a hidden    *)
(* marker.                                                                 *)
(*                                                                         *)
(* Town runs one scan a process; on its own the bot scans again and again, *)
(* with the state it has in memory, whatever of it could be saved.  Left   *)
(* out: what an agent reads and writes, the dry run, and the assessment of *)
(* one issue or pull request, which writes nothing.                        *)
(***************************************************************************)
EXTENDS Naturals, FiniteSets

CONSTANTS
    MaxProposals,   \* bound: proposals made in a behaviour
    MaxHeads,       \* bound: commits of the branch
    MaxScans,       \* bound: scans
    MaxScanFaults   \* bound: failed calls, saves and agents, crashes, lost answers

ASSUME SimplifierConstants ==
    {MaxProposals, MaxScans, MaxScanFaults} \subseteq Nat /\ MaxHeads \in Nat \ {0}

VARIABLES
    branch,   \* the branch's newest commit
    issues,   \* GitHub: how many issues a proposal has, and the commit they name
    unseen,   \* requests GitHub has accepted and does not list yet
    state,    \* state.json
    memory,   \* the process's copy
    scan,     \* the scan in progress
    scans, scanfaults

simplifier == <<branch, issues, unseen, state, memory, scan, scans, scanfaults>>

Proposals == 1..MaxProposals
Statuses == {"none", "pending", "posting", "submitted"}
NoScanYet == [last |-> 0, status |-> [p \in Proposals |-> "none"],
              found |-> [p \in Proposals |-> 0]]
Idle == [pc |-> "idle", commit |-> 0, p |-> 0]

SimplifierInit ==
    /\ branch = 1 /\ issues = [p \in Proposals |-> [n |-> 0, commit |-> 0]] /\ unseen = {}
    /\ state = NoScanYet /\ memory = NoScanYet /\ scan = Idle
    /\ scans = 0 /\ scanfaults = 0

ScanFault == scanfaults < MaxScanFaults /\ scanfaults' = scanfaults + 1
Outside == UNCHANGED <<branch, issues, unseen>>
With(status) == {p \in Proposals : memory.status[p] = status}
Marked(p, status) == [memory EXCEPT !.status = [@ EXCEPT ![p] = status]]

\* Memory is saved, and the scan goes on, or it cannot be and the scan ends.
SaveOr(next) ==
    \/ state' = memory' /\ scan' = next /\ UNCHANGED scanfaults
    \/ ScanFault /\ scan' = Idle /\ UNCHANGED state

Moved ==
    /\ branch < MaxHeads /\ branch' = branch + 1
    /\ UNCHANGED <<issues, unseen, state, memory, scan, scans, scanfaults>>

\* GitHub's list of issues shows what it accepted some time before.
Listed ==
    /\ \E p \in unseen :
          /\ unseen' = unseen \ {p}
          /\ issues' = [issues EXCEPT ![p] = [n |-> @.n + 1, commit |-> @.commit]]
    /\ UNCHANGED <<branch, state, memory, scan, scans, scanfaults>>

----------------------------------------------------------------------------
\* The scan.

\* A new process reads what was saved; the daemon goes on with what it has.
ScanStarts ==
    /\ scan.pc = "idle" /\ scans < MaxScans /\ scans' = scans + 1
    /\ memory' \in {state, memory} /\ scan' = [Idle EXCEPT !.pc = "reconcile"]
    /\ Outside /\ UNCHANGED <<state, scanfaults>>

\* A bug: what GitHub does not show is taken for unsent.
ReconcileReposts ==
    /\ scan.pc = "reconcile"
    /\ memory' = [memory EXCEPT !.status = [p \in Proposals |->
          IF @[p] # "posting" THEN @[p] ELSE IF issues[p].n > 0 THEN "submitted" ELSE "pending"]]
    /\ SaveOr([scan EXCEPT !.pc = "load"])
    /\ Outside /\ UNCHANGED scans

\* Every interrupted creation is found by its marker, or the scan goes no further.
ReconcilePosting ==
    /\ scan.pc = "reconcile"
    /\ IF \E p \in With("posting") : issues[p].n = 0
       THEN scan' = Idle /\ UNCHANGED <<state, memory, scanfaults>>
       ELSE /\ memory' = [memory EXCEPT !.status = [p \in Proposals |->
                  IF @[p] = "posting" THEN "submitted" ELSE @[p]]]
            /\ SaveOr([scan EXCEPT !.pc = "load"])
    /\ Outside /\ UNCHANGED scans

\* The scan is not due, or the branch has not moved since the last one.
NothingToScan ==
    /\ scan.pc = "load"
    /\ \/ memory.last > 0 /\ scan' = Idle /\ UNCHANGED <<state, scanfaults>>
       \/ memory.last = branch /\ With("none") # Proposals /\ memory' = memory /\ SaveOr(Idle)
    /\ Outside /\ UNCHANGED <<memory, scans>>

\* The agent's proposals become pending, at the commit the scan is of.
Propose ==
    /\ scan.pc = "load" /\ (memory.last # branch \/ With("none") = Proposals)
    /\ \E new \in SUBSET With("none") :
          memory' = [last |-> branch,
                     status |-> [p \in Proposals |-> IF p \in new THEN "pending"
                                                     ELSE memory.status[p]],
                     found |-> [p \in Proposals |-> IF p \in new THEN branch
                                                    ELSE memory.found[p]]]
    /\ SaveOr([scan EXCEPT !.pc = "filing", !.commit = branch])
    /\ Outside /\ UNCHANGED scans

NextPending == {p \in With("pending") : \A q \in With("pending") : p <= q}

\* A bug: the creation is not announced in state.json first.
MarkUnsaved ==
    /\ scan.pc = "filing"
    /\ \E p \in NextPending :
       /\ memory' = Marked(p, "posting") /\ scan' = [scan EXCEPT !.pc = "posting", !.p = p]
    /\ Outside /\ UNCHANGED <<state, scans, scanfaults>>

\* The next pending proposal, of this scan or an earlier one.
MarkPosting ==
    /\ scan.pc = "filing"
    /\ \E p \in NextPending :
       memory' = Marked(p, "posting") /\ SaveOr([scan EXCEPT !.pc = "posting", !.p = p])
    /\ Outside /\ UNCHANGED scans

AllFiled ==
    /\ scan.pc = "filing" /\ With("pending") = {} /\ scan' = Idle
    /\ Outside /\ UNCHANGED <<state, memory, scans, scanfaults>>

Created(p) == [issues EXCEPT ![p] = [n |-> @.n + 1, commit |-> scan.commit]]

\* GitHub creates the issue, which names the commit of the scan that files it.
CreateIssue ==
    /\ scan.pc = "posting" /\ issues' = Created(scan.p)
    /\ memory' = Marked(scan.p, "submitted") /\ SaveOr([scan EXCEPT !.pc = "filing", !.p = 0])
    /\ UNCHANGED <<branch, unseen, scans>>

\* GitHub refuses it, or its answer is lost with the issue made or to be listed
\* later: the proposal stays "posting", whatever the error.
CreateFails ==
    /\ scan.pc = "posting" /\ ScanFault /\ scan' = Idle
    /\ \/ UNCHANGED <<issues, unseen>>
       \/ issues' = Created(scan.p) /\ UNCHANGED unseen
       \/ /\ unseen' = unseen \cup {scan.p}
          /\ issues' = [issues EXCEPT ![scan.p] = [n |-> @.n, commit |-> scan.commit]]
    /\ UNCHANGED <<branch, state, memory, scans>>

\* A read or the agent fails, or the process dies with what it had in memory.
ScanFails ==
    /\ scan.pc # "idle" /\ ScanFault /\ scan' = Idle /\ memory' \in {memory, state}
    /\ Outside /\ UNCHANGED <<state, scans>>

SimplifierNext ==
    \/ Moved \/ Listed \/ ScanStarts \/ ReconcilePosting \/ NothingToScan \/ Propose
    \/ MarkPosting \/ AllFiled \/ CreateIssue \/ CreateFails \/ ScanFails

SimplifierSpec == SimplifierInit /\ [][SimplifierNext]_simplifier

----------------------------------------------------------------------------
\* Properties.

SimplifierTypeOK ==
    /\ branch \in 1..MaxHeads /\ unseen \subseteq Proposals
    /\ \A s \in {state, memory} :
          /\ s.last \in 0..branch /\ s.status \in [Proposals -> Statuses]
          /\ s.found \in [Proposals -> 0..branch]
    /\ scan.pc \in {"idle", "reconcile", "load", "filing", "posting"}
    /\ scans \in 0..MaxScans /\ scanfaults \in 0..MaxScanFaults

(* A proposal is filed once, whatever answers are lost, however late GitHub  *)
(* lists an issue, and wherever the bot dies; one it counts as submitted is. *)
FiledOnce ==
    \A p \in Proposals :
        /\ issues[p].n + Cardinality(unseen \cap {p}) <= 1
        /\ "submitted" \in {state.status[p], memory.status[p]} => issues[p].n = 1

(* At most one creation is ever in doubt: the next waits for its outcome.    *)
OneInDoubt == Cardinality({p \in Proposals : "posting" \in {state.status[p], memory.status[p]}}) <= 1

(* An issue names the commit its proposal was found at ("Investigated at     *)
(* commit", github.go).                                                      *)
NamesItsCommit ==
    \A p \in Proposals : issues[p].n > 0 => issues[p].commit = memory.found[p]
=============================================================================
