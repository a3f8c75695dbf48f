----------------------------- MODULE TownProofs -----------------------------
(***************************************************************************)
(* Theorems about the parts of Town's service that keep a state of their   *)
(* own, for any value of their constants: how far admission overshoots the *)
(* budget (Budget); that the attention hook tells a person of each need at *)
(* most once and forgets none (Attention); that no change is lost between  *)
(* two inventories (Inventory); what a storage cleanup removes and reports *)
(* (Storage); that the quiet state on show is the one the windows define   *)
(* (QuietHours); that a bot starts from a whole installation of its harness *)
(* (Harness); and about all of them together, as MCTown composes them.     *)
(***************************************************************************)
EXTENDS MCTown, FiniteSetTheorems, WellFoundedInduction, TLAPS

-----------------------------------------------------------------------------
(***************************************************************************)
(* Budget.                                                                 *)
(***************************************************************************)

\* The runs in progress, the ones that count against the limit, and the agents
\* of this period that nobody has charged yet.
AtWork      == {w \in Workers : phase[w].at # "idle"}
Slots     == {w \in Workers : phase[w].at \in {"running", "repairing"}}
Uncharged == {w \in Workers : phase[w].at \in {"running", "repairing", "repaired"}
                              /\ phase[w].from = period}

\* A run is in progress or charged at most once, and an agent of this period
\* is charged to it or still at work: what admission did not see is at work.
StartsCounted == ledger.attempts + Cardinality(AtWork) <= starts /\ ledger.spent <= ledger.attempts
AgentsCounted == agents \in Int /\ agents <= Attempts + Cardinality(Uncharged)
BudgetInv == BudgetTypeOK /\ StartsCounted /\ AgentsCounted /\ OvershootBounded

LEMMA SetsAreFinite ==
    /\ IsFiniteSet(Workers)
    /\ \A S \in SUBSET Workers : IsFiniteSet(S) /\ Cardinality(S) \in Nat
<1>1. IsFiniteSet(Workers)
  BY BudgetConstants, FS_AddElement DEF Workers
<1> QED
  BY <1>1, FS_Subset, FS_CardinalityType

LEMMA SetsAreWorkers ==
    AtWork \in SUBSET Workers /\ Slots \in SUBSET Workers /\ Uncharged \in SUBSET Workers
BY DEF AtWork, Slots, Uncharged

LEMMA PrimedSetsAreWorkers ==
    AtWork' \in SUBSET Workers /\ Uncharged' \in SUBSET Workers
BY DEF AtWork, Uncharged, Workers, Repo

\* Only the repaired branch is neither in a slot nor charged.
LEMMA OneBeyondSlots ==
    ASSUME BudgetTypeOK
    PROVE  /\ Cardinality(Uncharged) <= Cardinality(Slots) + 1
           /\ phase[Repo].at # "repaired" => Cardinality(Uncharged) <= Cardinality(Slots)
<1>1. Uncharged \subseteq Slots \cup {Repo}
  BY DEF Uncharged, Slots, BudgetTypeOK, Workers
<1>2. phase[Repo].at # "repaired" => Uncharged \subseteq Slots
  BY DEF Uncharged, Slots, BudgetTypeOK, Workers
<1>3. IsFiniteSet(Slots) /\ IsFiniteSet(Uncharged)
  BY SetsAreFinite, SetsAreWorkers
<1>4. /\ IsFiniteSet(Slots \cup {Repo})
      /\ Cardinality(Slots \cup {Repo}) <= Cardinality(Slots) + 1
      /\ Cardinality(Slots) \in Nat /\ Cardinality(Uncharged) \in Nat
  <2>1. Cardinality(Slots) \in Nat /\ Cardinality(Uncharged) \in Nat
    BY <1>3, FS_CardinalityType
  <2>2. /\ IsFiniteSet(Slots \cup {Repo})
        /\ Cardinality(Slots \cup {Repo})
             = IF Repo \in Slots THEN Cardinality(Slots) ELSE Cardinality(Slots) + 1
    BY <1>3, FS_AddElement
  <2> QED
    BY <2>1, <2>2
<1>5. Cardinality(Uncharged) <= Cardinality(Slots \cup {Repo})
  BY <1>1, <1>4, FS_Subset
<1>6. phase[Repo].at # "repaired" => Cardinality(Uncharged) <= Cardinality(Slots)
  BY <1>2, <1>3, FS_Subset
<1> QED
  BY <1>4, <1>5, <1>6, FS_CardinalityType, <1>3

LEMMA BudgetInitially == BudgetInit => BudgetInv
<1> SUFFICES ASSUME BudgetInit PROVE BudgetInv
  OBVIOUS
<1>1. AtWork = {} /\ Uncharged = {}
  BY DEF BudgetInit, AtWork, Uncharged, Off
<1>2. Cardinality(AtWork) = 0 /\ Cardinality(Uncharged) = 0
  BY <1>1, FS_EmptySet
<1>3. BudgetTypeOK
  <2>1. Off \in [at : Phases, from : 0..MaxPeriod]
    BY BudgetConstants DEF Off, Phases
  <2>2. \A w \in Workers : phase[w] = Off
    BY DEF BudgetInit
  <2>3. phase \in [Workers -> [at : Phases, from : 0..MaxPeriod]]
    BY <2>1 DEF BudgetInit
  <2>4. (\A h \in Houses : phase[h].at = "idle") /\ phase[Repo].at = "idle"
    BY <2>2 DEF Off, Workers
  <2>5. limit \in 1..MaxLimit /\ ledger \in [from : 0..MaxPeriod, attempts : 0..MaxStarts, spent : 0..MaxStarts]
    BY BudgetConstants DEF BudgetInit
  <2> QED
    BY <2>3, <2>4, <2>5, BudgetConstants DEF BudgetInit, BudgetTypeOK
<1> QED
  BY <1>2, <1>3, BudgetConstants
  DEF BudgetInit, BudgetInv, StartsCounted, AgentsCounted, OvershootBounded, Attempts

\* What an admission finds: room in the budget and a free slot.
LEMMA AdmissionLeavesRoom ==
    ASSUME BudgetInv, Eligible, ActiveWorkers < limit
    PROVE  /\ agents + 1 <= MaxAttempts + MaxLimit
           /\ Attempts + Cardinality(Uncharged) + 1 <= MaxAttempts + MaxLimit
<1>1. Attempts < MaxAttempts
  BY BudgetConstants DEF BudgetInv, BudgetTypeOK, Eligible, Exhausted, Attempts
<1>2. Cardinality(Uncharged) <= Cardinality(Slots) + 1
  BY OneBeyondSlots DEF BudgetInv
<1>3. Cardinality(Slots) < limit
  BY DEF ActiveWorkers, Slots
<1>4. Cardinality(Uncharged) \in Nat /\ Cardinality(Slots) \in Nat
  BY SetsAreFinite, SetsAreWorkers
<1> QED
  BY <1>1, <1>2, <1>3, <1>4, BudgetConstants
  DEF BudgetInv, AgentsCounted, BudgetTypeOK, Attempts

\* One more run: the counts grow by it.
LEMMA EnteringCounts ==
    ASSUME BudgetInv, NEW w \in Workers, NEW at \in Phases, Enters(w, at), UNCHANGED period
    PROVE  /\ AtWork' \subseteq AtWork \cup {w}
           /\ at \in {"running", "repairing", "repaired"} => Uncharged' = Uncharged \cup {w}
           /\ at \notin {"running", "repairing", "repaired"} /\ w \notin Uncharged
              => Uncharged' = Uncharged
<1>1. /\ phase'[w].at = at /\ phase'[w].from = period
      /\ \A v \in Workers \ {w} : phase'[v] = phase[v]
  BY DEF Enters, BudgetInv, BudgetTypeOK
<1>2. AtWork' \subseteq AtWork \cup {w}
  BY <1>1 DEF AtWork, Workers, Repo
<1>3. at \in {"running", "repairing", "repaired"} => Uncharged' = Uncharged \cup {w}
  BY <1>1 DEF Uncharged, Workers, Repo
<1>4. at \notin {"running", "repairing", "repaired"} /\ w \notin Uncharged => Uncharged' = Uncharged
  BY <1>1 DEF Uncharged, Workers, Repo
<1> QED
  BY <1>2, <1>3, <1>4
\* One run less, or several.
LEMMA CountsOfSubsets ==
    ASSUME NEW S \in SUBSET Workers, NEW T \in SUBSET Workers
    PROVE  /\ Cardinality(S) \in Nat /\ Cardinality(T) \in Nat
           /\ S \subseteq T => Cardinality(S) <= Cardinality(T)
           /\ \A w : S \subseteq T \cup {w} => Cardinality(S) <= Cardinality(T) + 1
           /\ \A w : T \subseteq S \cup {w} => Cardinality(S) >= Cardinality(T) - 1
           /\ \A w \in T : S \subseteq T \ {w} => Cardinality(S) <= Cardinality(T) - 1
<1>1. IsFiniteSet(S) /\ IsFiniteSet(T) /\ Cardinality(S) \in Nat /\ Cardinality(T) \in Nat
  BY SetsAreFinite
<1>2. S \subseteq T => Cardinality(S) <= Cardinality(T)
  BY <1>1, FS_Subset
<1>3. ASSUME NEW A \in SUBSET Workers, NEW B \in SUBSET Workers, NEW w, A \subseteq B \cup {w}
      PROVE  Cardinality(A) <= Cardinality(B) + 1
  <2>1. IsFiniteSet(B) /\ Cardinality(A) \in Nat /\ Cardinality(B) \in Nat
    BY SetsAreFinite
  <2>2. /\ IsFiniteSet(B \cup {w})
        /\ Cardinality(B \cup {w}) = IF w \in B THEN Cardinality(B) ELSE Cardinality(B) + 1
    BY <2>1, FS_AddElement
  <2>3. Cardinality(A) <= Cardinality(B \cup {w})
    BY <1>3, <2>2, FS_Subset
  <2> QED
    BY <2>1, <2>2, <2>3
<1>4. ASSUME NEW w \in T, S \subseteq T \ {w}
      PROVE  Cardinality(S) <= Cardinality(T) - 1
  <2>1. /\ IsFiniteSet(T \ {w})
        /\ Cardinality(T \ {w}) = IF w \in T THEN Cardinality(T) - 1 ELSE Cardinality(T)
    BY <1>1, FS_RemoveElement
  <2>2. Cardinality(S) <= Cardinality(T \ {w})
    BY <1>4, <2>1, FS_Subset
  <2> QED
    BY <2>1, <2>2
<1>5. \A w : S \subseteq T \cup {w} => Cardinality(S) <= Cardinality(T) + 1
  BY <1>3
<1>6. ASSUME NEW w, T \subseteq S \cup {w}
      PROVE  Cardinality(S) >= Cardinality(T) - 1
  <2>1. Cardinality(T) <= Cardinality(S) + 1
    BY <1>3, <1>6
  <2> QED
    BY <1>1, <2>1
<1> QED
  BY <1>1, <1>2, <1>4, <1>5, <1>6

LEMMA BudgetStep == BudgetInv /\ [BudgetNext]_budgetVars => BudgetInv'
<1> SUFFICES ASSUME BudgetInv, [BudgetNext]_budgetVars PROVE BudgetInv'
  OBVIOUS
<1> USE BudgetConstants
<1>0. /\ AtWork \in SUBSET Workers /\ Uncharged \in SUBSET Workers
      /\ AtWork' \in SUBSET Workers /\ Uncharged' \in SUBSET Workers
      /\ Cardinality(AtWork) \in Nat /\ Cardinality(Uncharged) \in Nat
      /\ Cardinality(AtWork') \in Nat /\ Cardinality(Uncharged') \in Nat
      /\ Attempts \in Nat
  BY SetsAreWorkers, PrimedSetsAreWorkers, SetsAreFinite DEF BudgetInv, BudgetTypeOK, Attempts
<1>1. ASSUME NEW w \in Workers, Dispatch(w) PROVE BudgetInv'
  <2>1. Enters(w, "running") /\ "running" \in Phases /\ w \in Houses /\ w \notin Uncharged
    BY <1>1 DEF Dispatch, Phases, Uncharged
  <2>2. AtWork' \subseteq AtWork \cup {w} /\ Uncharged' = Uncharged \cup {w}
    BY <2>1, <1>1, EnteringCounts DEF Dispatch
  <2>3. Cardinality(AtWork') <= Cardinality(AtWork) + 1
    BY <1>0, <2>2, CountsOfSubsets
  <2>4. Cardinality(Uncharged') = Cardinality(Uncharged) + 1
    <3>1. IsFiniteSet(Uncharged)
      BY <1>0, SetsAreFinite
    <3> QED
      BY <3>1, <2>1, <2>2, FS_AddElement
  <2>5. agents + 1 <= MaxAttempts + MaxLimit
    BY <1>1, AdmissionLeavesRoom DEF Dispatch
  <2>6. BudgetTypeOK'
    BY <1>1, <2>1 DEF BudgetInv, BudgetTypeOK, Dispatch, BeginsRun, Enters, Workers, Phases
  <2> QED
    BY <1>0, <1>1, <2>3, <2>4, <2>5, <2>6
    DEF BudgetInv, BudgetTypeOK, Dispatch, BeginsRun, StartsCounted, AgentsCounted, OvershootBounded, Attempts
<1>2. ASSUME InventoryStarts PROVE BudgetInv'
  <2>1. Enters(Repo, "inventory") /\ "inventory" \in Phases /\ Repo \in Workers /\ Repo \notin Uncharged
    BY <1>2 DEF InventoryStarts, Phases, Uncharged, Workers
  <2>2. AtWork' \subseteq AtWork \cup {Repo} /\ Uncharged' = Uncharged
    BY <2>1, <1>2, EnteringCounts DEF InventoryStarts
  <2>3. Cardinality(AtWork') <= Cardinality(AtWork) + 1
    BY <1>0, <2>2, CountsOfSubsets
  <2>4. BudgetTypeOK'
    BY <1>2, <2>1 DEF BudgetInv, BudgetTypeOK, InventoryStarts, BeginsRun, Enters, Workers, Phases
  <2> QED
    BY <1>0, <1>2, <2>2, <2>3, <2>4
    DEF BudgetInv, BudgetTypeOK, InventoryStarts, BeginsRun, StartsCounted, AgentsCounted, OvershootBounded, Attempts
<1>3. ASSUME ClaimRepair PROVE BudgetInv'
  <2>1. Enters(Repo, "repairing") /\ "repairing" \in Phases /\ Repo \in Workers /\ Repo \notin Uncharged
        /\ Repo \in AtWork
    BY <1>3 DEF ClaimRepair, Phases, Uncharged, Workers, AtWork
  <2>2. AtWork' \subseteq AtWork /\ Uncharged' = Uncharged \cup {Repo}
    BY <2>1, <1>3, EnteringCounts DEF ClaimRepair
  <2>3. Cardinality(AtWork') <= Cardinality(AtWork)
    BY <1>0, <2>2, CountsOfSubsets
  <2>4. Cardinality(Uncharged') = Cardinality(Uncharged) + 1
    <3>1. IsFiniteSet(Uncharged)
      BY <1>0, SetsAreFinite
    <3> QED
      BY <3>1, <2>1, <2>2, FS_AddElement
  <2>5. agents + 1 <= MaxAttempts + MaxLimit
    BY <1>3, AdmissionLeavesRoom DEF ClaimRepair
  <2>6. BudgetTypeOK'
    BY <1>3, <2>1 DEF BudgetInv, BudgetTypeOK, ClaimRepair, Enters, Workers, Phases
  <2> QED
    BY <1>0, <1>3, <2>3, <2>4, <2>5, <2>6
    DEF BudgetInv, BudgetTypeOK, ClaimRepair, StartsCounted, AgentsCounted, OvershootBounded, Attempts
<1>4. ASSUME ReleaseRepair PROVE BudgetInv'
  <2>1. /\ phase' \in [Workers -> [at : Phases, from : 0..MaxPeriod]]
        /\ phase'[Repo].at = "repaired" /\ phase'[Repo].from = phase[Repo].from
        /\ \A w \in Workers \ {Repo} : phase'[w] = phase[w]
        /\ phase[Repo].at = "repairing" /\ Repo \in Workers
    BY <1>4 DEF ReleaseRepair, BudgetInv, BudgetTypeOK, Workers, Phases
  <2>2. AtWork' = AtWork /\ Uncharged' = Uncharged
    BY <1>4, <2>1 DEF AtWork, Uncharged, BudgetInv, BudgetTypeOK, Workers, ReleaseRepair
  <2>3. BudgetTypeOK'
    BY <1>4, <2>1 DEF BudgetInv, BudgetTypeOK, ReleaseRepair, Workers, Phases
  <2> QED
    BY <1>0, <1>4, <2>2, <2>3
    DEF BudgetInv, BudgetTypeOK, ReleaseRepair, StartsCounted, AgentsCounted, OvershootBounded, Attempts
<1>5. ASSUME NEW w \in Workers, Finish(w) PROVE BudgetInv'
  <2>1. /\ phase' = [phase EXCEPT ![w] = Off] /\ w \in AtWork /\ Off \in [at : Phases, from : 0..MaxPeriod]
        /\ Off.at = "idle"
    BY <1>5 DEF Finish, AtWork, Off, Phases
  <2>2. AtWork' \subseteq AtWork \ {w} /\ Uncharged \subseteq Uncharged' \cup {w}
    BY <1>5, <2>1 DEF Finish, AtWork, Uncharged, BudgetInv, BudgetTypeOK, Workers
  <2>3. ~HeldASlot(w) => Uncharged' = Uncharged
    BY <1>5, <2>1 DEF Finish, Uncharged, BudgetInv, BudgetTypeOK, Workers, HeldASlot
  <2>4. Cardinality(AtWork') <= Cardinality(AtWork) - 1
    BY <1>0, <2>1, <2>2, CountsOfSubsets
  <2>5. Cardinality(Uncharged') >= Cardinality(Uncharged) - 1
    BY <1>0, <2>2, CountsOfSubsets
  <2>6. /\ phase' \in [Workers -> [at : Phases, from : 0..MaxPeriod]]
        /\ \A h \in Houses : phase'[h].at \in {"idle", "running"}
        /\ phase'[Repo].at # "running"
    BY <2>1 DEF BudgetInv, BudgetTypeOK, Workers
  <2>7. /\ period' = period /\ quiet' = quiet /\ limit' = limit
        /\ starts' = starts /\ agents' = agents
    BY <1>5 DEF Finish
  <2>8. CASE ~HeldASlot(w)
    <3>1. ledger' = ledger
      BY <1>5, <2>8 DEF Finish
    <3>2. BudgetTypeOK'
      BY <2>6, <2>7, <3>1 DEF BudgetInv, BudgetTypeOK
    <3>3. Attempts' = Attempts
      BY <2>7, <3>1 DEF Attempts
    <3> QED
      BY <1>0, <2>3, <2>4, <2>8, <2>7, <3>1, <3>2, <3>3
      DEF BudgetInv, BudgetTypeOK, StartsCounted, AgentsCounted, OvershootBounded
  <2>9. CASE HeldASlot(w)
    <3>1. PICK cost \in {0, 1} : ledger' = Charged(cost)
      BY <1>5, <2>9 DEF Finish
    <3>2. /\ ledger'.from = period /\ ledger' \in [from : 0..MaxPeriod, attempts : Nat, spent : Nat]
          /\ ledger'.attempts = Attempts + 1 /\ ledger'.spent = Spent + cost
      <4>1. /\ RollBudget \in [from : 0..MaxPeriod, attempts : Nat, spent : Nat]
            /\ RollBudget.from = period /\ RollBudget.attempts = Attempts /\ RollBudget.spent = Spent
        BY DEF RollBudget, Attempts, Spent, BudgetInv, BudgetTypeOK
      <4>2. ledger' = [from |-> RollBudget.from, attempts |-> RollBudget.attempts + 1,
                       spent |-> RollBudget.spent + cost]
        BY <3>1, <4>1 DEF Charged
      <4> QED
        BY <4>1, <4>2
    <3>3. /\ Attempts <= ledger.attempts /\ Spent <= Attempts /\ Spent \in Nat
          /\ starts \in 0..MaxStarts /\ ledger.attempts \in Nat
      BY DEF Attempts, Spent, BudgetInv, BudgetTypeOK, StartsCounted
    <3>4. ledger'.attempts + Cardinality(AtWork') <= starts /\ ledger'.spent <= ledger'.attempts
      BY <1>0, <2>4, <3>2, <3>3 DEF BudgetInv, StartsCounted
    <3>5. ledger' \in [from : 0..MaxPeriod, attempts : 0..MaxStarts, spent : 0..MaxStarts]
      BY <1>0, <3>2, <3>3, <3>4
    <3>6. BudgetTypeOK' /\ StartsCounted'
      BY <2>6, <2>7, <3>4, <3>5 DEF BudgetInv, BudgetTypeOK, StartsCounted
    <3>7. Attempts' = Attempts + 1 /\ agents' = agents
      BY <2>7, <3>2 DEF Attempts
    <3> QED
      BY <1>0, <2>5, <3>6, <3>7 DEF BudgetInv, AgentsCounted, OvershootBounded
  <2> QED
    BY <2>8, <2>9
<1>6. ASSUME NextPeriod PROVE BudgetInv'
  <2>1. AtWork' = AtWork /\ Attempts' \in Nat
    BY <1>6 DEF NextPeriod, AtWork, Workers, Attempts, BudgetInv, BudgetTypeOK
  <2>2. BudgetTypeOK'
    BY <1>6 DEF NextPeriod, BudgetInv, BudgetTypeOK, Workers
  <2> QED
    BY <1>0, <1>6, <2>1, <2>2
    DEF NextPeriod, BudgetInv, StartsCounted, AgentsCounted, OvershootBounded
<1>7. ASSUME QuietChanges \/ SetCapacity PROVE BudgetInv'
  <2>1. AtWork' = AtWork /\ Uncharged' = Uncharged /\ Attempts' = Attempts
    BY <1>7 DEF QuietChanges, SetCapacity, AtWork, Uncharged, Workers, Attempts
  <2>2. BudgetTypeOK'
    BY <1>7 DEF QuietChanges, SetCapacity, BudgetInv, BudgetTypeOK, Workers
  <2> QED
    BY <1>7, <2>1, <2>2
    DEF QuietChanges, SetCapacity, BudgetInv, StartsCounted, AgentsCounted, OvershootBounded
<1>8. ASSUME Crash PROVE BudgetInv'
  <2>1. /\ \A w \in Workers : phase'[w] = Off
        /\ phase' \in [Workers -> [at : Phases, from : 0..MaxPeriod]]
    BY <1>8 DEF Crash, Off, Phases
  <2>2. AtWork' = {} /\ Uncharged' = {}
    BY <2>1 DEF AtWork, Uncharged, Workers, Off
  <2>3. Cardinality(AtWork') = 0 /\ Cardinality(Uncharged') = 0
    BY <2>2, FS_EmptySet
  <2>4. agents' = agents - Cardinality(Uncharged) /\ Attempts' = Attempts
    BY <1>8 DEF Crash, Uncharged, Attempts
  <2>5. BudgetTypeOK'
    BY <1>8, <2>1 DEF Crash, BudgetInv, BudgetTypeOK, Workers, Off
  <2> QED
    BY <1>0, <1>8, <2>3, <2>4, <2>5
    DEF Crash, BudgetInv, BudgetTypeOK, StartsCounted, AgentsCounted, OvershootBounded
<1>9. ASSUME UNCHANGED budgetVars PROVE BudgetInv'
  <2>1. AtWork' = AtWork /\ Uncharged' = Uncharged /\ Attempts' = Attempts
    BY <1>9 DEF budgetVars, AtWork, Uncharged, Workers, Attempts
  <2> QED
    BY <1>9, <2>1
    DEF budgetVars, BudgetInv, BudgetTypeOK, Workers, StartsCounted, AgentsCounted, OvershootBounded
<1> QED
  BY <1>1, <1>2, <1>3, <1>4, <1>5, <1>6, <1>7, <1>8, <1>9 DEF BudgetNext

\* The state of admission is well typed, the charged attempts among them: an
\* attempt is charged once (budget.go, chargeBudget).
THEOREM BudgetIsTyped == BudgetSpec => []BudgetTypeOK
<1>1. BudgetInv => BudgetTypeOK
  BY DEF BudgetInv
<1> QED
  BY <1>1, BudgetInitially, BudgetStep, PTL DEF BudgetSpec

\* For any budget and any limit a period sees at most as many agents as its
\* budget and the largest limit together, whatever the limit is set to, whoever
\* crashes, and although a repair gives its slot back before it is charged
\* (dispatchEligibility, claimRepair, chargeBudget).
THEOREM OvershootIsBounded == BudgetSpec => []OvershootBounded
<1>1. BudgetInv => OvershootBounded
  BY DEF BudgetInv
<1> QED
  BY <1>1, BudgetInitially, BudgetStep, PTL DEF BudgetSpec

-----------------------------------------------------------------------------
(***************************************************************************)
(* Attention.                                                              *)
(***************************************************************************)

\* A saved state remembers as seen only what is queued in it or was claimed,
\* and nothing while the hook is off.
Remembers(s) ==
    /\ s \in Saved0
    /\ ~s.enabled => s.seen = {}
    /\ s.enabled => s.seen \subseteq s.pending \cup s.taken

\* What of a notice is still to be told if the file holds s: it is queued, and
\* the command may be about to run for it.
Queued(n, s) == IF n \in s.pending THEN 1 ELSE 0
Running(n)   == IF watcher.pc = "run" /\ n \in watcher.notice THEN 1 ELSE 0
CountsFit(s) == \A n \in Notices : ran[n] + Queued(n, s) + Running(n) <= raised[n]

WatcherTyped == watcher \in [pc : Places, notice : SUBSET Notices] /\ snoozed \subseteq Notices
CountsTyped  == ran \in [Notices -> Nat] /\ raised \in [Notices -> Nat]
Claimless    == watcher.pc \in {"look", "check", "claim", "wait"} => now.active = {}

\* Every file a power loss may bring back satisfies what the state in memory does.
AttentionInv ==
    /\ \A s \in disk.kept \cup {now} : Remembers(s) /\ CountsFit(s)
    /\ WatcherTyped /\ CountsTyped /\ Claimless /\ WatcherAwake

LEMMA AttentionInitially == AttentionInit => AttentionInv
<1> SUFFICES ASSUME AttentionInit PROVE AttentionInv
  OBVIOUS
<1>1. /\ now = [needs |-> {}, enabled |-> TRUE, seen |-> {}, pending |-> {}, active |-> {},
                taken |-> {}]
      /\ disk.kept = {now} /\ snoozed \subseteq Notices
      /\ watcher = [pc |-> "start", notice |-> {}]
      /\ ran = [n \in Notices |-> 0] /\ raised = [n \in Notices |-> 0]
  BY DEF AttentionInit
<1>2. Remembers(now)
  BY <1>1 DEF Remembers, Saved0
<1>3. CountsFit(now)
  BY <1>1 DEF CountsFit, Queued, Running
<1>4. WatcherTyped /\ CountsTyped /\ Claimless /\ WatcherAwake
  BY <1>1 DEF WatcherTyped, CountsTyped, Claimless, WatcherAwake, Places
<1> QED
  BY <1>1, <1>2, <1>3, <1>4 DEF AttentionInv

\* A commit that keeps what it takes from the queue as claimed forgets nothing.
LEMMA CommittedRemembers ==
    ASSUME NEW old, NEW s, Remembers(old), s \in Saved0, snoozed \subseteq Notices,
           s.seen = old.seen, s.taken = old.taken,
           old.pending \ s.pending \subseteq s.active \ old.active
    PROVE  /\ Remembers(Committed(old, s))
           /\ Committed(old, s).pending \subseteq s.pending \cup New(old, s)
           /\ Committed(old, s).active = s.active
<1>1. AttentionSet(s) \subseteq Notices /\ New(old, s) \subseteq Notices /\ old \in Saved0
  BY DEF AttentionSet, New, Saved0, Remembers
<1>2. QueueAttention(old, s) \in Saved0
  BY <1>1 DEF QueueAttention, Saved0
<1> DEFINE c == Committed(old, s)
<1>3. /\ c \in Saved0 /\ c.active = s.active /\ c.enabled = s.enabled
      /\ c.taken = (s.taken \ New(old, s)) \cup (s.active \ old.active)
  BY <1>1, <1>2 DEF Committed, QueueAttention, Saved0
<1>4. CASE ~s.enabled
  <2>1. c.seen = {} /\ c.pending = {}
    BY <1>1, <1>2, <1>4 DEF Committed, QueueAttention, Saved0
  <2> QED
    BY <1>3, <1>4, <2>1 DEF Remembers
<1>5. CASE s.enabled
  <2>1. c.seen = AttentionSet(s) /\ c.pending = s.pending \cup New(old, s)
    BY <1>1, <1>2, <1>5 DEF Committed, QueueAttention, Saved0
  <2>2. AttentionSet(s) \subseteq c.pending \cup c.taken
    BY <1>3, <1>5, <2>1 DEF New, Remembers
  <2>3. c.seen \subseteq c.pending \cup c.taken
    BY <2>1, <2>2
  <2> HIDE DEF c
  <2>4. Remembers(c) /\ c.pending \subseteq s.pending \cup New(old, s) /\ c.active = s.active
    BY <1>3, <1>5, <2>1, <2>3 DEF Remembers
  <2> QED
    BY <2>4 DEF c
<1> QED
  BY <1>3, <1>4, <1>5 DEF Saved0

\* Every commit, in force or reported failed, that leaves the notices alone or
\* claims them for the run it starts.
LEMMA CommitKeeps ==
    ASSUME AttentionInv, NEW s \in Saved0, s.seen = now.seen, s.taken = now.taken,
           s.pending \subseteq now.pending,
           now.pending \ s.pending \subseteq s.active \ now.active,
           Commits(s) \/ Unsynced(s), UNCHANGED <<ran, snoozed>>,
           watcher' \in [pc : Places, notice : SUBSET Notices],
           watcher'.pc = "run" =>
              \/ watcher.pc = "run" /\ watcher'.notice = watcher.notice
              \/ Commits(s) /\ watcher'.notice \subseteq now.pending \ s.pending
    PROVE  /\ \A t \in disk'.kept \cup {now'} : Remembers(t) /\ CountsFit(t)'
           /\ WatcherTyped' /\ CountsTyped' /\ awake' /\ now'.active = s.active
<1> DEFINE N == New(now, s)
<1>1. /\ now' = Committed(now, s) /\ awake' = TRUE
      /\ raised' = [n \in Notices |-> IF n \in N THEN raised[n] + 1 ELSE raised[n]]
      /\ disk'.kept = {now'} \/ (disk'.kept = disk.kept \cup {now'} /\ ~Commits(s))
  <2>1. CASE Commits(s)
    <3>1. now' = Committed(now, s) /\ awake' = TRUE /\ Raises(now, s)
          /\ disk' = [now |-> now', kept |-> {now'}]
      BY <2>1 DEF Commits
    <3>2. disk'.kept = {now'}
      BY <3>1
    <3>3. raised' = [n \in Notices |-> IF n \in N THEN raised[n] + 1 ELSE raised[n]]
      BY <3>1 DEF Raises
    <3> QED
      BY <3>1, <3>2, <3>3
  <2>2. CASE ~Commits(s)
    <3>1. Unsynced(s)
      BY <2>2
    <3>2. now' = Committed(now, s) /\ awake' = TRUE /\ Raises(now, s)
          /\ disk' = [now |-> now', kept |-> disk.kept \cup {now'}]
      BY <3>1 DEF Unsynced
    <3> QED
      BY <2>2, <3>2 DEF Raises
  <2> QED
    BY <2>1, <2>2
<1>2. /\ Remembers(now') /\ now'.pending \subseteq s.pending \cup N /\ now'.active = s.active
  BY <1>1, CommittedRemembers DEF AttentionInv, WatcherTyped
<1>3. CountsTyped' /\ ran' = ran /\ CountsTyped
  BY <1>1 DEF AttentionInv, CountsTyped
<1> HIDE DEF N
<1>4. ASSUME NEW n \in Notices
      PROVE  ran'[n] + Queued(n, now') + Running(n)' <= raised'[n]
  <2>1. ran[n] \in Nat /\ raised[n] \in Nat /\ raised'[n] = IF n \in N THEN raised[n] + 1 ELSE raised[n]
    BY <1>1, <1>3 DEF CountsTyped
  <2>2. ran[n] + Queued(n, now) + Running(n) <= raised[n]
    BY DEF AttentionInv, CountsFit
  <2>3. Running(n)' <= Running(n) \/ n \in now.pending \ s.pending
    BY DEF Running
  <2>4. n \in now'.pending => n \in s.pending \/ n \in N
    BY <1>2
  <2> QED
    BY <1>3, <2>1, <2>2, <2>3, <2>4 DEF Queued, Running
<1>5. ASSUME NEW t \in disk.kept, ~Commits(s)
      PROVE  Remembers(t) /\ \A n \in Notices : ran'[n] + Queued(n, t) + Running(n)' <= raised'[n]
  <2>1. Remembers(t) /\ CountsFit(t)
    BY DEF AttentionInv
  <2>2. \A n \in Notices : Running(n)' <= Running(n)
    BY <1>5 DEF Running
  <2>3. \A n \in Notices : raised'[n] >= raised[n] /\ ran'[n] = ran[n] /\ ran[n] \in Nat /\ raised[n] \in Nat
    BY <1>1, <1>3 DEF CountsTyped
  <2>4. \A n \in Notices : Running(n) \in Nat /\ Running(n)' \in Nat /\ Queued(n, t) \in Nat /\ raised'[n] \in Nat
    BY <1>1, <1>3 DEF Running, Queued, CountsTyped
  <2> QED
    BY <2>1, <2>2, <2>3, <2>4 DEF CountsFit
<1>6. WatcherTyped'
  BY DEF WatcherTyped, AttentionInv
<1> QED
  BY <1>1, <1>2, <1>3, <1>4, <1>5, <1>6 DEF CountsFit, Queued

\* A commit whose watcher goes where its claims allow.
LEMMA CommitThenInv ==
    ASSUME AttentionInv, NEW s \in Saved0, s.seen = now.seen, s.taken = now.taken,
           s.pending \subseteq now.pending,
           now.pending \ s.pending \subseteq s.active \ now.active,
           Commits(s) \/ Unsynced(s), UNCHANGED <<ran, snoozed>>,
           watcher' \in [pc : Places, notice : SUBSET Notices],
           watcher'.pc = "run" =>
              \/ watcher.pc = "run" /\ watcher'.notice = watcher.notice
              \/ Commits(s) /\ watcher'.notice \subseteq now.pending \ s.pending,
           watcher'.pc \in {"look", "check", "claim", "wait"} => s.active = {}
    PROVE  AttentionInv'
<1>1. /\ \A t \in disk'.kept \cup {now'} : Remembers(t) /\ CountsFit(t)'
      /\ WatcherTyped' /\ CountsTyped' /\ awake' /\ now'.active = s.active
  BY CommitKeeps
<1>2. \A t : Remembers(t)' <=> Remembers(t)
  BY DEF Remembers, Saved0
<1> QED
  BY <1>1, <1>2 DEF AttentionInv, Claimless, WatcherAwake

LEMMA AttentionStep == AttentionInv /\ [AttentionNext]_attnVars => AttentionInv'
<1> SUFFICES ASSUME AttentionInv, [AttentionNext]_attnVars PROVE AttentionInv'
  OBVIOUS
<1>0. /\ Remembers(now) /\ now \in Saved0 /\ WatcherTyped /\ CountsTyped /\ Claimless /\ WatcherAwake
      /\ watcher \in [pc : Places, notice : SUBSET Notices]
  BY DEF AttentionInv, Remembers, WatcherTyped
<1>1. ASSUME NeedsChange PROVE AttentionInv'
  <2>1. PICK n \in Notices :
          LET s == [now EXCEPT !.needs = IF n \in now.needs THEN now.needs \ {n} ELSE now.needs \cup {n}]
          IN  Commits(s) \/ Unsynced(s)
    BY <1>1 DEF NeedsChange
  <2> DEFINE s == [now EXCEPT !.needs = IF n \in now.needs THEN now.needs \ {n} ELSE now.needs \cup {n}]
  <2>2. /\ s \in Saved0 /\ s.seen = now.seen /\ s.taken = now.taken /\ s.pending = now.pending
        /\ s.active = now.active
    BY <1>0 DEF Saved0
  <2>3. UNCHANGED <<ran, snoozed, watcher>> /\ (Commits(s) \/ Unsynced(s))
    BY <1>1, <2>1 DEF NeedsChange
  <2> HIDE DEF s
  <2> QED
    BY <1>0, <2>2, <2>3, CommitThenInv DEF Claimless
<1>2. ASSUME SetAttentionHook PROVE AttentionInv'
  <2> DEFINE s == [now EXCEPT !.enabled = ~now.enabled]
  <2>1. /\ s \in Saved0 /\ s.seen = now.seen /\ s.taken = now.taken /\ s.pending = now.pending
        /\ s.active = now.active
    BY <1>0 DEF Saved0
  <2>2. UNCHANGED <<ran, snoozed, watcher>> /\ (Commits(s) \/ Unsynced(s))
    BY <1>2 DEF SetAttentionHook
  <2> HIDE DEF s
  <2> QED
    BY <1>0, <2>1, <2>2, CommitThenInv DEF Claimless
<1>3. ASSUME OtherCommit PROVE AttentionInv'
  <2>1. Commits(now) /\ UNCHANGED <<ran, snoozed, watcher>>
    BY <1>3 DEF OtherCommit
  <2> QED
    BY <1>0, <2>1, CommitThenInv DEF Claimless
<1>4. ASSUME UNCHANGED <<now, disk, ran, raised>>, WatcherTyped', Claimless',
             watcher'.pc # "run", watcher'.pc = "wait" => ~Ready(now) \/ awake'
      PROVE  AttentionInv'
  <2>1. \A n \in Notices : Running(n)' <= Running(n)
    BY <1>4 DEF Running
  <2>2. \A n \in Notices : Running(n) \in Nat /\ Running(n)' = 0 /\ ran[n] \in Nat /\ raised[n] \in Nat
    BY <1>0, <1>4 DEF Running, CountsTyped
  <2>3. \A s \in disk.kept \cup {now} : CountsFit(s)'
    BY <1>4, <2>1, <2>2 DEF CountsFit, Queued, AttentionInv
  <2> QED
    BY <1>0, <1>4, <2>3 DEF AttentionInv, Remembers, CountsTyped, WatcherAwake, Ready, Saved0
<1>5. ASSUME DeferralEnds \/ UNCHANGED attnVars PROVE AttentionInv'
  <2>1. UNCHANGED <<now, disk, watcher, awake, raised, ran>> /\ snoozed' \subseteq Notices
    BY <1>0, <1>5 DEF DeferralEnds, attnVars, WatcherTyped
  <2> QED
    BY <1>0, <2>1 DEF AttentionInv, Remembers, Saved0, CountsFit, Queued, Running, WatcherTyped,
       CountsTyped, Claimless, WatcherAwake, Ready
<1>6. ASSUME NEW s \in Saved0, s.seen = now.seen, s.taken = now.taken, s.pending \subseteq now.pending,
             now.pending \ s.pending \subseteq s.active \ now.active,
             (Unsynced(s) \/ Unsaved) /\ Stops, UNCHANGED <<quietly, ran>>
      PROVE  AttentionInv'
  <2>1. watcher' = [pc |-> "stopped", notice |-> {}] /\ watcher' \in [pc : Places, notice : SUBSET Notices]
        /\ watcher'.pc = "stopped"
    BY <1>6 DEF Stops, Places
  <2>2. UNCHANGED <<ran, snoozed>>
    BY <1>6 DEF quietly
  <2>3. CASE Unsynced(s)
    BY <1>6, <2>1, <2>2, <2>3, CommitThenInv
  <2>4. CASE Unsaved
    BY <1>0, <1>4, <2>1, <2>2, <2>4 DEF Unsaved, WatcherTyped, Claimless
  <2> QED
    BY <1>6, <2>3, <2>4
<1>7. ASSUME WatcherStarts PROVE AttentionInv'
  <2> DEFINE s == [now EXCEPT !.active = {}]
  <2>1. /\ s \in Saved0 /\ s.seen = now.seen /\ s.taken = now.taken /\ s.pending = now.pending
        /\ s.active = {} /\ OnStart(now) = s
    BY <1>0 DEF Saved0, OnStart, ClearsClaim
  <2>2. UNCHANGED <<quietly, ran>> /\ UNCHANGED <<ran, snoozed>>
    BY <1>7 DEF WatcherStarts, quietly
  <2>3. At("look") => /\ watcher' \in [pc : Places, notice : SUBSET Notices]
                      /\ watcher'.pc = "look"
    BY <1>0 DEF At, Places
  <2> HIDE DEF s
  <2>4. CASE now.active = {} /\ At("look") /\ UNCHANGED <<now, disk, awake, losses, raised>>
    BY <1>0, <1>4, <2>2, <2>3, <2>4 DEF WatcherTyped, Claimless
  <2>5. CASE Commits(s) /\ At("look")
    BY <2>1, <2>2, <2>3, <2>5, CommitThenInv
  <2>6. CASE (Unsynced(s) \/ Unsaved) /\ Stops
    BY <1>6, <2>1, <2>2, <2>6
  <2> QED
    BY <1>7, <2>1, <2>4, <2>5, <2>6 DEF WatcherStarts
<1>8. ASSUME TakesChannel \/ Checks \/ Wakes PROVE AttentionInv'
  <2>1. /\ UNCHANGED <<now, disk, ran, raised, snoozed>> /\ now.active = {}
        /\ watcher' \in [pc : Places, notice : SUBSET Notices]
        /\ watcher'.pc # "run"
        /\ watcher'.pc = "wait" => ~Ready(now)
    <3>1. CASE TakesChannel
      BY <1>0, <3>1 DEF TakesChannel, At, quietly, Places, Claimless
    <3>2. CASE Checks
      BY <1>0, <3>2 DEF Checks, At, quietly, Places, Claimless
    <3>3. CASE Wakes
      BY <1>0, <3>3 DEF Wakes, At, quietly, Places, Claimless
    <3> QED
      BY <1>8, <3>1, <3>2, <3>3
  <2> QED
    BY <1>0, <1>4, <2>1 DEF WatcherTyped, Claimless
<1>9. ASSUME Claims PROVE AttentionInv'
  <2>1. UNCHANGED <<quietly, ran>> /\ UNCHANGED <<ran, snoozed>> /\ now.active = {} /\ watcher.pc = "claim"
    BY <1>0, <1>9 DEF Claims, quietly, Claimless
  <2>2. CASE ~Ready(now)
    <3>1. CASE Commits(now) /\ At("look")
      <4>1. watcher' \in [pc : Places, notice : SUBSET Notices] /\ watcher'.pc = "look"
        BY <1>0, <3>1 DEF At, Places
      <4> QED
        BY <1>0, <2>1, <3>1, <4>1, CommitThenInv
    <3>2. CASE (Unsynced(now) \/ Unsaved) /\ Stops
      BY <1>0, <1>6, <2>1, <3>2
    <3> QED
      BY <1>9, <2>2, <3>1, <3>2 DEF Claims
  <2>3. CASE Ready(now)
    <3>1. PICK n \in now.pending :
            LET s == [now EXCEPT !.pending = now.pending \ {n}, !.active = {n}]
            IN  \/ Commits(s) /\ watcher' = [pc |-> "run", notice |-> {n}]
                \/ (Unsynced(s) \/ Unsaved) /\ Stops
      BY <1>9, <2>3 DEF Claims
    <3> DEFINE s == [now EXCEPT !.pending = now.pending \ {n}, !.active = {n}]
    <3>2. /\ s \in Saved0 /\ s.seen = now.seen /\ s.taken = now.taken
          /\ s.pending = now.pending \ {n} /\ s.active = {n} /\ n \in Notices
      BY <1>0 DEF Saved0
    <3>3. \/ Commits(s) /\ watcher' = [pc |-> "run", notice |-> {n}]
          \/ (Unsynced(s) \/ Unsaved) /\ Stops
      BY <3>1
    <3> HIDE DEF s
    <3>4. CASE Commits(s) /\ watcher' = [pc |-> "run", notice |-> {n}]
      <4>1. /\ watcher' \in [pc : Places, notice : SUBSET Notices] /\ watcher'.pc = "run"
            /\ watcher'.notice \subseteq now.pending \ s.pending
        BY <3>2, <3>4 DEF Places
      <4> QED
        BY <2>1, <3>2, <3>4, <4>1, CommitThenInv
    <3>5. CASE (Unsynced(s) \/ Unsaved) /\ Stops
      BY <1>6, <2>1, <3>2, <3>5
    <3> QED
      BY <3>3, <3>4, <3>5
  <2> QED
    BY <2>2, <2>3
<1>10. ASSUME RunsHook PROVE AttentionInv'
  <2>1. /\ UNCHANGED <<now, disk, raised, snoozed>> /\ watcher.pc = "run"
        /\ watcher' \in [pc : Places, notice : SUBSET Notices] /\ watcher'.pc = "finish"
        /\ ran' = [n \in Notices |-> IF n \in watcher.notice THEN ran[n] + 1 ELSE ran[n]]
    BY <1>0, <1>10 DEF RunsHook, At, quietly, Places
  <2>2. \A n \in Notices : ran'[n] + Running(n)' = ran[n] + Running(n) /\ ran'[n] \in Nat
                           /\ Running(n)' = 0 /\ ran[n] \in Nat /\ raised[n] \in Nat
    BY <1>0, <2>1 DEF Running, CountsTyped
  <2>3. \A s \in disk.kept \cup {now} : CountsFit(s)'
    <3> SUFFICES ASSUME NEW s \in disk.kept \cup {now}, NEW n \in Notices
                 PROVE  ran'[n] + Queued(n, s) + Running(n)' <= raised'[n]
      BY DEF CountsFit, Queued
    <3>1. ran[n] + Queued(n, s) + Running(n) <= raised[n]
      BY DEF AttentionInv, CountsFit
    <3> QED
      BY <2>1, <2>2, <3>1 DEF Queued, Running
  <2>4. CountsTyped'
    BY <1>0, <2>1, <2>2 DEF CountsTyped
  <2> QED
    BY <1>0, <2>1, <2>3, <2>4 DEF AttentionInv, Remembers, WatcherTyped, Claimless, WatcherAwake, Saved0
<1>11. ASSUME Finishes PROVE AttentionInv'
  <2> DEFINE s == [now EXCEPT !.active = {}]
  <2>1. /\ s \in Saved0 /\ s.seen = now.seen /\ s.taken = now.taken /\ s.pending = now.pending
        /\ s.active = {}
    BY <1>0 DEF Saved0
  <2>2. /\ UNCHANGED <<quietly, ran>> /\ UNCHANGED <<ran, snoozed>>
        /\ \/ Commits(s) /\ watcher' = [pc |-> "look", notice |-> {}]
           \/ (Unsynced(s) \/ Unsaved) /\ Stops
    BY <1>11 DEF Finishes, quietly
  <2> HIDE DEF s
  <2>3. CASE Commits(s) /\ watcher' = [pc |-> "look", notice |-> {}]
    <3>1. watcher' \in [pc : Places, notice : SUBSET Notices] /\ watcher'.pc = "look"
      BY <2>3 DEF Places
    <3> QED
      BY <2>1, <2>2, <2>3, <3>1, CommitThenInv
  <2>4. CASE (Unsynced(s) \/ Unsaved) /\ Stops
    BY <1>6, <2>1, <2>2, <2>4
  <2> QED
    BY <2>2, <2>3, <2>4
<1>12. ASSUME Open PROVE AttentionInv'
  <2>1. PICK s \in disk.kept, held \in SUBSET Notices :
          LET t == [s EXCEPT !.needs = s.needs \cup held]
          IN  now' = Committed(s, t) /\ Raises(s, t) /\ disk' = [now |-> s, kept |-> {s}]
    BY <1>12 DEF Open
  <2> DEFINE t == [s EXCEPT !.needs = s.needs \cup held]
  <2>2. Remembers(s) /\ CountsFit(s) /\ s \in Saved0
    BY DEF AttentionInv, Remembers
  <2>3. t \in Saved0 /\ t.seen = s.seen /\ t.taken = s.taken /\ t.pending = s.pending /\ t.active = s.active
    BY <2>2 DEF Saved0
  <2>4. /\ now' = Committed(s, t) /\ disk'.kept = {s} /\ UNCHANGED <<snoozed, ran>>
        /\ watcher' = [pc |-> "start", notice |-> {}]
        /\ raised' = [n \in Notices |-> IF n \in New(s, t) THEN raised[n] + 1 ELSE raised[n]]
    BY <1>12, <2>1 DEF Open, Raises
  <2> HIDE DEF t
  <2>5. /\ Remembers(now') /\ now'.pending \subseteq s.pending \cup New(s, t)
    BY <1>0, <2>2, <2>3, <2>4, CommittedRemembers DEF WatcherTyped
  <2>6. \A n \in Notices : /\ ran[n] \in Nat /\ raised[n] \in Nat /\ ran'[n] = ran[n]
                           /\ raised'[n] = IF n \in New(s, t) THEN raised[n] + 1 ELSE raised[n]
                           /\ Running(n)' = 0
    BY <1>0, <2>4 DEF CountsTyped, Running
  <2>7. ASSUME NEW n \in Notices
        PROVE  /\ ran'[n] + Queued(n, s) + Running(n)' <= raised'[n]
               /\ ran'[n] + Queued(n, now') + Running(n)' <= raised'[n]
    <3>1. ran[n] + Queued(n, s) <= raised[n]
      BY <2>2, <2>6 DEF CountsFit, Queued, Running
    <3> QED
      BY <2>5, <2>6, <3>1 DEF Queued
  <2>8. CountsTyped' /\ WatcherTyped' /\ Claimless' /\ WatcherAwake'
    BY <1>0, <2>4, <2>6 DEF CountsTyped, WatcherTyped, Claimless, WatcherAwake, Places
  <2>9. \A u \in disk'.kept \cup {now'} : Remembers(u) /\ CountsFit(u)'
    BY <2>2, <2>4, <2>5, <2>7 DEF CountsFit, Queued
  <2> QED
    BY <2>8, <2>9 DEF AttentionInv, Remembers, Saved0
<1> QED
  BY <1>1, <1>2, <1>3, <1>5, <1>7, <1>8, <1>9, <1>10, <1>11, <1>12 DEF AttentionNext

\* A person is told of a need at most once, no need that a saved state remembers
\* is forgotten, and the watcher never sleeps on a queue it could empty, for any
\* number of notices, failed commits, power losses and restarts
\* (queueAttention, watchAttention).
THEOREM AttentionIsKept == AttentionSpec => []AttentionHolds
<1>1. ASSUME AttentionInv PROVE AttentionHolds
  <2>1. \A n \in Notices : ran[n] <= raised[n]
    <3> SUFFICES ASSUME NEW n \in Notices PROVE ran[n] <= raised[n]
      OBVIOUS
    <3>1. ran[n] + Queued(n, now) + Running(n) <= raised[n] /\ ran[n] \in Nat /\ raised[n] \in Nat
      BY <1>1 DEF AttentionInv, CountsFit, CountsTyped
    <3> QED
      BY <3>1 DEF Queued, Running
  <2> QED
    BY <1>1, <2>1 DEF AttentionInv, Remembers, AttentionHolds, ToldOnce, SeenIsTold
<1> QED
  BY <1>1, AttentionInitially, AttentionStep, PTL DEF AttentionSpec

-----------------------------------------------------------------------------
(***************************************************************************)
(* Inventory: no change is lost between two inventories.                   *)
(***************************************************************************)
GhItems == [ver : Nat, at : Int, open : BOOLEAN, turn : Nat]
Scans == [pc : Lists \cup {"idle", "detail"}, full : BOOLEAN, since : Nat, started : Nat,
          page : Nat \ {0}, got : [Things -> Int]]

InvTyped ==
    /\ gh \in [Things -> GhItems] /\ time \in 1..MaxTime /\ skew \in Skews
    /\ changes \in 0..MaxChanges /\ invfaults \in 0..MaxInvFaults
    /\ \A t \in Things : gh[t].ver <= changes /\ gh[t].turn <= changes
    /\ seen \in [Things -> Nat] /\ \A t \in Things : seen[t] <= gh[t].ver
    /\ synced \in [last : Nat, full : Nat] /\ synced.full <= synced.last /\ synced.last <= time
    /\ scan \in Scans

\* A change that an inventory need not see although it is older than its start
\* was seen, is read, is still to be read in detail, or is on a page to come:
\* items only move back in a list ordered by their last change.
OldNews(t) == gh[t].at < scan.started - Overlap /\ seen[t] # gh[t].ver
OnPageToCome(list, t) == scan.pc = list /\ (scan.page - 1) * ListPage <= Before(list, t)
ToCome(t) ==
    IF scan.full /\ t \in Pulls THEN scan.pc = "changed" \/ OnPageToCome("pulls", t)
    ELSE OnPageToCome("changed", t)
ReadTruly(t) ==
    /\ -1 <= scan.got[t] /\ scan.got[t] <= gh[t].ver
    /\ scan.got[t] > 0 => seen[t] <= scan.got[t]
    /\ t \notin Pulls => scan.got[t] >= 0
    /\ t \in Pulls /\ scan.pc = "changed" => scan.got[t] <= 0
    /\ scan.full => scan.got[t] >= 0
ScanHolds ==
    scan.pc # "idle" =>
        /\ 1 <= scan.started /\ scan.started <= time
        /\ ~scan.full => scan.since = synced.last /\ 0 < synced.last /\ synced.last <= scan.started
        /\ scan.full => scan.pc # "open"
        /\ \A t \in Things : ReadTruly(t)
        /\ \A t \in Things : OldNews(t) => scan.got[t] \in {gh[t].ver, -1} \/ ToCome(t)
InventoryInv == InvTyped /\ ScanHolds /\ UnseenIsAhead

LEMMA InventoryInitial ==
    ASSUME InventoryConstants, InvInit
    PROVE  InventoryInv
  <1>1. NoScan \in Scans /\ NoScan.pc = "idle"
    BY DEF NoScan, Scans, NoVersions
  <1>. QED  BY <1>1 DEF InventoryConstants, InvInit, InventoryInv, InvTyped, ScanHolds, UnseenIsAhead,
            GhItems, NoVersions

\* The place of an item nobody changes only moves back.
LEMMA BeforeGrows ==
    ASSUME InventoryConstants, InvTyped, NEW t \in Things, NEW u \in Things, u # t,
           NEW list \in Lists, list = "changed" \/ (list = "pulls" /\ scan.full),
           NEW open \in BOOLEAN, scan' = scan, ~scan.full => scan.since <= time,
           gh' = [gh EXCEPT ![u] = [ver |-> @.ver + 1, at |-> time + skew, open |-> open,
                                    turn |-> changes + 1]]
    PROVE  Before(list, t) \in Nat /\ Before(list, t)' \in Nat /\ Before(list, t) <= Before(list, t)'
  <1> DEFINE old == {v \in Listing(list) : gh[v].turn > gh[t].turn}
             new == {v \in Listing(list)' : gh'[v].turn > gh'[t].turn}
  <1>1. gh'[u].ver = gh[u].ver + 1 /\ gh'[u].at = time + skew /\ gh'[u].turn = changes + 1
    BY DEF InvTyped, GhItems
  <1>2. \A v \in Things : v # u => gh'[v] = gh[v]
    BY DEF InvTyped
  <1>3. \A v \in Things : gh[v].ver \in Nat /\ gh[v].turn \in Nat /\ gh[v].at \in Int
                          /\ gh[v].turn <= changes
    BY DEF InvTyped, GhItems
  <1>4. time \in Int /\ skew \in Int /\ skew + Overlap >= 0 /\ changes \in Nat /\ Overlap \in Int
        /\ scan.since \in Int
    BY DEF InventoryConstants, InvTyped, Scans
  <1>5. \A v \in Things : Listed(list, v) => Listed(list, v)'
    <2> SUFFICES ASSUME NEW v \in Things, Listed(list, v)
                 PROVE  Listed(list, v)'
      OBVIOUS
    <2>1. CASE list = "pulls"
      BY <2>1 DEF Listed
    <2>2. CASE list = "changed"
      BY <1>1, <1>2, <1>3, <1>4, <2>2 DEF Listed, Since
    <2>. QED  BY <2>1, <2>2
  <1>6. old \subseteq new
    <2> SUFFICES ASSUME NEW v \in Things, v \in Listing(list), gh[v].turn > gh[t].turn
                 PROVE  v \in Listing(list)' /\ gh'[v].turn > gh'[t].turn
      BY DEF Listing
    <2>1. gh'[v].ver > 0
      BY <1>1, <1>2, <1>3 DEF Listing
    <2>. QED  BY <1>1, <1>2, <1>3, <1>4, <1>5, <2>1 DEF Listing
  <1>7. IsFiniteSet(old) /\ IsFiniteSet(new)
    BY FS_Subset DEF InventoryConstants, Listing
  <1>8. Cardinality(old) \in Nat /\ Cardinality(new) \in Nat /\ Cardinality(old) <= Cardinality(new)
    BY <1>6, <1>7, FS_CardinalityType, FS_Subset
  <1>. QED  BY <1>8 DEF Before

LEMMA BeforeIsNat ==
    ASSUME InventoryConstants, NEW t \in Things, NEW list \in Lists
    PROVE  Before(list, t) \in Nat /\ Before(list, t)' \in Nat
  <1>1. /\ IsFiniteSet({u \in Listing(list) : gh[u].turn > gh[t].turn})
        /\ IsFiniteSet({u \in Listing(list)' : gh'[u].turn > gh'[t].turn})
    BY FS_Subset DEF InventoryConstants, Listing
  <1>. QED  BY <1>1, FS_CardinalityType DEF Before

LEMMA InventoryChange ==
    ASSUME InventoryConstants, InventoryInv, Change
    PROVE  InventoryInv'
  <1>1. PICK u \in Things, open \in BOOLEAN :
            gh' = [gh EXCEPT ![u] = [ver |-> @.ver + 1, at |-> time + skew, open |-> open,
                                     turn |-> changes + 1]]
    BY DEF Change
  <1>2. UNCHANGED <<time, skew, seen, synced, scan, invfaults>> /\ changes' = changes + 1
        /\ changes < MaxChanges
    BY DEF Change
  <1>3. InvTyped /\ ScanHolds /\ UnseenIsAhead
    BY DEF InventoryInv
  <1>4. /\ \A v \in Things : gh[v].ver \in Nat /\ gh[v].turn \in Nat /\ gh[v].at \in Int
                             /\ gh[v].ver <= changes /\ gh[v].turn <= changes /\ gh[v] \in GhItems
        /\ time \in Nat /\ skew \in Int /\ skew + Overlap >= 0 /\ changes \in Nat /\ Overlap \in Int
        /\ scan.started \in Nat /\ synced.last \in Nat /\ scan \in Scans
        /\ MaxChanges \in Nat /\ synced.last <= time
    BY <1>3 DEF InventoryConstants, InvTyped, GhItems, Scans
  <1>5. /\ gh'[u].ver = gh[u].ver + 1 /\ gh'[u].at = time + skew /\ gh'[u].turn = changes + 1
        /\ gh'[u] \in GhItems /\ gh' \in [Things -> GhItems]
    BY <1>1, <1>3, <1>4 DEF InvTyped, GhItems
  <1>6. \A v \in Things : v # u => gh'[v] = gh[v]
    BY <1>1, <1>3 DEF InvTyped
  <1>7. InvTyped'
    BY <1>2, <1>3, <1>4, <1>5, <1>6 DEF InvTyped
  <1>8. UnseenIsAhead'
    BY <1>2, <1>3, <1>4, <1>5, <1>6 DEF UnseenIsAhead
  <1>9. ScanHolds'
    <2> SUFFICES ASSUME scan.pc # "idle"
                 PROVE  ScanHolds'
      BY <1>2 DEF ScanHolds
    <2>0. /\ 1 <= scan.started /\ scan.started <= time
          /\ ~scan.full => scan.since = synced.last /\ 0 < synced.last /\ synced.last <= scan.started
          /\ scan.full => scan.pc # "open"
          /\ \A t \in Things : ReadTruly(t)
          /\ \A t \in Things : OldNews(t) => scan.got[t] \in {gh[t].ver, -1} \/ ToCome(t)
      BY <1>3 DEF ScanHolds
    <2>1. ASSUME NEW t \in Things PROVE ReadTruly(t)'
      <3>1. gh[t].ver <= gh'[t].ver /\ gh'[t].ver \in Nat
        BY <1>4, <1>5, <1>6
      <3>2. scan.got[t] \in Int
        BY <1>4 DEF Scans
      <3>. QED  BY <1>2, <1>4, <2>0, <3>1, <3>2 DEF ReadTruly
    <2>2. ASSUME NEW t \in Things, OldNews(t)'
          PROVE  scan.got[t] \in {gh'[t].ver, -1} \/ ToCome(t)'
      <3>1. t # u
        BY <1>2, <1>4, <1>5, <2>0, <2>2 DEF OldNews
      <3>2. OldNews(t) /\ gh'[t] = gh[t]
        BY <1>2, <1>6, <2>2, <3>1 DEF OldNews
      <3>3. scan.got[t] \in {gh[t].ver, -1} \/ ToCome(t)
        BY <2>0, <3>2
      <3>4. ASSUME NEW list \in {"changed", "pulls"}, list = "pulls" => scan.full, OnPageToCome(list, t)
            PROVE  OnPageToCome(list, t)'
        <4>1. Before(list, t) \in Nat /\ Before(list, t)' \in Nat /\ Before(list, t) <= Before(list, t)'
          BY <1>1, <1>2, <1>3, <1>4, <2>0, <3>1, <3>4, BeforeGrows DEF Lists
        <4>2. (scan.page - 1) * ListPage \in Int
          BY <1>4 DEF Scans, InventoryConstants
        <4>. QED  BY <1>2, <3>4, <4>1, <4>2 DEF OnPageToCome
      <3>5. ToCome(t) => ToCome(t)'
        BY <1>2, <3>4 DEF ToCome
      <3>. QED  BY <3>2, <3>3, <3>5
    <2>. QED  BY <1>2, <2>0, <2>1, <2>2 DEF ScanHolds
  <1>. QED  BY <1>7, <1>8, <1>9 DEF InventoryInv

LEMMA InventoryReadsPage ==
    ASSUME InventoryConstants, InventoryInv, ReadPage
    PROVE  InventoryInv'
  <1>0. PICK list \in Lists : list = scan.pc
    BY DEF ReadPage
  <1> DEFINE last == LastPage(list)
             got == SeenInList(scan.got, list)
  <1>1. InvTyped /\ ScanHolds /\ UnseenIsAhead /\ list # "idle" /\ scan \in Scans
    BY <1>0 DEF InventoryInv, ReadPage, InvTyped, Lists
  <1>2. UNCHANGED <<gh, time, skew, changes, seen, synced, invfaults>>
    BY DEF ReadPage, Github, KeepsRecord
  <1>3. /\ \A v \in Things : gh[v].ver \in Nat /\ gh[v].turn \in Nat /\ gh[v].at \in Int
                             /\ seen[v] \in Nat /\ seen[v] <= gh[v].ver
        /\ ListPage \in Nat \ {0} /\ scan.page \in Nat \ {0} /\ scan.got \in [Things -> Int]
        /\ scan.full \in BOOLEAN /\ Overlap \in Int /\ scan.started \in Nat /\ synced.last \in Nat
    BY <1>1 DEF InventoryConstants, InvTyped, GhItems, Scans
  <1>4. got = [t \in Things |-> IF t \in Reads(list) THEN gh[t].ver
                      ELSE IF t \in Names(list) /\ scan.got[t] = 0 THEN -1 ELSE scan.got[t]]
    BY DEF SeenInList
  <1>5. got \in [Things -> Int]
    BY <1>3, <1>4
  <1>6. AfterList(list) \in Lists \cup {"detail"} /\ (scan.full => AfterList(list) # "open")
        /\ AfterList(list) # "changed" /\ (list = "changed" /\ scan.full => AfterList(list) = "pulls")
    BY <1>1 DEF AfterList, Lists
  <1>7. scan' = [scan EXCEPT !.got = got, !.page = IF last THEN 1 ELSE @ + 1,
                            !.pc = IF last THEN AfterList(list) ELSE @]
    BY <1>0 DEF ReadPage
  <1> HIDE DEF got
  <1> DEFINE page == IF last THEN 1 ELSE scan.page + 1
             pc == IF last THEN AfterList(list) ELSE list
  <1>15. page \in Nat \ {0} /\ pc \in Lists \cup {"idle", "detail"}
         /\ scan' = [scan EXCEPT !.got = got, !.page = page, !.pc = pc]
    BY <1>0, <1>3, <1>6, <1>7
  <1> HIDE DEF last
  <1>8. /\ scan' \in Scans /\ scan'.got = got /\ scan'.full = scan.full /\ scan'.since = scan.since
        /\ scan'.started = scan.started
        /\ scan'.page = page /\ scan'.pc = pc
    <2> HIDE DEF page, pc
    <2>. QED  BY <1>1, <1>5, <1>15 DEF Scans
  <1>9. scan.pc = list
    BY <1>0
  <1>10. scan'.pc # "idle" /\ (scan'.pc = "changed" => list = "changed") /\ (scan.full => scan'.pc # "open")
    BY <1>1, <1>6, <1>8, <1>9 DEF ScanHolds, Lists
  <1>11. /\ 1 <= scan.started /\ scan.started <= time
         /\ ~scan.full => scan.since = synced.last /\ 0 < synced.last /\ synced.last <= scan.started
         /\ \A t \in Things : ReadTruly(t)
         /\ \A t \in Things : OldNews(t) => scan.got[t] \in {gh[t].ver, -1} \/ ToCome(t)
    BY <1>1, <1>9 DEF ScanHolds
  <1>12. ASSUME NEW t \in Things PROVE ReadTruly(t)'
    <2>1. ReadTruly(t)
      BY <1>11
    <2>2. CASE t \in Reads(list)
      <3>1. got[t] = gh[t].ver
        BY <1>4, <2>2
      <3>2. t \in Pulls => list = "pulls"
        BY <2>2 DEF Reads, InventoryConstants
      <3>. QED  BY <1>2, <1>3, <1>8, <1>10, <2>1, <3>1, <3>2 DEF ReadTruly
    <2>3. CASE t \notin Reads(list) /\ t \in Names(list) /\ scan.got[t] = 0
      <3>1. got[t] = -1 /\ t \in Pulls /\ ~scan.full
        BY <1>4, <2>3 DEF Names
      <3>. QED  BY <1>2, <1>3, <1>8, <1>10, <2>1, <3>1 DEF ReadTruly
    <2>4. CASE t \notin Reads(list) /\ ~(t \in Names(list) /\ scan.got[t] = 0)
      <3>1. got[t] = scan.got[t]
        BY <1>4, <2>4
      <3>. QED  BY <1>2, <1>3, <1>8, <1>9, <1>10, <2>1, <3>1 DEF ReadTruly
    <2>. QED  BY <2>2, <2>3, <2>4
  <1>13. ASSUME NEW t \in Things, OldNews(t)'
         PROVE  got[t] \in {gh[t].ver, -1} \/ ToCome(t)'
    <2>1. OldNews(t) /\ gh[t].ver > 0
      BY <1>2, <1>3, <1>8, <1>13 DEF OldNews
    <2>2. CASE scan.got[t] \in {gh[t].ver, -1}
      BY <1>3, <1>4, <2>1, <2>2
    <2>3. CASE scan.full /\ t \in Pulls /\ list = "changed"
      <3>1. Before("pulls", t)' \in Nat
        BY BeforeIsNat DEF Lists
      <3>2. (1 - 1) * ListPage = 0
        BY <1>3
      <3>. QED  BY <1>6, <1>8, <2>3, <3>1, <3>2 DEF ToCome, OnPageToCome
    <2>4. ASSUME ToCome(t), ~(scan.full /\ t \in Pulls /\ list = "changed"),
                 scan.got[t] \notin {gh[t].ver, -1}
          PROVE  got[t] \in {gh[t].ver, -1} \/ ToCome(t)'
      <3>1. /\ OnPageToCome(list, t)
            /\ IF scan.full /\ t \in Pulls THEN list = "pulls" ELSE list = "changed"
        BY <1>9, <2>4 DEF ToCome, OnPageToCome
      <3>2. Listed(list, t)
        <4>1. CASE scan.full
          BY <3>1, <4>1 DEF Listed
        <4>2. CASE ~scan.full
          BY <1>1, <1>3, <1>11, <2>1, <3>1, <4>2 DEF Listed, Since, UnseenIsAhead, OldNews
        <4>. QED  BY <4>1, <4>2
      <3>3. t \in Listing(list)
        BY <2>1, <3>2 DEF Listing
      <3>4. /\ Before(list, t) \in Nat /\ Cardinality(Listing(list)) \in Nat
            /\ Before(list, t) <= Cardinality(Listing(list))
        <4>1. IsFiniteSet(Listing(list))
          BY FS_Subset DEF InventoryConstants, Listing
        <4>. QED  BY <4>1, FS_Subset, FS_CardinalityType DEF Before
      <3>5. scan.page * ListPage \in Int /\ (scan.page - 1) * ListPage <= Before(list, t)
        BY <1>3, <3>1 DEF OnPageToCome
      <3>6. CASE Before(list, t) < scan.page * ListPage
        <4>1. t \in Page(list)
          BY <3>3, <3>5, <3>6 DEF Page
        <4>2. t \in Reads(list) \/ (t \in Names(list) /\ scan.got[t] \in {0, -1})
          <5>1. CASE list = "pulls"
            BY <4>1, <5>1 DEF Reads
          <5>2. CASE list = "changed" /\ t \in Issues
            BY <4>1, <5>2 DEF Reads
          <5>3. CASE list = "changed" /\ t \in Pulls
            <6>1. ReadTruly(t)
              BY <1>11
            <6>. QED  BY <1>3, <1>9, <3>1, <4>1, <5>3, <6>1 DEF Names, ReadTruly
          <5>. QED  BY <3>1, <5>1, <5>2, <5>3 DEF Things
        <4>. QED  BY <1>4, <2>4, <4>2
      <3>7. CASE ~(Before(list, t) < scan.page * ListPage)
        <4>1. ~last
          BY <3>4, <3>5, <3>7 DEF last, LastPage
        <4>2. scan'.page - 1 = scan.page /\ scan'.pc = list
          BY <1>3, <1>8, <4>1
        <4>3. Before(list, t)' = Before(list, t)
          BY <1>2, <1>8 DEF Before, Listing, Listed, Since
        <4>4. (scan.page * ListPage <= Before(list, t))
          BY <3>4, <3>5, <3>7
        <4>. QED  BY <1>8, <3>1, <4>2, <4>3, <4>4 DEF ToCome, OnPageToCome
      <3>. QED  BY <3>6, <3>7
    <2>. QED  BY <1>11, <2>1, <2>2, <2>3, <2>4
  <1>14. ScanHolds'
    BY <1>2, <1>8, <1>10, <1>11, <1>12, <1>13 DEF ScanHolds
  <1>. QED  BY <1>1, <1>2, <1>8, <1>14 DEF InventoryInv, InvTyped, UnseenIsAhead

LEMMA InventoryCommit ==
    ASSUME InventoryConstants, InventoryInv, Commit
    PROVE  InventoryInv' /\ Newer
  <1>1. /\ InvTyped /\ ScanHolds /\ UnseenIsAhead /\ scan.pc = "detail"
        /\ \A p \in Pulls : scan.got[p] # -1
    BY DEF InventoryInv, Commit, Complete
  <1>2. UNCHANGED <<gh, time, skew, changes, invfaults>> /\ scan' = NoScan /\ seen' = ObservedVersions
    BY DEF Commit, Github
  <1>3. synced'.last = scan.started /\ synced'.full = (IF scan.full THEN scan.started ELSE synced.full)
        /\ synced' = [last |-> synced'.last, full |-> synced'.full]
    BY DEF Commit
  <1>4. /\ 1 <= scan.started /\ scan.started <= time
        /\ ~scan.full => synced.last <= scan.started
        /\ \A t \in Things : ReadTruly(t)
        /\ \A t \in Things : OldNews(t) => scan.got[t] \in {gh[t].ver, -1}
    BY <1>1 DEF ScanHolds, ToCome, OnPageToCome
  <1>5. /\ \A v \in Things : gh[v].ver \in Nat /\ gh[v].at \in Int /\ seen[v] \in Nat
                             /\ seen[v] <= gh[v].ver /\ scan.got[v] \in Int
        /\ scan.started \in Nat /\ synced.last \in Nat /\ synced.full \in Nat /\ Overlap \in Int
        /\ synced.full <= synced.last
    BY <1>1 DEF InventoryConstants, InvTyped, GhItems, Scans
  <1>6. ASSUME NEW t \in Things
        PROVE  /\ seen'[t] = (IF scan.got[t] > 0 THEN scan.got[t] ELSE seen[t])
               /\ seen'[t] \in Nat /\ seen[t] <= seen'[t] /\ seen'[t] <= gh[t].ver
               /\ seen'[t] # gh[t].ver => gh[t].at >= scan.started - Overlap
    <2>1. seen'[t] = IF scan.got[t] > 0 THEN scan.got[t] ELSE seen[t]
      BY <1>2 DEF ObservedVersions
    <2>2. ReadTruly(t) /\ scan.got[t] # -1
      BY <1>1, <1>4, <1>5 DEF ReadTruly
    <2>3. OldNews(t) => scan.got[t] = gh[t].ver
      BY <1>4, <2>2
    <2>. QED  BY <1>5, <2>1, <2>2, <2>3 DEF ReadTruly, OldNews
  <1>7. NoScan \in Scans /\ NoScan.pc = "idle"
    BY DEF NoScan, Scans, NoVersions
  <1>8. seen' \in [Things -> Nat]
    BY <1>2, <1>6 DEF ObservedVersions
  <1>9. synced' \in [last : Nat, full : Nat] /\ synced'.full <= synced'.last /\ synced'.last <= time
    BY <1>3, <1>4, <1>5
  <1>10. InvTyped'
    BY <1>1, <1>2, <1>6, <1>7, <1>8, <1>9 DEF InvTyped
  <1>. QED  BY <1>2, <1>3, <1>6, <1>7, <1>10 DEF InventoryInv, ScanHolds, UnseenIsAhead, Newer

LEMMA InventoryRest ==
    ASSUME InventoryConstants, InventoryInv,
           TimePasses \/ BeginScan \/ ReadDetail \/ Fails \/ UNCHANGED inventory
    PROVE  InventoryInv'
  <1>1. InvTyped /\ ScanHolds /\ UnseenIsAhead
    BY DEF InventoryInv
  <1>2. /\ UNCHANGED <<gh, skew, changes, seen, synced>>
        /\ time' \in 1..MaxTime /\ time <= time' /\ invfaults' \in 0..MaxInvFaults
    BY <1>1 DEF TimePasses, BeginScan, ReadDetail, Fails, Github, KeepsRecord, InvFault, inventory,
       InvTyped, InventoryConstants
  <1>3. /\ \A v \in Things : gh[v].ver \in Nat /\ gh[v].at \in Int /\ gh[v].turn \in Nat
                             /\ seen[v] \in Nat /\ seen[v] <= gh[v].ver
        /\ time \in Nat /\ time' \in Nat /\ 1 <= time /\ scan \in Scans /\ synced.last \in Nat
        /\ synced.last <= time /\ ListPage \in Nat \ {0} /\ Overlap \in Nat /\ synced.full <= synced.last
    BY <1>1, <1>2 DEF InventoryConstants, InvTyped, GhItems
  <1>4. scan' \in Scans => InvTyped'
    BY <1>1, <1>2, <1>3 DEF InvTyped
  <1>5. UnseenIsAhead'
    BY <1>1, <1>2 DEF UnseenIsAhead
  <1>6. NoScan \in Scans /\ NoScan.pc = "idle" /\ NoScan.page = 1 /\ NoScan.got = [t \in Things |-> 0]
        /\ DOMAIN NoScan = {"pc", "full", "since", "started", "page", "got"}
    BY DEF NoScan, Scans, NoVersions
  <1>7. CASE scan' = scan
    <2>1. \A t \in Things : (ToCome(t)' <=> ToCome(t)) /\ (OldNews(t)' <=> OldNews(t))
                            /\ (ReadTruly(t)' <=> ReadTruly(t))
      BY <1>2, <1>7 DEF ToCome, OnPageToCome, Before, Listing, Listed, Since, OldNews, ReadTruly
    <2>2. scan.started \in Nat
      BY <1>3 DEF Scans
    <2>3. ScanHolds'
      BY <1>1, <1>2, <1>3, <1>7, <2>1, <2>2 DEF ScanHolds
    <2>. QED  BY <1>3, <1>4, <1>5, <1>7, <2>3 DEF InventoryInv
  <1>8. CASE scan' = NoScan
    BY <1>4, <1>5, <1>6, <1>8 DEF InventoryInv, ScanHolds
  \* An inventory begins, or begins anew as a full one: everything is to come.
  <1>9. ASSUME scan' \in Scans, scan'.pc = "changed", scan'.started = time, scan'.page = 1,
               scan'.got = [t \in Things |-> 0], time' = time,
               ~scan'.full => scan'.since = synced.last /\ 0 < synced.last
        PROVE  InventoryInv'
    <2>2. ASSUME NEW t \in Things PROVE ReadTruly(t)'
      BY <1>2, <1>3, <1>9 DEF ReadTruly
    <2>3. ASSUME NEW t \in Things PROVE ToCome(t)'
      <3>1. Before("changed", t)' \in Nat
        BY BeforeIsNat DEF Lists
      <3>2. (scan'.page - 1) * ListPage = 0
        BY <1>3, <1>9
      <3>. QED  BY <1>9, <3>1, <3>2 DEF ToCome, OnPageToCome
    <2>4. ScanHolds'
      BY <1>2, <1>3, <1>9, <2>2, <2>3 DEF ScanHolds
    <2>. QED  BY <1>4, <1>5, <1>9, <2>4 DEF InventoryInv
  <1>10. CASE BeginScan
    <2>1. Due \in BOOLEAN /\ (~Due => 0 < synced.last) /\ synced.last \in Nat
      BY <1>3 DEF Due
    <2>2. scan' = [NoScan EXCEPT !.pc = "changed", !.full = Due, !.started = time, !.since = synced.last]
      BY <1>10 DEF BeginScan
    <2> DEFINE due == Due
    <2> HIDE DEF due
    <2>3. /\ scan' \in Scans /\ scan'.pc = "changed" /\ scan'.full = due /\ scan'.started = time
          /\ scan'.since = synced.last /\ scan'.page = 1 /\ scan'.got = [t \in Things |-> 0]
      BY <1>3, <1>6, <2>1, <2>2 DEF Scans, Lists, due
    <2>. QED  BY <1>9, <1>10, <2>1, <2>3 DEF due, BeginScan, Github
  <1>11. CASE ReadDetail
    <2>1. PICK p \in {p \in Pulls : scan.got[p] = -1} :
             \/ scan' = [scan EXCEPT !.got[p] = gh[p].ver]
             \/ scan' = [NoScan EXCEPT !.pc = "changed", !.full = TRUE, !.started = time]
      BY <1>11 DEF ReadDetail
    <2>2. CASE scan' = [NoScan EXCEPT !.pc = "changed", !.full = TRUE, !.started = time]
      <3>1. /\ scan' \in Scans /\ scan'.pc = "changed" /\ scan'.full = TRUE /\ scan'.started = time
            /\ scan'.page = 1 /\ scan'.got = [t \in Things |-> 0]
        BY <1>3, <1>6, <2>2 DEF Scans, Lists
      <3>. QED  BY <1>9, <1>11, <3>1 DEF ReadDetail, Github
    <2>3. CASE scan' = [scan EXCEPT !.got[p] = gh[p].ver]
      <3>0. p \in Things /\ p \in Pulls
        BY DEF Things
      <3>1. /\ scan' \in Scans /\ scan'.pc = scan.pc /\ scan'.full = scan.full /\ scan'.since = scan.since
            /\ scan'.started = scan.started /\ scan'.page = scan.page
            /\ scan'.got = [scan.got EXCEPT ![p] = gh[p].ver]
        BY <1>3, <2>3, <3>0 DEF Scans
      <3>2. \A t \in Things : scan'.got[t] = IF t = p THEN gh[t].ver ELSE scan.got[t]
        BY <1>3, <3>1 DEF Scans
      <3>3. scan.pc = "detail" /\ time' = time
        BY <1>11 DEF ReadDetail, Github
      <3>4. ASSUME NEW t \in Things, ReadTruly(t) PROVE ReadTruly(t)'
        BY <1>2, <1>3, <3>0, <3>1, <3>2, <3>3, <3>4 DEF ReadTruly
      <3>5. ASSUME NEW t \in Things, OldNews(t) => scan.got[t] \in {gh[t].ver, -1} \/ ToCome(t), OldNews(t)'
            PROVE  scan'.got[t] \in {gh[t].ver, -1} \/ ToCome(t)'
        BY <1>2, <3>1, <3>2, <3>3, <3>5 DEF OldNews, ToCome, OnPageToCome
      <3>6. ScanHolds'
        BY <1>1, <1>2, <3>1, <3>3, <3>4, <3>5 DEF ScanHolds
      <3>. QED  BY <1>4, <1>5, <3>1, <3>6 DEF InventoryInv
    <2>. QED  BY <2>1, <2>2, <2>3
  <1>. QED  BY <1>7, <1>8, <1>10, <1>11 DEF TimePasses, Fails, inventory

LEMMA InventoryNext ==
    ASSUME InventoryConstants, InventoryInv, [InvNext]_inventory
    PROVE  InventoryInv'
  BY InventoryChange, InventoryReadsPage, InventoryCommit, InventoryRest DEF InvNext

\* UnseenIsAhead for any repository, page length, overlap and clock: what Town
\* has not seen is newer than what its next inventory reaches back to.
THEOREM NoChangeIsLost ==
    ASSUME InventoryConstants
    PROVE  InvSpec => []UnseenIsAhead
  <1>1. InvInit => InventoryInv
    BY InventoryInitial
  <1>2. InventoryInv /\ [InvNext]_inventory => InventoryInv'
    BY InventoryNext
  <1>3. InventoryInv => UnseenIsAhead
    BY DEF InventoryInv
  <1>. QED  BY <1>1, <1>2, <1>3, PTL DEF InvSpec

\* NeverOlder: no inventory takes what Town has of an item back.
THEOREM InventoryNeverOlder ==
    ASSUME InventoryConstants
    PROVE  InvSpec => NeverOlder
  <1>1. InvInit => InventoryInv
    BY InventoryInitial
  <1>2. InventoryInv /\ [InvNext]_inventory => InventoryInv'
    BY InventoryNext
  <1>3. InventoryInv /\ [InvNext]_inventory => [Newer]_inventory
    <2> SUFFICES ASSUME InventoryInv, InvNext PROVE Newer
      OBVIOUS
    <2>1. CASE Commit
      BY <2>1, InventoryCommit
    <2>2. CASE seen' = seen
      BY <2>2 DEF Newer, InventoryInv, InvTyped
    <2>. QED  BY <2>1, <2>2 DEF InvNext, TimePasses, Change, BeginScan, ReadPage, ReadDetail, Fails, KeepsRecord
  <1>. QED  BY <1>1, <1>2, <1>3, PTL DEF InvSpec, NeverOlder

-----------------------------------------------------------------------------
(***************************************************************************)
(* Storage: what a cleanup removes and reports.                            *)
(***************************************************************************)
Working == {"remove", "taking", "branch"}
Cleanups == [pc : {"idle", "scan", "ask", "wait"} \cup Working, picked : SUBSET Artifacts,
             left : SUBSET Artifacts, at : SUBSET Artifacts, answer : Answers,
             ids : [Artifacts -> Int]]
Removals == [now : SUBSET Artifacts, wrong : BOOLEAN, lied : BOOLEAN]
Receipts == [content : Int, complete : BOOLEAN]

StorageTyped ==
    /\ stored \in [Artifacts -> Int] /\ view \in [Artifacts -> Int]
    /\ branch \in [Artifacts -> Int] /\ receipt \in [Artifacts -> Receipts]
    /\ run \in [active : BOOLEAN, had : SUBSET Artifacts]
    /\ cleanup \in Cleanups /\ cleanup.left \subseteq cleanup.picked
    /\ cleanup.at \subseteq cleanup.left \ BotFiles
    /\ wanted \subseteq BotFiles \X Int \X Int /\ cleanups \in Int
    /\ removed \in Removals

\* Nothing this cleanup asked a bot for was removed, or will be.
NothingAsked == removed.now \cap BotFiles = {} /\ \A p \in wanted : p[3] # cleanups
\* The requests of earlier cleanups are still with the bot, but what the bot has
\* removed of this one's request, and will remove, is known when it answered.
ReportHolds ==
    /\ \A p \in wanted : p[3] <= cleanups
    /\ cleanup.pc \in {"scan", "ask"} => NothingAsked
    /\ cleanup.pc \in {"scan", "ask", "wait"} => cleanup.answer = "none"
    /\ cleanup.pc \in Working /\ cleanup.answer = "answered" => wanted \cap CleanupRequest = {}
    /\ ~Gateways /\ cleanup.pc \in Working /\ cleanup.answer = "retained" => NothingAsked
    /\ RemovedAsSelected /\ (~Gateways => ReportIsTrue)

\* The reservation: nothing runs, what was selected stays over and recorded
\* until it is removed.
ReservationHolds ==
    /\ Busy => ~run.active
    /\ \A a \in removed.now : stored[a] = Gone
    /\ cleanup.pc # "idle" => \A a \in cleanup.picked : cleanup.ids[a] # Never
    /\ cleanup.pc \in {"ask", "wait"} \cup Working =>
         \A a \in cleanup.picked \cap Transcripts :
            a \in terminal /\ (receipt[a].complete \/ stored[a] = Gone)

\* Town's own removals, one at a time: what is left to do is not removed yet, a
\* branch is deleted after its worktree, and a transcript that was looked at stays
\* as it was, since nobody writes it without a run.
OwnHolds ==
    /\ cleanup.pc \notin {"taking", "branch"} => cleanup.at = {}
    /\ \A a, b \in cleanup.at : a = b
    /\ cleanup.pc = "scan" => removed.now \subseteq BotFiles
    /\ (cleanup.left \ cleanup.at) \cap removed.now \subseteq BotFiles
    /\ cleanup.pc = "branch" => cleanup.at \subseteq removed.now
    /\ cleanup.pc = "taking" =>
         \A a \in cleanup.at \ Worktrees : stored[a] = cleanup.ids[a]

LEMMA StorageStarts ==
    ASSUME StorageInit
    PROVE  StorageTyped /\ ReportHolds /\ ReservationHolds /\ OwnHolds
  <1>1. NoIds \in [Artifacts -> Int] /\ NoCleanup \in Cleanups /\ NoCleanup.pc = "idle"
        /\ NoReceipt \in Receipts /\ NoCleanup.left = {} /\ NoCleanup.at = {}
    BY DEF NoIds, NoCleanup, Cleanups, NoReceipt, Receipts, Never, Answers
  <1>. QED  BY <1>1 DEF StorageInit, StorageTyped, ReportHolds, ReservationHolds, OwnHolds,
            RemovedAsSelected, ReportIsTrue, IdleRun, Busy, Removals, Working

\* A cleanup goes on to its next artifact, or is over.
LEMMA PassedDoes ==
    ASSUME StorageTyped, NEW a \in cleanup.left
    PROVE  /\ Passed(a) \in Cleanups /\ NoCleanup \in Cleanups
           /\ NoCleanup.pc = "idle" /\ NoCleanup.left = {} /\ NoCleanup.at = {}
           /\ \/ Passed(a) = NoCleanup
              \/ /\ Passed(a).pc = "remove" /\ Passed(a).at = {}
                 /\ Passed(a).left = cleanup.left \ {a} /\ Passed(a).picked = cleanup.picked
                 /\ Passed(a).ids = cleanup.ids /\ Passed(a).answer = cleanup.answer
  <1> DEFINE after == [cleanup EXCEPT !.pc = "remove", !.left = @ \ {a}, !.at = {}]
  <1>1. /\ after \in Cleanups /\ after.pc = "remove" /\ after.at = {}
        /\ after.left = cleanup.left \ {a} /\ after.picked = cleanup.picked
        /\ after.ids = cleanup.ids /\ after.answer = cleanup.answer
    BY DEF StorageTyped, Cleanups, Working
  <1>2. /\ NoCleanup \in Cleanups /\ NoCleanup.pc = "idle" /\ NoCleanup.left = {}
        /\ NoCleanup.at = {}
    BY DEF NoIds, NoCleanup, Cleanups, Never, Answers
  <1>3. Passed(a) = after \/ Passed(a) = NoCleanup
    BY DEF Passed
  <1> HIDE DEF after
  <1>. QED  BY <1>1, <1>2, <1>3

\* A report changes the receipt of what was removed, and no other.
LEMMA SettledDoes ==
    ASSUME StorageTyped, NEW a \in cleanup.left, NEW status, Settled(a, status)
    PROVE  /\ cleanup' = Passed(a) \/ cleanup' = NoCleanup
           /\ receipt' \in [Artifacts -> Receipts]
           /\ \A b \in Artifacts : receipt'[b] = receipt[b] \/ (b = a /\ status = "removed")
  <1> DEFINE new == [receipt EXCEPT ![a] = NoReceipt]
  <1>1. a \in Artifacts /\ NoReceipt \in Receipts
    BY DEF StorageTyped, Cleanups, NoReceipt, Receipts, Never
  <1>2. new \in [Artifacts -> Receipts] /\ \A b \in Artifacts : new[b] = receipt[b] \/ b = a
    BY <1>1 DEF StorageTyped
  <1>3. cleanup' = Passed(a) \/ cleanup' = NoCleanup
    BY DEF Settled
  <1>4. receipt' = receipt \/ (status = "removed" /\ receipt' = new)
    BY DEF Settled
  <1> HIDE DEF new
  <1>. QED  BY <1>2, <1>3, <1>4 DEF StorageTyped

\* What the operator is told, and what is gone, are the only marks of a report.
LEMMA ToldDoes ==
    ASSUME NEW a, NEW status, NEW r \in Removals, NEW kept
    PROVE  /\ Told(a, status, r, kept) \in Removals
           /\ Told(a, status, r, kept).now = r.now /\ Told(a, status, r, kept).wrong = r.wrong
           /\ ~Claim(a, status, r, kept) => Told(a, status, r, kept).lied = r.lied
  <1>1. Claim(a, status, r, kept) \in BOOLEAN
    BY DEF Claim
  <1> QED  BY <1>1 DEF Told, Removals

\* What is removed is gone for good.
LEMMA VanishesDoes ==
    ASSUME StorageTyped, NEW a \in Artifacts, Vanishes(a)
    PROVE  /\ stored' \in [Artifacts -> Int] /\ stored'[a] = Gone
           /\ \A b \in Artifacts : b # a => stored'[b] = stored[b]
  <1>1. Gone \in Int
    BY DEF Gone
  <1> QED  BY <1>1 DEF Vanishes, StorageTyped
LEMMA TakenDoes ==
    ASSUME StorageTyped, NEW a \in Artifacts, NEW d, NEW n
    PROVE  /\ Taken(<<a, d, n>>) \in Removals
           /\ Taken(<<a, d, n>>).now = IF n = cleanups THEN removed.now \cup {a} ELSE removed.now
           /\ Taken(<<a, d, n>>).lied = removed.lied
           /\ stored[a] = d => Taken(<<a, d, n>>).wrong = removed.wrong
  <1> DEFINE p == <<a, d, n>>
  <1>1. p[1] = a /\ p[2] = d /\ p[3] = n
    OBVIOUS
  <1>2. Taken(p) = [removed EXCEPT !.now = IF p[3] = cleanups THEN removed.now \cup {p[1]}
                                           ELSE removed.now,
                                   !.wrong = removed.wrong \/ stored[p[1]] # p[2]]
    BY DEF Taken
  <1> HIDE DEF p
  <1>3. Taken(p) = [removed EXCEPT !.now = IF n = cleanups THEN removed.now \cup {a}
                                           ELSE removed.now,
                                   !.wrong = removed.wrong \/ stored[a] # d]
    BY <1>1, <1>2
  <1> DEFINE w == removed.wrong \/ stored[a] # d
             gone == IF n = cleanups THEN removed.now \cup {a} ELSE removed.now
  <1>4. w \in BOOLEAN /\ gone \in SUBSET Artifacts /\ (stored[a] = d => w = removed.wrong)
    BY DEF StorageTyped, Removals
  <1>5. Taken(p) = [removed EXCEPT !.now = gone, !.wrong = w]
    BY <1>3
  <1> HIDE DEF w, gone
  <1>6. /\ Taken(p) \in Removals /\ Taken(p).now = gone /\ Taken(p).wrong = w
        /\ Taken(p).lied = removed.lied
    BY <1>4, <1>5 DEF StorageTyped, Removals
  <1>. QED  BY <1>4, <1>6 DEF p, gone

StorageInv == StorageTyped /\ ReportHolds /\ ReservationHolds /\ OwnHolds

\* Runs, people and bots outside Town leave the cleanup alone, and a transcript
\* that is gone does not come back.
LEMMA OthersHold ==
    ASSUME StorageInv,
           \/ RunStarts \/ RunWrites \/ RunEnds \/ Outsider \/ OutsiderWrites
           \/ PersonEdits \/ TaskMoves \/ Look
    PROVE  StorageInv'
<1>1. /\ cleanup' = cleanup /\ wanted' = wanted /\ cleanups' = cleanups /\ removed' = removed
      /\ branch' = branch
  BY DEF RunStarts, RunWrites, RunEnds, Outsider, OutsiderWrites, PersonEdits, TaskMoves, Look,
         Counters, Trees
<1>2. ReportHolds'
  BY <1>1 DEF StorageInv, ReportHolds, NothingAsked, CleanupRequest, RemovedAsSelected, ReportIsTrue
<1>3. /\ stored' \in [Artifacts -> Int]
      /\ \A a \in Artifacts : stored[a] = Gone => stored'[a] = Gone
  <2>1. CASE UNCHANGED stored
    BY <2>1 DEF StorageInv, StorageTyped
  <2>2. ASSUME NEW a \in Artifacts, Written(a)
        PROVE  /\ stored' \in [Artifacts -> Int]
               /\ \A b \in Artifacts : stored[b] = Gone => stored'[b] = Gone
    BY <2>2 DEF Written, StorageInv, StorageTyped
  <2> QED
    BY <2>1, <2>2 DEF RunStarts, RunWrites, RunEnds, Outsider, OutsiderWrites, PersonEdits,
       TaskMoves, Look, Artifacts
<1>4. receipt' \in [Artifacts -> Receipts] /\ (run.active \/ receipt' = receipt)
  <2>1. CASE RunEnds
    <3>1. \A complete \in BOOLEAN : RunReceipts(complete) \in [Artifacts -> Receipts]
      BY DEF RunReceipts, StorageInv, StorageTyped, Receipts
    <3> QED  BY <2>1, <3>1 DEF RunEnds, StorageInv, StorageTyped
  <2> QED
    BY <2>1 DEF RunStarts, RunWrites, Outsider, OutsiderWrites, PersonEdits, TaskMoves, Look,
         StorageInv, StorageTyped
<1>5. view' \in [Artifacts -> Int]
  <2>1. CASE Look
    BY <2>1 DEF Look, ContentIds, NoIds, Never, StorageInv, StorageTyped
  <2> QED
    BY <2>1 DEF RunStarts, RunWrites, RunEnds, Outsider, OutsiderWrites, PersonEdits, TaskMoves,
         StorageInv, StorageTyped
<1>6. run' \in [active : BOOLEAN, had : SUBSET Artifacts] /\ (Busy => ~run'.active)
  <2>1. CASE RunStarts
    BY <2>1 DEF RunStarts
  <2>2. CASE RunEnds
    BY <2>2 DEF RunEnds, IdleRun
  <2> QED
    BY <2>1, <2>2 DEF RunWrites, Outsider, OutsiderWrites, PersonEdits, TaskMoves, Look,
         StorageInv, StorageTyped, ReservationHolds
<1>7. Busy => terminal \subseteq terminal' /\ ~run.active
  BY DEF RunStarts, RunWrites, RunEnds, Outsider, OutsiderWrites, PersonEdits, TaskMoves, Look,
         StorageInv, ReservationHolds
<1>8. StorageTyped'
  BY <1>1, <1>3, <1>4, <1>5, <1>6 DEF StorageInv, StorageTyped
<1>9. ReservationHolds'
  <2>1. Busy' <=> Busy
    BY <1>1 DEF Busy
  <2>2. cleanup.picked \subseteq Artifacts /\ removed.now \subseteq Artifacts
    BY DEF StorageInv, StorageTyped, Cleanups, Removals
  <2>3. \A a \in removed'.now : stored'[a] = Gone
    BY <1>1, <1>3, <2>2 DEF StorageInv, ReservationHolds
  <2>4. ASSUME cleanup.pc \in {"ask", "wait"} \cup Working, NEW a \in cleanup.picked \cap Transcripts
        PROVE  a \in terminal' /\ (receipt'[a].complete \/ stored'[a] = Gone)
    <3>1. Busy /\ a \in terminal /\ (receipt[a].complete \/ stored[a] = Gone)
      BY <2>4 DEF StorageInv, ReservationHolds, Busy, Working
    <3> QED  BY <3>1, <1>3, <1>4, <1>7, <2>2
  <2> QED  BY <1>1, <1>6, <2>1, <2>3, <2>4 DEF StorageInv, ReservationHolds
<1>10. ASSUME cleanup.pc = "taking", NEW a \in cleanup.at \ Worktrees
       PROVE  stored'[a] = stored[a]
  <2>1. ~run.active /\ a \in Artifacts /\ a \notin BotFiles
    BY <1>7, <1>10 DEF Busy, StorageInv, StorageTyped, Cleanups
  <2>2. CASE OutsiderWrites
    BY <2>1, <2>2 DEF OutsiderWrites, Written, StorageInv, StorageTyped
  <2>3. CASE PersonEdits
    BY <2>1, <2>3, <1>10 DEF PersonEdits, Written, StorageInv, StorageTyped
  <2> QED
    BY <2>1, <2>2, <2>3 DEF RunStarts, RunWrites, RunEnds, Outsider, TaskMoves, Look
<1>11. OwnHolds'
  BY <1>1, <1>10 DEF StorageInv, OwnHolds
<1> QED  BY <1>2, <1>8, <1>9, <1>11 DEF StorageInv

\* A cleanup begins with nothing asked, and goes on only with what is over.
LEMMA BeginHolds ==
    ASSUME StorageInv, BeginCleanup
    PROVE  StorageInv'
<1>1. PICK picked \in SUBSET {a \in Artifacts : view[a] # Never} :
          cleanup' = [NoCleanup EXCEPT !.pc = "scan", !.picked = picked, !.ids = view]
  BY DEF BeginCleanup
<1>2. /\ cleanup'.pc = "scan" /\ cleanup'.picked = picked /\ cleanup'.left = {}
      /\ cleanup'.at = {} /\ cleanup'.answer = "none" /\ cleanup'.ids = view /\ cleanup' \in Cleanups
  BY <1>1 DEF NoCleanup, Cleanups, Answers, StorageInv, StorageTyped
<1>3. /\ removed' \in Removals
      /\ removed'.now = {} /\ removed'.wrong = removed.wrong /\ removed'.lied = removed.lied
  BY DEF BeginCleanup, StorageInv, StorageTyped, Removals
<1>4. cleanups' = cleanups + 1 /\ wanted' = wanted /\ ~run.active
      /\ UNCHANGED <<stored, branch, receipt, terminal, run, outsider, view, storefaults>>
  BY DEF BeginCleanup, Trees
<1>5. StorageTyped'
  BY <1>2, <1>3, <1>4 DEF StorageInv, StorageTyped
<1>6. ReportHolds'
  <2>1. \A p \in wanted : p[3] \in Int /\ p[3] <= cleanups
    BY DEF StorageInv, StorageTyped, ReportHolds
  <2>2. NothingAsked'
    BY <1>3, <1>4, <2>1 DEF NothingAsked, StorageInv, StorageTyped
  <2>3. \A p \in wanted' : p[3] <= cleanups'
    BY <1>4, <2>1 DEF StorageInv, StorageTyped
  <2>4. RemovedAsSelected' /\ (~Gateways => ReportIsTrue')
    BY <1>3 DEF StorageInv, ReportHolds, RemovedAsSelected, ReportIsTrue
  <2> QED  BY <1>2, <2>2, <2>3, <2>4 DEF ReportHolds, Working
<1>7. ReservationHolds'
  BY <1>2, <1>3, <1>4 DEF ReservationHolds, Busy, Working
<1>8. OwnHolds'
  BY <1>2, <1>3 DEF OwnHolds
<1> QED  BY <1>5, <1>6, <1>7, <1>8 DEF StorageInv

LEMMA SelectionHolds ==
    ASSUME StorageInv, Scan
    PROVE  StorageInv'
<1>1. /\ UNCHANGED <<terminal, run, outsider, view, cleanups, stored, branch, receipt, wanted,
                      storefaults, removed>>
      /\ cleanup.pc = "scan"
  BY DEF Scan, Untouched, Trees
<1>2. CASE cleanup' = NoCleanup
  BY <1>1, <1>2 DEF NoCleanup, NoIds, Cleanups, Answers, Never, StorageInv, StorageTyped, ReportHolds,
     ReservationHolds, OwnHolds, NothingAsked, RemovedAsSelected, ReportIsTrue, Busy, Working
<1>3. CASE cleanup' # NoCleanup
  <2>1. /\ \A a \in cleanup.picked : ContentIds[a] = cleanup.ids[a]
        /\ cleanup' = [cleanup EXCEPT !.left = cleanup.picked,
                !.pc = IF cleanup.picked \cap BotFiles = {} THEN "remove" ELSE "ask"]
    BY <1>3 DEF Scan
  <2>2. /\ cleanup' \in Cleanups /\ cleanup'.pc \in {"ask", "remove"} /\ cleanup'.picked = cleanup.picked
        /\ cleanup'.left = cleanup.picked /\ cleanup'.ids = cleanup.ids
        /\ cleanup'.answer = cleanup.answer /\ cleanup'.at = {}
    BY <1>1, <2>1 DEF StorageInv, StorageTyped, OwnHolds, Cleanups, Working
  <2>3. cleanup.answer = "none" /\ NothingAsked
    BY <1>1 DEF StorageInv, ReportHolds
  <2>4. \A a \in cleanup.picked : Cleanable(a)
    <3>1. \A a \in cleanup.picked : a \in Artifacts /\ cleanup.ids[a] # Never
      BY <1>1 DEF StorageInv, StorageTyped, Cleanups, ReservationHolds
    <3> QED  BY <2>1, <3>1 DEF ContentIds
  <2>5. ReservationHolds'
    BY <1>1, <2>2, <2>4 DEF StorageInv, ReservationHolds, Cleanable, Busy
  <2>6. ReportHolds'
    BY <1>1, <2>2, <2>3 DEF StorageInv, ReportHolds, NothingAsked, RemovedAsSelected, ReportIsTrue
  <2>7. OwnHolds'
    BY <1>1, <2>2 DEF StorageInv, OwnHolds
  <2> QED  BY <1>1, <2>2, <2>5, <2>6, <2>7 DEF StorageInv, StorageTyped
<1> QED  BY <1>2, <1>3

LEMMA AskHolds ==
    ASSUME StorageInv, Ask
    PROVE  StorageInv'
<1>1. /\ UNCHANGED <<terminal, run, outsider, view, cleanups, stored, branch, receipt, removed>>
      /\ cleanup.pc = "ask" /\ cleanup \in Cleanups
  BY DEF Ask, Untouched, Trees, StorageInv, StorageTyped
<1>2. /\ cleanup' \in Cleanups /\ cleanup'.picked = cleanup.picked /\ cleanup'.left = cleanup.left
      /\ cleanup'.ids = cleanup.ids /\ cleanup'.at = cleanup.at
      /\ \/ /\ wanted' = wanted \cup CleanupRequest
            /\ cleanup'.pc = "wait" /\ cleanup'.answer = "none"
         \/ wanted' = wanted /\ cleanup'.pc = "remove" /\ cleanup'.answer = "retained"
  BY <1>1 DEF Ask, StorageInv, ReportHolds, Cleanups, Answers, Working
<1>3. NothingAsked
  BY <1>1 DEF StorageInv, ReportHolds
<1>4. wanted' \subseteq BotFiles \X Int \X Int /\ \A p \in wanted' : p[3] <= cleanups
  <2>1. CleanupRequest \subseteq BotFiles \X Int \X Int
    BY DEF CleanupRequest, StorageInv, StorageTyped, Cleanups
  <2>2. \A p \in CleanupRequest : p[3] = cleanups /\ cleanups <= cleanups
    BY DEF CleanupRequest, StorageInv, StorageTyped
  <2> QED  BY <1>2, <2>1, <2>2 DEF StorageInv, StorageTyped, ReportHolds
<1>5. StorageTyped'
  BY <1>1, <1>2, <1>4 DEF StorageInv, StorageTyped
<1>6. ReservationHolds'
  BY <1>1, <1>2 DEF StorageInv, ReservationHolds, Busy, Working
<1>7. ReportHolds'
  BY <1>1, <1>2, <1>3, <1>4 DEF StorageInv, ReportHolds, NothingAsked, RemovedAsSelected,
     ReportIsTrue, Working
<1>8. OwnHolds'
  BY <1>1, <1>2 DEF StorageInv, OwnHolds
<1> QED  BY <1>5, <1>6, <1>7, <1>8 DEF StorageInv

\* A bot removes what it was asked for while the request is open: not after it
\* answered, and nothing when it was not asked.
LEMMA BotRemovesHolds ==
    ASSUME StorageInv, BotRemoves \/ BotRefuses
    PROVE  StorageInv'
<1>1. PICK p \in wanted :
         /\ wanted' = wanted \ {p}
         /\ \/ stored[p[1]] = p[2] /\ Took(p)
            \/ UNCHANGED <<stored, removed>>
  BY DEF BotRemoves, BotRefuses
<1>2. UNCHANGED <<terminal, run, outsider, view, cleanups, receipt, branch, cleanup>>
  BY DEF BotRemoves, BotRefuses, Untouched, Trees
<1>3. /\ p = <<p[1], p[2], p[3]>> /\ p[1] \in BotFiles /\ p[1] \in Artifacts /\ p[2] \in Int
      /\ p[3] \in Int
  BY DEF StorageInv, StorageTyped, Artifacts
<1>4. /\ stored' \in [Artifacts -> Int]
      /\ \A a \in Artifacts : stored[a] = Gone => stored'[a] = Gone
      /\ \A a \in Artifacts \ BotFiles : stored'[a] = stored[a]
      /\ removed' \in Removals
      /\ removed'.wrong = removed.wrong /\ removed'.lied = removed.lied
      /\ \/ removed'.now = removed.now
         \/ p[3] = cleanups /\ removed'.now = removed.now \cup {p[1]} /\ stored'[p[1]] = Gone
  <2>1. CASE stored[p[1]] = p[2] /\ Took(p)
    <3>1. Vanishes(p[1]) /\ removed' = Taken(<<p[1], p[2], p[3]>>) /\ stored[p[1]] = p[2]
      BY <2>1, <1>3 DEF Took
    <3>2. StorageTyped
      BY DEF StorageInv
    <3> HIDE DEF StorageInv
    <3>3. /\ stored' \in [Artifacts -> Int] /\ stored'[p[1]] = Gone
          /\ \A b \in Artifacts : b # p[1] => stored'[b] = stored[b]
      BY <3>1, <3>2, <1>3, VanishesDoes
    <3>4. /\ removed' \in Removals /\ removed'.lied = removed.lied
          /\ removed'.now = IF p[3] = cleanups THEN removed.now \cup {p[1]} ELSE removed.now
          /\ removed'.wrong = removed.wrong
      BY <3>1, <3>2, <1>3, TakenDoes
    <3> QED  BY <1>3, <3>3, <3>4
  <2>2. CASE UNCHANGED <<stored, removed>>
    BY <2>2 DEF StorageInv, StorageTyped
  <2> QED  BY <1>1, <2>1, <2>2
<1>5. StorageTyped'
  BY <1>1, <1>2, <1>4 DEF StorageInv, StorageTyped
<1>6. ReservationHolds'
  <2>1. removed.now \subseteq Artifacts /\ cleanup.picked \subseteq Artifacts
    BY DEF StorageInv, StorageTyped, Cleanups, Removals
  <2>2. \A a \in removed'.now : stored'[a] = Gone
    BY <1>4, <2>1 DEF StorageInv, ReservationHolds
  <2> QED  BY <1>2, <1>4, <2>1, <2>2 DEF StorageInv, ReservationHolds, Busy
<1>7. ReportHolds'
  <2>1. NothingAsked => NothingAsked'
    BY <1>1, <1>2, <1>4 DEF NothingAsked
  <2>2. CleanupRequest' = CleanupRequest
    BY <1>2 DEF CleanupRequest
  <2> QED  BY <1>1, <1>2, <1>4, <2>1, <2>2 DEF StorageInv, ReportHolds, RemovedAsSelected, ReportIsTrue
<1>8. OwnHolds'
  <2>1. removed'.now \subseteq removed.now \cup BotFiles
    BY <1>3, <1>4
  <2>2. cleanup.at \subseteq Artifacts \ BotFiles /\ removed.now \subseteq removed'.now
    BY <1>4 DEF StorageInv, StorageTyped, Cleanups
  <2> QED  BY <1>2, <1>4, <2>1, <2>2 DEF StorageInv, OwnHolds
<1> QED  BY <1>5, <1>6, <1>7, <1>8 DEF StorageInv

LEMMA BotAnswersHolds ==
    ASSUME StorageInv, BotAnswers
    PROVE  StorageInv'
<1>1. /\ UNCHANGED <<terminal, run, outsider, view, cleanups, stored, branch, receipt, wanted,
                      removed>>
      /\ cleanup.pc = "wait" /\ cleanup \in Cleanups
  BY DEF BotAnswers, Untouched, Trees, StorageInv, StorageTyped
<1>2. /\ cleanup' \in Cleanups /\ cleanup'.pc = "remove"
      /\ cleanup'.picked = cleanup.picked /\ cleanup'.left = cleanup.left /\ cleanup'.ids = cleanup.ids
      /\ cleanup'.at = cleanup.at
      /\ \/ cleanup'.answer = "answered" /\ wanted \cap CleanupRequest = {}
         \/ cleanup'.answer = "uncertain"
         \/ cleanup'.answer = "retained" /\ Gateways
  BY <1>1 DEF BotAnswers, Cleanups, Answers, Working
<1>3. CleanupRequest' = CleanupRequest
  BY <1>1, <1>2 DEF CleanupRequest
<1>4. ReportHolds'
  BY <1>1, <1>2, <1>3 DEF StorageInv, ReportHolds, RemovedAsSelected, ReportIsTrue, Working
<1>5. StorageTyped' /\ ReservationHolds'
  BY <1>1, <1>2 DEF StorageInv, StorageTyped, ReservationHolds, Busy, Working
<1>6. OwnHolds'
  BY <1>1, <1>2 DEF StorageInv, OwnHolds
<1> QED  BY <1>4, <1>5, <1>6 DEF StorageInv

\* After a report the cleanup is over or goes on with the next artifact.
LEMMA ReportedHolds ==
    ASSUME StorageInv, NEW a \in cleanup.left, cleanup.pc \in Working, cleanup.at \subseteq {a},
           cleanup' = Passed(a) \/ cleanup' = NoCleanup, Untouched, wanted' = wanted,
           stored' \in [Artifacts -> Int], branch' \in [Artifacts -> Int],
           \A b \in Artifacts : stored[b] = Gone => stored'[b] = Gone,
           receipt' \in [Artifacts -> Receipts],
           \A b \in Artifacts : receipt'[b] = receipt[b] \/ (b = a /\ stored'[a] = Gone),
           removed' \in Removals,
           removed'.wrong = removed.wrong, ~Gateways => removed'.lied = removed.lied,
           \/ removed'.now = removed.now
           \/ removed'.now = removed.now \cup {a} /\ a \notin BotFiles /\ stored'[a] = Gone
    PROVE  StorageInv'
<1>1. StorageTyped
  BY DEF StorageInv
<1>2. /\ Passed(a) \in Cleanups /\ NoCleanup \in Cleanups
      /\ NoCleanup.pc = "idle" /\ NoCleanup.left = {} /\ NoCleanup.at = {}
      /\ \/ Passed(a) = NoCleanup
         \/ /\ Passed(a).pc = "remove" /\ Passed(a).at = {}
            /\ Passed(a).left = cleanup.left \ {a} /\ Passed(a).picked = cleanup.picked
            /\ Passed(a).ids = cleanup.ids /\ Passed(a).answer = cleanup.answer
  BY <1>1, PassedDoes
<1>3. \/ cleanup' = NoCleanup
      \/ /\ cleanup' \in Cleanups /\ cleanup'.pc = "remove" /\ cleanup'.at = {}
         /\ cleanup'.left = cleanup.left \ {a} /\ cleanup'.picked = cleanup.picked
         /\ cleanup'.ids = cleanup.ids /\ cleanup'.answer = cleanup.answer
  BY <1>2
<1>4. /\ UNCHANGED <<terminal, run, outsider, view, cleanups>>
      /\ cleanup.left \subseteq cleanup.picked /\ cleanup.picked \subseteq Artifacts
      /\ removed.now \subseteq Artifacts /\ a \in Artifacts
  BY DEF Untouched, StorageInv, StorageTyped, Cleanups, Removals
<1>5. StorageTyped'
  BY <1>1, <1>2, <1>3, <1>4 DEF StorageTyped
<1>6. \A b \in removed'.now : stored'[b] = Gone
  BY <1>4 DEF StorageInv, ReservationHolds
<1>7. RemovedAsSelected' /\ (~Gateways => ReportIsTrue')
  BY DEF StorageInv, ReportHolds, RemovedAsSelected, ReportIsTrue
<1>8. NothingAsked => NothingAsked'
  BY <1>4 DEF NothingAsked
<1>9. \A p \in wanted' : p[3] <= cleanups'
  BY <1>4 DEF StorageInv, ReportHolds
<1>10. CASE cleanup' = NoCleanup
  BY <1>2, <1>4, <1>5, <1>6, <1>7, <1>9, <1>10 DEF StorageInv, ReportHolds, ReservationHolds,
     OwnHolds, Busy, Working
<1>11. CASE cleanup' # NoCleanup
  <2>1. CleanupRequest' = CleanupRequest
    BY <1>3, <1>4, <1>11 DEF CleanupRequest
  <2>2. ReportHolds'
    BY <1>3, <1>7, <1>8, <1>9, <1>11, <2>1 DEF StorageInv, ReportHolds, Working
  <2>3. ~run'.active /\ \A b \in cleanup'.picked : cleanup'.ids[b] # Never
    BY <1>3, <1>4, <1>11 DEF StorageInv, ReservationHolds, Busy, Working
  <2>4. \A b \in cleanup'.picked \cap Transcripts :
            b \in terminal' /\ (receipt'[b].complete \/ stored'[b] = Gone)
    BY <1>3, <1>4, <1>11 DEF StorageInv, ReservationHolds
  <2>5. ReservationHolds'
    BY <1>6, <2>3, <2>4 DEF ReservationHolds
  <2>6. OwnHolds'
    BY <1>3, <1>11 DEF StorageInv, OwnHolds
  <2> QED  BY <1>5, <2>2, <2>5, <2>6 DEF StorageInv
<1> QED  BY <1>10, <1>11

\* What a bot is said to have removed it has, and what it is said to have kept
\* it keeps: its answer is whole, or it was not asked.
LEMMA ReportBotHolds ==
    ASSUME StorageInv, ReportBot
    PROVE  StorageInv'
<1>1. PICK a \in cleanup.left \cap BotFiles :
          /\ Settled(a, BotStatus(a))
          /\ removed' = Told(a, BotStatus(a), removed, Never)
  BY DEF ReportBot
<1>2. /\ cleanup.pc = "remove" /\ Untouched /\ stored' = stored /\ branch' = branch
      /\ wanted' = wanted
  BY DEF ReportBot, Trees
<1>3. a \in cleanup.picked \cap BotFiles /\ a \in cleanup.left
  BY DEF StorageInv, StorageTyped
<1>4. BotStatus(a) = "removed" => a \in removed.now
  BY DEF BotStatus, StorageInv, StorageTyped, Cleanups, Answers
<1>5. BotStatus(a) # "partial"
  BY DEF BotStatus, StorageInv, StorageTyped, Cleanups, Answers
<1>6. ~Gateways => ~Claim(a, BotStatus(a), removed, Never)
  <2>1. ASSUME ~Gateways, BotStatus(a) = "retained"
        PROVE  a \notin removed.now /\ <<a, cleanup.ids[a], cleanups>> \notin wanted
    <3>1. CASE cleanup.answer = "answered"
      <4>1. <<a, cleanup.ids[a], cleanups>> \in CleanupRequest
        BY <1>3 DEF CleanupRequest
      <4> QED  BY <2>1, <3>1, <4>1, <1>2 DEF BotStatus, StorageInv, ReportHolds, Working
    <3>2. CASE cleanup.answer # "answered"
      <4>1. NothingAsked
        BY <2>1, <3>2, <1>2 DEF BotStatus, StorageInv, ReportHolds, Working
      <4>2. <<a, cleanup.ids[a], cleanups>>[3] = cleanups
        OBVIOUS
      <4> QED  BY <4>1, <4>2, <1>3 DEF NothingAsked
    <3> QED  BY <3>1, <3>2
  <2> QED  BY <1>4, <1>5, <2>1 DEF Claim
<1>7. removed \in Removals
  BY DEF StorageInv, StorageTyped
<1>8. /\ removed' \in Removals /\ removed'.wrong = removed.wrong /\ removed'.now = removed.now
      /\ ~Gateways => removed'.lied = removed.lied
  BY <1>1, <1>6, <1>7, ToldDoes
<1>9. BotStatus(a) = "removed" => stored'[a] = Gone
  BY <1>2, <1>4 DEF StorageInv, ReservationHolds
<1>10. /\ stored' \in [Artifacts -> Int] /\ branch' \in [Artifacts -> Int]
       /\ \A b \in Artifacts : stored[b] = Gone => stored'[b] = Gone
  BY <1>2 DEF StorageInv, StorageTyped
<1>11. cleanup.at \subseteq {a} /\ cleanup.pc \in Working /\ StorageTyped
  BY <1>2 DEF StorageInv, OwnHolds, Working
<1>12. /\ cleanup' = Passed(a) \/ cleanup' = NoCleanup
       /\ receipt' \in [Artifacts -> Receipts]
       /\ \A b \in Artifacts : receipt'[b] = receipt[b] \/ (b = a /\ BotStatus(a) = "removed")
  BY <1>1, <1>3, <1>11, SettledDoes
<1>13. \A b \in Artifacts : receipt'[b] = receipt[b] \/ (b = a /\ stored'[a] = Gone)
  BY <1>9, <1>12
<1> QED  BY <1>2, <1>3, <1>8, <1>10, <1>11, <1>12, <1>13, ReportedHolds

\* A failure reports nothing of the receipt.
LEMMA FailedDoes ==
    ASSUME StorageTyped, NEW a, Failed(a)
    PROVE  /\ cleanup' = Passed(a) \/ cleanup' = NoCleanup
           /\ receipt' \in [Artifacts -> Receipts] /\ \A b \in Artifacts : receipt'[b] = receipt[b]
BY DEF Failed, StorageTyped

\* What is about to be removed was just looked at, and is not removed yet.
LEMMA CheckOwnHolds ==
    ASSUME StorageInv, CheckOwn
    PROVE  StorageInv'
<1>1. /\ cleanup.pc = "remove" /\ cleanup.pc \in Working /\ Untouched /\ wanted' = wanted
      /\ stored' = stored /\ branch' = branch /\ StorageTyped /\ removed \in Removals
  BY DEF CheckOwn, Trees, Working, StorageInv, StorageTyped
<1>2. PICK a \in cleanup.left \ BotFiles :
          \/ /\ stored[a] = cleanup.ids[a]
             /\ cleanup' = [cleanup EXCEPT !.pc = "taking", !.at = {a}]
             /\ receipt' = receipt /\ removed' = removed
          \/ /\ Settled(a, "retained") \/ Failed(a)
             /\ removed' = Told(a, "retained", removed, Never)
  BY DEF CheckOwn, AsSelected
<1>3. cleanup.at = {} /\ a \notin removed.now /\ a \in Artifacts
  BY <1>1 DEF StorageInv, OwnHolds, StorageTyped, Cleanups
<1>4. CASE /\ stored[a] = cleanup.ids[a]
           /\ cleanup' = [cleanup EXCEPT !.pc = "taking", !.at = {a}]
           /\ receipt' = receipt /\ removed' = removed
  <2>1. /\ cleanup' \in Cleanups /\ cleanup'.pc = "taking" /\ cleanup'.at = {a}
        /\ cleanup'.left = cleanup.left /\ cleanup'.picked = cleanup.picked
        /\ cleanup'.ids = cleanup.ids /\ cleanup'.answer = cleanup.answer
    BY <1>3, <1>4 DEF StorageInv, StorageTyped, Cleanups, Working
  <2>2. UNCHANGED <<terminal, run, outsider, view, cleanups>>
    BY <1>1 DEF Untouched
  <2>3. CleanupRequest' = CleanupRequest
    BY <2>1, <2>2 DEF CleanupRequest
  <2>4. StorageTyped'
    BY <1>1, <1>4, <2>1, <2>2 DEF StorageTyped
  <2>5. ReportHolds'
    BY <1>1, <1>4, <2>1, <2>2, <2>3 DEF StorageInv, ReportHolds, NothingAsked, Working,
       RemovedAsSelected, ReportIsTrue
  <2>6. ReservationHolds'
    BY <1>1, <1>4, <2>1, <2>2 DEF StorageInv, ReservationHolds, Busy, Working
  <2>7. OwnHolds'
    BY <1>1, <1>3, <1>4, <2>1 DEF StorageInv, OwnHolds
  <2> QED  BY <2>4, <2>5, <2>6, <2>7 DEF StorageInv
<1>5. CASE /\ Settled(a, "retained") \/ Failed(a)
           /\ removed' = Told(a, "retained", removed, Never)
  <2>1. ~Claim(a, "retained", removed, Never)
    BY <1>3 DEF Claim, StorageInv, StorageTyped
  <2>2. /\ removed' \in Removals /\ removed'.now = removed.now
        /\ removed'.wrong = removed.wrong /\ removed'.lied = removed.lied
    BY <1>1, <1>5, <2>1, ToldDoes
  <2>3. /\ cleanup' = Passed(a) \/ cleanup' = NoCleanup
        /\ receipt' \in [Artifacts -> Receipts] /\ \A b \in Artifacts : receipt'[b] = receipt[b]
    BY <1>1, <1>5, SettledDoes, FailedDoes
  <2>4. /\ stored' \in [Artifacts -> Int] /\ branch' \in [Artifacts -> Int]
        /\ \A b \in Artifacts : stored[b] = Gone => stored'[b] = Gone
    BY <1>1 DEF StorageTyped
  <2> QED  BY <1>1, <1>3, <2>2, <2>3, <2>4, ReportedHolds
<1> QED  BY <1>2, <1>4, <1>5

\* A transcript goes as it was looked at: nothing writes it without a run.
LEMMA TakeTranscriptHolds ==
    ASSUME StorageInv, TakeTranscript
    PROVE  StorageInv'
<1>1. /\ cleanup.pc = "taking" /\ cleanup.pc \in Working /\ Untouched /\ wanted' = wanted
      /\ branch' = branch /\ StorageTyped /\ removed \in Removals
  BY DEF TakeTranscript, Trees, Working, StorageInv, StorageTyped
<1>2. PICK a \in cleanup.at \ Worktrees :
          \/ /\ Vanishes(a) /\ Settled(a, "removed")
             /\ removed' = Told(a, "removed", Taken(<<a, cleanup.ids[a], cleanups>>), Never)
          \/ Failed(a) /\ UNCHANGED <<stored, removed>>
  BY DEF TakeTranscript
<1>3. /\ cleanup.at \subseteq {a} /\ a \in cleanup.left /\ a \notin BotFiles /\ a \in Artifacts
      /\ stored[a] = cleanup.ids[a] /\ branch' \in [Artifacts -> Int]
  BY <1>1 DEF StorageInv, OwnHolds, StorageTyped, Cleanups
<1>4. CASE Failed(a) /\ UNCHANGED <<stored, removed>>
  <2>1. /\ cleanup' = Passed(a) \/ cleanup' = NoCleanup
        /\ receipt' \in [Artifacts -> Receipts] /\ \A b \in Artifacts : receipt'[b] = receipt[b]
    BY <1>1, <1>4, FailedDoes
  <2>2. stored' \in [Artifacts -> Int] /\ \A b \in Artifacts : stored[b] = Gone => stored'[b] = Gone
    BY <1>1, <1>4 DEF StorageTyped
  <2> QED  BY <1>1, <1>3, <1>4, <2>1, <2>2, ReportedHolds
<1>5. CASE /\ Vanishes(a) /\ Settled(a, "removed")
           /\ removed' = Told(a, "removed", Taken(<<a, cleanup.ids[a], cleanups>>), Never)
  <2> DEFINE taken == Taken(<<a, cleanup.ids[a], cleanups>>)
  <2>1. /\ stored' \in [Artifacts -> Int] /\ stored'[a] = Gone
        /\ \A b \in Artifacts : b # a => stored'[b] = stored[b]
    BY <1>1, <1>3, <1>5, VanishesDoes
  <2>2. /\ taken \in Removals /\ taken.now = removed.now \cup {a}
        /\ taken.lied = removed.lied /\ taken.wrong = removed.wrong
    BY <1>1, <1>3, TakenDoes
  <2>3. removed' = Told(a, "removed", taken, Never)
    BY <1>5
  <2> HIDE DEF taken
  <2>4. ~Claim(a, "removed", taken, Never)
    BY <2>2 DEF Claim
  <2>5. /\ removed' \in Removals /\ removed'.now = removed.now \cup {a}
        /\ removed'.wrong = removed.wrong /\ removed'.lied = removed.lied
    BY <2>2, <2>3, <2>4, ToldDoes
  <2>6. /\ cleanup' = Passed(a) \/ cleanup' = NoCleanup
        /\ receipt' \in [Artifacts -> Receipts]
        /\ \A b \in Artifacts : receipt'[b] = receipt[b] \/ b = a
    BY <1>1, <1>3, <1>5, SettledDoes
  <2> QED  BY <1>1, <1>3, <2>1, <2>5, <2>6, ReportedHolds
<1> QED  BY <1>2, <1>4, <1>5

\* A worktree goes without files the operator did not see; what was committed
\* there meanwhile its branch keeps.
LEMMA TakeWorktreeHolds ==
    ASSUME StorageInv, TakeWorktree
    PROVE  StorageInv'
<1>1. /\ cleanup.pc = "taking" /\ cleanup.pc \in Working /\ Untouched /\ wanted' = wanted
      /\ StorageTyped /\ removed \in Removals
  BY DEF TakeWorktree, Working, StorageInv, StorageTyped
<1>2. PICK a \in cleanup.at \cap Worktrees :
          \/ /\ dirt[a] # "changed" /\ TreeGoes(a)
             /\ \/ cleanup' = [cleanup EXCEPT !.pc = "branch"] /\ receipt' = receipt
                \/ Failed(a)
          \/ /\ UNCHANGED <<stored, Trees, removed>>
             /\ Settled(a, "uncertain") \/ Failed(a)
  BY DEF TakeWorktree
<1>3. cleanup.at \subseteq {a} /\ a \in cleanup.left /\ a \notin BotFiles /\ a \in Artifacts
  BY <1>1 DEF StorageInv, OwnHolds, StorageTyped, Cleanups
<1>4. CASE /\ UNCHANGED <<stored, Trees, removed>>
           /\ Settled(a, "uncertain") \/ Failed(a)
  <2>1. /\ cleanup' = Passed(a) \/ cleanup' = NoCleanup
        /\ receipt' \in [Artifacts -> Receipts] /\ \A b \in Artifacts : receipt'[b] = receipt[b]
    BY <1>1, <1>3, <1>4, SettledDoes, FailedDoes
  <2>2. /\ stored' \in [Artifacts -> Int] /\ branch' \in [Artifacts -> Int] /\ removed' = removed
        /\ \A b \in Artifacts : stored[b] = Gone => stored'[b] = Gone
    BY <1>1, <1>4 DEF StorageTyped, Trees
  <2> QED  BY <1>1, <1>3, <2>1, <2>2, ReportedHolds
<1>5. CASE dirt[a] # "changed" /\ TreeGoes(a)
  <2>1. /\ stored' \in [Artifacts -> Int] /\ stored'[a] = Gone
        /\ \A b \in Artifacts : b # a => stored'[b] = stored[b]
    BY <1>1, <1>3, <1>5, VanishesDoes DEF TreeGoes
  <2>2. branch' \in [Artifacts -> Int]
    BY <1>1, <1>3, <1>5 DEF TreeGoes, StorageTyped
  <2>3. /\ removed' \in Removals /\ removed'.now = removed.now \cup {a}
        /\ removed'.wrong = removed.wrong /\ removed'.lied = removed.lied
    <3>1. removed' = [removed EXCEPT !.now = removed.now \cup {a}, !.wrong = removed.wrong]
      <4>1. (removed.wrong \/ dirt[a] = "changed") = removed.wrong
        BY <1>1, <1>5 DEF Removals
      <4> QED  BY <1>5, <4>1 DEF TreeGoes
    <3> QED  BY <1>1, <1>3, <3>1 DEF Removals
  <2>4. CASE Failed(a)
    <3>1. /\ cleanup' = Passed(a) \/ cleanup' = NoCleanup
          /\ receipt' \in [Artifacts -> Receipts] /\ \A b \in Artifacts : receipt'[b] = receipt[b]
      BY <1>1, <2>4, FailedDoes
    <3> QED  BY <1>1, <1>3, <2>1, <2>2, <2>3, <3>1, ReportedHolds
  <2>5. CASE cleanup' = [cleanup EXCEPT !.pc = "branch"] /\ receipt' = receipt
    <3>1. /\ cleanup' \in Cleanups /\ cleanup'.pc = "branch" /\ cleanup'.at = cleanup.at
          /\ cleanup'.left = cleanup.left /\ cleanup'.picked = cleanup.picked
          /\ cleanup'.ids = cleanup.ids /\ cleanup'.answer = cleanup.answer
      BY <2>5 DEF StorageInv, StorageTyped, Cleanups, Working
    <3>2. UNCHANGED <<terminal, run, outsider, view, cleanups>>
      BY <1>1 DEF Untouched
    <3>3. CleanupRequest' = CleanupRequest
      BY <3>1, <3>2 DEF CleanupRequest
    <3>4. StorageTyped'
      BY <1>1, <2>1, <2>2, <2>3, <2>5, <3>1, <3>2 DEF StorageTyped
    <3>5. NothingAsked => NothingAsked'
      BY <1>1, <1>3, <2>3, <3>2 DEF NothingAsked
    <3>6. ReportHolds'
      BY <1>1, <2>3, <3>1, <3>2, <3>3, <3>5 DEF StorageInv, ReportHolds, Working,
         RemovedAsSelected, ReportIsTrue
    <3>7. \A b \in Artifacts : stored[b] = Gone => stored'[b] = Gone
      BY <2>1
    <3>8. ReservationHolds'
      <4>1. cleanup.picked \subseteq Artifacts /\ removed.now \subseteq Artifacts
        BY <1>1 DEF StorageTyped, Cleanups, Removals
      <4> QED  BY <1>1, <2>1, <2>3, <2>5, <3>1, <3>2, <3>7, <4>1 DEF StorageInv, ReservationHolds,
                  Busy, Working
    <3>9. OwnHolds'
      BY <1>1, <1>3, <2>3, <3>1 DEF StorageInv, OwnHolds
    <3> QED  BY <3>4, <3>6, <3>8, <3>9 DEF StorageInv
  <2> QED  BY <1>2, <1>5, <2>4, <2>5, <1>4
<1> QED  BY <1>2, <1>4, <1>5

\* The branch goes only at the commit that was selected, after its worktree.
LEMMA DropBranchHolds ==
    ASSUME StorageInv, DropBranch
    PROVE  StorageInv'
<1>1. /\ cleanup.pc = "branch" /\ cleanup.pc \in Working /\ Untouched /\ wanted' = wanted
      /\ stored' = stored /\ StorageTyped /\ removed \in Removals
  BY DEF DropBranch, Working, StorageInv, StorageTyped
<1>2. PICK a \in cleanup.at :
          \/ /\ branch[a] = cleanup.ids[a] /\ BranchGoes(a)
             /\ \/ Settled(a, "removed") /\ removed' = Told(a, "removed", Dropped(a), Never)
                \/ Failed(a) /\ removed' = Told(a, "partial", Dropped(a), Never)
          \/ /\ Settled(a, "partial") \/ Failed(a)
             /\ removed' = Told(a, "partial", removed, branch[a])
             /\ UNCHANGED branch
  BY DEF DropBranch
<1>3. /\ cleanup.at \subseteq {a} /\ a \in cleanup.left /\ a \in Artifacts
      /\ a \in removed.now /\ stored'[a] = Gone
  BY <1>1 DEF StorageInv, OwnHolds, ReservationHolds, StorageTyped, Cleanups
<1>4. /\ stored' \in [Artifacts -> Int]
      /\ \A b \in Artifacts : stored[b] = Gone => stored'[b] = Gone
  BY <1>1 DEF StorageTyped
<1>5. branch' \in [Artifacts -> Int]
  BY <1>1, <1>2 DEF BranchGoes, StorageTyped, Never
<1>6. branch[a] = cleanup.ids[a] => Dropped(a) = removed
  BY <1>1 DEF Dropped, Removals
<1>7. /\ ~Claim(a, "partial", removed, Never) /\ ~Claim(a, "removed", removed, Never)
      /\ ~Claim(a, "partial", removed, branch[a])
  BY <1>3 DEF Claim
<1>8. \E status \in {"removed", "partial"}, kept \in {Never, branch[a]} :
          /\ removed' = Told(a, status, removed, kept) /\ ~Claim(a, status, removed, kept)
  BY <1>2, <1>6, <1>7
<1>9. /\ removed' \in Removals /\ removed'.now = removed.now
      /\ removed'.wrong = removed.wrong /\ removed'.lied = removed.lied
  BY <1>1, <1>8, ToldDoes
<1>10. /\ cleanup' = Passed(a) \/ cleanup' = NoCleanup
       /\ receipt' \in [Artifacts -> Receipts]
       /\ \A b \in Artifacts : receipt'[b] = receipt[b] \/ b = a
  <2>1. CASE Failed(a)
    BY <1>1, <2>1, FailedDoes
  <2>2. CASE Settled(a, "removed")
    BY <1>1, <1>3, <2>2, SettledDoes
  <2>3. CASE Settled(a, "partial")
    BY <1>1, <1>3, <2>3, SettledDoes
  <2> QED  BY <1>2, <2>1, <2>2, <2>3
<1> QED  BY <1>1, <1>3, <1>4, <1>5, <1>9, <1>10, ReportedHolds

LEMMA DiesHolds ==
    ASSUME StorageInv, Dies
    PROVE  StorageInv'
BY DEF Dies, Trees, NoCleanup, NoIds, Cleanups, Answers, Never, IdleRun, StorageInv,
       StorageTyped, ReportHolds, ReservationHolds, OwnHolds, NothingAsked, RemovedAsSelected,
       ReportIsTrue, Busy, Working

LEMMA StorageInvariant == StorageSpec => []StorageInv
<1>1. StorageInit => StorageInv
  BY StorageStarts DEF StorageInv
<1>2. StorageInv /\ [StorageNext]_storage => StorageInv'
  <2>1. CASE UNCHANGED storage
    BY <2>1 DEF storage, StorageInv, StorageTyped, ReportHolds, ReservationHolds, OwnHolds,
       NothingAsked, CleanupRequest, RemovedAsSelected, ReportIsTrue, Busy
  <2> QED
    BY <2>1, OthersHold, BeginHolds, SelectionHolds, AskHolds, BotRemovesHolds, BotAnswersHolds,
       ReportBotHolds, CheckOwnHolds, TakeTranscriptHolds, TakeWorktreeHolds, DropBranchHolds,
       DiesHolds DEF StorageNext
<1> QED  BY <1>1, <1>2, PTL DEF StorageSpec

\* A cleanup loses nothing the operator did not see when selecting it,
\* although it looks and removes in separate steps: the digest travels with
\* the request, nobody writes a transcript while the town is reserved, git
\* refuses a worktree with changed files and keeps a branch that moved.
THEOREM RemovalsAsSelected == StorageSpec => []RemovedAsSelected
<1>1. StorageInv => RemovedAsSelected
  BY DEF StorageInv, ReportHolds
<1> QED  BY <1>1, StorageInvariant, PTL

\* Where no gateway stands between Town and its bots, a cleanup's report is
\* true as well: "removed" is gone and so is its branch, of "partial" the
\* worktree is gone, "retained" was not removed by this cleanup and will not
\* be, however long a bot takes over its request.
THEOREM CleanupIsReported ==
    ASSUME ~Gateways
    PROVE  StorageSpec => []CleanupHolds
<1>1. StorageInv => CleanupHolds
  BY DEF StorageInv, ReportHolds, CleanupHolds
<1> QED  BY <1>1, StorageInvariant, PTL

\* As long as a cleanup lasts, the transcripts that go are of completed runs
\* on tasks that are over: the reservation keeps runs out and keeps people
\* from opening those tasks again.
THEOREM CleanupsOnlyFinished == StorageSpec => FinishedOnly
<1>1. StorageInv => RemovesFinished
  BY DEF StorageInv, ReservationHolds, RemovesFinished, Working
<1> QED  BY <1>1, StorageInvariant, PTL DEF StorageSpec, FinishedOnly

-----------------------------------------------------------------------------
(***************************************************************************)
(* Quiet hours. A minute of the week is covered exactly when a window is   *)
(* quiet at it (CoveredByDay, WindowCovers); the walk from span to span     *)
(* ends at the first minute no span covers (ReachIs, by the least           *)
(* counterexample, as the walk only goes forward); the next span begins at  *)
(* the first covered minute (NextIsExact).                                  *)
(***************************************************************************)

LEMMA ProductsAscend ==
    ASSUME NEW n \in Nat, NEW i \in Int, NEW j \in Int, i <= j
    PROVE  i * n \in Int /\ j * n \in Int /\ i * n <= j * n
OBVIOUS

LEMMA Division ==
    ASSUME NEW r \in Int, NEW n \in Nat \ {0}
    PROVE  /\ r % n \in 0..n - 1 /\ r \div n \in Int
           /\ r = (r \div n) * n + (r % n)
OBVIOUS

LEMMA Divided ==
    ASSUME NEW n \in Nat \ {0}, NEW q \in Int, NEW x \in 0..n - 1
    PROVE  /\ (q * n + x) % n = x
           /\ (q * n + x) \div n = q
<1> DEFINE r == q * n + x
           p == r \div n
           y == r % n
<1>1. r \in Int
  OBVIOUS
<1>2. p \in Int /\ y \in 0..n - 1 /\ r = p * n + y
  BY <1>1, Division
<1>3. CASE p <= q - 1
  <2>1. p * n <= (q - 1) * n /\ (q - 1) * n = q * n - n
    BY <1>2, <1>3, ProductsAscend
  <2> QED
    BY <1>2, <2>1
<1>4. CASE q <= p - 1
  <2>1. q * n <= (p - 1) * n /\ (p - 1) * n = p * n - n
    BY <1>2, <1>4, ProductsAscend
  <2> QED
    BY <1>2, <2>1
<1>5. p = q
  BY <1>2, <1>3, <1>4
<1>6. y = x
  BY <1>2, <1>5
<1> QED
  BY <1>5, <1>6

LEMMA ProductsSplit ==
    ASSUME NEW a \in Int, NEW b \in Int, NEW n \in Int
    PROVE  /\ (a - b) * n = a * n - b * n /\ a * b \in Int /\ a * n \in Int /\ b * n \in Int
           /\ (a * b) * n = a * (b * n)
OBVIOUS

LEMMA WeekFits ==
    /\ MinutesPerDay \in Nat \ {0} /\ DaysPerWeek \in Nat \ {0}
    /\ MinutesPerWeek \in Nat \ {0} /\ MinutesPerDay <= MinutesPerWeek
<1>1. MinutesPerDay \in Nat \ {0} /\ DaysPerWeek \in Nat \ {0}
  BY QuietConstants
<1>2. 1 * MinutesPerDay <= DaysPerWeek * MinutesPerDay /\ DaysPerWeek * MinutesPerDay \in Int
  BY <1>1, ProductsAscend
<1> QED
  BY <1>1, <1>2 DEF MinutesPerWeek

LEMMA DayFits ==
    ASSUME NEW d \in 0..DaysPerWeek - 1
    PROVE  /\ d * MinutesPerDay \in Nat
           /\ d * MinutesPerDay + MinutesPerDay <= MinutesPerWeek
<1>1. 0 * MinutesPerDay <= d * MinutesPerDay /\ d * MinutesPerDay \in Int
  BY WeekFits, ProductsAscend
<1>2. /\ d * MinutesPerDay <= (DaysPerWeek - 1) * MinutesPerDay
      /\ (DaysPerWeek - 1) * MinutesPerDay = MinutesPerWeek - MinutesPerDay
  BY WeekFits, ProductsAscend DEF MinutesPerWeek
<1> QED
  BY WeekFits, <1>1, <1>2

LEMMA WindowFields ==
    ASSUME NEW w \in Windows
    PROVE  /\ w.days \subseteq 0..DaysPerWeek - 1 /\ w.days # {}
           /\ w.start \in 0..MinutesPerDay - 1 /\ w.end \in 0..MinutesPerDay
           /\ Length(w) \in 1..MinutesPerDay
<1>1. w \in [days : (SUBSET (0..DaysPerWeek - 1)) \ {{}},
               start : 0..MinutesPerDay - 1, end : 0..MinutesPerDay] /\ w.start # w.end
  BY DEF Windows
<1> QED
  BY <1>1, WeekFits DEF Length

\* A minute of the week that the span of window w from day d covers.
From(w, d) == d * MinutesPerDay + w.start
To(w, d)   == From(w, d) + Length(w)
DayCovers(w, d, m) ==
    \/ From(w, d) <= m /\ m < To(w, d)
    \/ m < To(w, d) - MinutesPerWeek

LEMMA DayBounds ==
    ASSUME NEW w \in Windows, NEW d \in w.days
    PROVE  /\ From(w, d) \in 0..MinutesPerWeek - 1
           /\ To(w, d) \in Int /\ From(w, d) < To(w, d)
           /\ To(w, d) <= From(w, d) + MinutesPerDay
           /\ To(w, d) < MinutesPerWeek + MinutesPerDay
<1>1. d \in 0..DaysPerWeek - 1 /\ w.start \in 0..MinutesPerDay - 1 /\ Length(w) \in 1..MinutesPerDay
  BY WindowFields
<1>2. d * MinutesPerDay \in Nat /\ d * MinutesPerDay + MinutesPerDay <= MinutesPerWeek
  BY <1>1, DayFits
<1> QED
  BY <1>1, <1>2, WeekFits DEF From, To

LEMMA SpanIsOfDay ==
    ASSUME NEW s
    PROVE  s \in Spans <=> \E w \in windows : \E d \in w.days : s \in SpansOfDay(w, d)
BY DEF Spans

LEMMA DaySpans ==
    ASSUME NEW w, NEW d
    PROVE  SpansOfDay(w, d) =
              IF To(w, d) > MinutesPerWeek
              THEN {[from |-> From(w, d), to |-> MinutesPerWeek],
                    [from |-> 0, to |-> To(w, d) - MinutesPerWeek]}
              ELSE {[from |-> From(w, d), to |-> To(w, d)]}
BY DEF SpansOfDay, SpansOf, WrappedSpans, From, To

LEMMA SpanBounds ==
    ASSUME windows \subseteq Windows, NEW s \in Spans
    PROVE  s.from \in 0..MinutesPerWeek - 1 /\ s.to \in 1..MinutesPerWeek /\ s.from < s.to
<1>1. PICK w \in windows : \E d \in w.days : s \in SpansOfDay(w, d)
  BY SpanIsOfDay
<1>2. PICK d \in w.days : s \in SpansOfDay(w, d)
  BY <1>1
<1> DEFINE from == From(w, d)
           to   == To(w, d)
<1>3. /\ from \in 0..MinutesPerWeek - 1 /\ to \in Int /\ from < to
      /\ to < MinutesPerWeek + MinutesPerDay
  BY DayBounds
<1>4. s \in IF to > MinutesPerWeek
            THEN {[from |-> from, to |-> MinutesPerWeek], [from |-> 0, to |-> to - MinutesPerWeek]}
            ELSE {[from |-> from, to |-> to]}
  BY <1>2, DaySpans
<1> HIDE DEF from, to
<1>5. CASE s = [from |-> from, to |-> MinutesPerWeek] /\ to > MinutesPerWeek
  BY <1>3, <1>5, WeekFits
<1>6. CASE s = [from |-> 0, to |-> to - MinutesPerWeek] /\ to > MinutesPerWeek
  BY <1>3, <1>6, WeekFits
<1>7. CASE s = [from |-> from, to |-> to] /\ ~(to > MinutesPerWeek)
  BY <1>3, <1>7, WeekFits
<1> QED
  BY <1>4, <1>5, <1>6, <1>7

LEMMA CoveredByDay ==
    ASSUME windows \subseteq Windows, NEW m \in 0..MinutesPerWeek - 1
    PROVE  Covered(m) <=> \E w \in windows : \E d \in w.days : DayCovers(w, d, m)
<1>1. ASSUME NEW w \in windows, NEW d \in w.days
      PROVE  (\E s \in SpansOfDay(w, d) : s.from <= m /\ m < s.to) <=> DayCovers(w, d, m)
  <2> DEFINE from == From(w, d)
             to   == To(w, d)
  <2>1. from \in 0..MinutesPerWeek - 1 /\ to \in Int /\ from < to
    BY DayBounds
  <2>2. SpansOfDay(w, d) =
            IF to > MinutesPerWeek
            THEN {[from |-> from, to |-> MinutesPerWeek], [from |-> 0, to |-> to - MinutesPerWeek]}
            ELSE {[from |-> from, to |-> to]}
    BY DaySpans
  <2>3. DayCovers(w, d, m) <=> (from <= m /\ m < to) \/ m < to - MinutesPerWeek
    BY DEF DayCovers
  <2> HIDE DEF from, to
  <2>4. CASE to > MinutesPerWeek
    <3>1. (\E s \in SpansOfDay(w, d) : s.from <= m /\ m < s.to)
          <=> (from <= m /\ m < MinutesPerWeek) \/ (0 <= m /\ m < to - MinutesPerWeek)
      <4>1. SpansOfDay(w, d) = {[from |-> from, to |-> MinutesPerWeek],
                                [from |-> 0, to |-> to - MinutesPerWeek]}
        BY <2>2, <2>4
      <4> QED
        BY <4>1
    <3> QED
      BY <2>1, <2>3, <2>4, <3>1, WeekFits
  <2>5. CASE ~(to > MinutesPerWeek)
    <3>1. (\E s \in SpansOfDay(w, d) : s.from <= m /\ m < s.to) <=> from <= m /\ m < to
      <4>1. SpansOfDay(w, d) = {[from |-> from, to |-> to]}
        BY <2>2, <2>5
      <4> QED
        BY <4>1
    <3> QED
      BY <2>1, <2>3, <2>5, <3>1, WeekFits
  <2> QED
    BY <2>4, <2>5
<1>2. Covered(m) <=> \E s \in Spans : s.from <= m /\ m < s.to
  BY DEF Covered, Covering
<1> QED
  BY <1>1, <1>2, SpanIsOfDay

LEMMA WindowCovers ==
    ASSUME NEW w \in Windows, NEW r \in Int
    PROVE  InWindow(w, r) <=> \E d \in w.days : DayCovers(w, d, r % MinutesPerWeek)
<1> DEFINE q == r \div MinutesPerWeek
           minute == r % MinutesPerWeek
           day == r \div MinutesPerDay
           x == r % MinutesPerDay
           c == day - q * DaysPerWeek
           len == Length(w)
<1>1. q \in Int /\ minute \in 0..MinutesPerWeek - 1 /\ r = q * MinutesPerWeek + minute
  BY WeekFits, Division
<1>2. day \in Int /\ x \in 0..MinutesPerDay - 1 /\ r = day * MinutesPerDay + x
  BY WeekFits, Division
<1>3. c \in Int /\ minute = c * MinutesPerDay + x /\ day = q * DaysPerWeek + c
  <2>1. /\ q * DaysPerWeek \in Int /\ (q * DaysPerWeek) * MinutesPerDay = q * MinutesPerWeek
    BY <1>1, WeekFits, ProductsSplit DEF MinutesPerWeek
  <2>2. c \in Int /\ c * MinutesPerDay = day * MinutesPerDay - q * MinutesPerWeek
    BY <1>2, <2>1, WeekFits, ProductsSplit
  <2>3. day * MinutesPerDay \in Int /\ q * MinutesPerWeek \in Int
    BY <1>1, <1>2, WeekFits, ProductsSplit
  <2> QED
    BY <1>1, <1>2, <2>1, <2>2, <2>3
<1>4. /\ w.days \subseteq 0..DaysPerWeek - 1
      /\ w.start \in 0..MinutesPerDay - 1 /\ len \in 1..MinutesPerDay
      /\ w.end \in 0..MinutesPerDay /\ w.start + len <= 2 * MinutesPerDay - 1
  BY WindowFields, WeekFits
<1>5. InWindow(w, r) <=>
        \/ /\ day % DaysPerWeek \in w.days
           /\ day * MinutesPerDay + w.start <= r /\ r < day * MinutesPerDay + w.start + len
        \/ /\ (day - 1) % DaysPerWeek \in w.days
           /\ (day - 1) * MinutesPerDay + w.start <= r
           /\ r < (day - 1) * MinutesPerDay + w.start + len
  <2>1. day - 0 = day
    BY <1>2
  <2> QED
    BY <2>1 DEF InWindow
<1>6. \A d \in w.days : DayCovers(w, d, minute) <=>
        \/ d * MinutesPerDay + w.start <= minute /\ minute < d * MinutesPerDay + w.start + len
        \/ minute < (d * MinutesPerDay + w.start + len) - MinutesPerWeek
  <2> SUFFICES ASSUME NEW d \in w.days
               PROVE  DayCovers(w, d, minute) <=>
                        \/ d * MinutesPerDay + w.start <= minute /\ minute < d * MinutesPerDay + w.start + len
                        \/ minute < (d * MinutesPerDay + w.start + len) - MinutesPerWeek
    OBVIOUS
  <2>1. /\ From(w, d) = d * MinutesPerDay + w.start
        /\ To(w, d) = d * MinutesPerDay + w.start + len
    BY DEF From, To
  <2> HIDE DEF minute, len
  <2> QED
    BY <2>1 DEF DayCovers
<1> HIDE DEF q, minute, day, x, c, len
<1>7. c \in 0..DaysPerWeek - 1
  <2>1. CASE c <= -1
    BY <1>1, <1>2, <1>3, <2>1, WeekFits, ProductsAscend
  <2>2. CASE DaysPerWeek <= c
    BY <1>1, <1>2, <1>3, <2>2, WeekFits, ProductsAscend DEF MinutesPerWeek
  <2> QED
    BY <1>3, <2>1, <2>2, WeekFits
<1>8. day % DaysPerWeek = c
  BY <1>1, <1>3, <1>7, WeekFits, Divided
<1>9. (day - 1) % DaysPerWeek = IF c = 0 THEN DaysPerWeek - 1 ELSE c - 1
  <2>1. CASE c = 0
    <3>1. day - 1 = (q - 1) * DaysPerWeek + (DaysPerWeek - 1)
      BY <1>1, <1>3, <2>1, WeekFits
    <3>2. ((q - 1) * DaysPerWeek + (DaysPerWeek - 1)) % DaysPerWeek = DaysPerWeek - 1
      <4>1. q - 1 \in Int /\ DaysPerWeek - 1 \in 0..DaysPerWeek - 1
        BY <1>1, WeekFits
      <4> QED
        BY <4>1, WeekFits, Divided
    <3> QED
      BY <2>1, <3>1, <3>2
  <2>2. CASE c # 0
    <3>1. day - 1 = q * DaysPerWeek + (c - 1) /\ c - 1 \in 0..DaysPerWeek - 1
      BY <1>1, <1>3, <1>7, <2>2, WeekFits
    <3> QED
      BY <1>1, <2>2, <3>1, WeekFits, Divided
  <2> QED
    BY <2>1, <2>2
<1> DEFINE a(d) == d * MinutesPerDay + w.start
<1>10. \A d \in w.days :
         /\ a(d) \in Int /\ c * MinutesPerDay \in Int
         /\ c - d \in Int /\ (c - d) * MinutesPerDay = c * MinutesPerDay - d * MinutesPerDay
         /\ d * MinutesPerDay \in Int
  BY <1>4, <1>7, WeekFits, ProductsSplit
<1>11. ASSUME NEW d \in w.days, a(d) <= minute, minute < a(d) + len
       PROVE  d = c \/ d = c - 1
  <2>1. CASE c - d <= -1
    <3>1. (c - d) * MinutesPerDay <= (-1) * MinutesPerDay
      BY <1>10, <2>1, WeekFits, ProductsAscend
    <3> QED
      BY <1>2, <1>3, <1>4, <1>10, <1>11, <3>1, WeekFits
  <2>2. CASE 2 <= c - d
    <3>1. 2 * MinutesPerDay <= (c - d) * MinutesPerDay
      BY <1>10, <2>2, WeekFits, ProductsAscend
    <3> QED
      BY <1>2, <1>3, <1>4, <1>10, <1>11, <3>1, WeekFits
  <2> QED
    BY <1>4, <1>7, <2>1, <2>2, WeekFits
<1>12. ASSUME NEW d \in w.days, minute < (a(d) + len) - MinutesPerWeek
       PROVE  c = 0 /\ d = DaysPerWeek - 1
  <2>1. /\ c + DaysPerWeek - d \in Int
        /\ (c + DaysPerWeek - d) * MinutesPerDay
              = c * MinutesPerDay + MinutesPerWeek - d * MinutesPerDay
    BY <1>4, <1>7, WeekFits, ProductsSplit DEF MinutesPerWeek
  <2>2. CASE 2 <= c + DaysPerWeek - d
    <3>1. 2 * MinutesPerDay <= (c + DaysPerWeek - d) * MinutesPerDay
      BY <2>1, <2>2, WeekFits, ProductsAscend
    <3> QED
      BY <1>2, <1>3, <1>4, <1>10, <1>12, <2>1, <3>1, WeekFits
  <2> QED
    BY <1>4, <1>7, <2>1, <2>2, WeekFits
<1>13. InWindow(w, r) <=>
         \/ c \in w.days /\ a(c) <= minute /\ minute < a(c) + len
         \/ c # 0 /\ c - 1 \in w.days /\ a(c - 1) <= minute /\ minute < a(c - 1) + len
         \/ c = 0 /\ DaysPerWeek - 1 \in w.days /\ minute < (a(DaysPerWeek - 1) + len) - MinutesPerWeek
  <2>1. /\ c * MinutesPerDay \in Int /\ day * MinutesPerDay \in Int
        /\ (day - 1) * MinutesPerDay = day * MinutesPerDay - MinutesPerDay
        /\ (c - 1) * MinutesPerDay = c * MinutesPerDay - MinutesPerDay
        /\ (DaysPerWeek - 1) * MinutesPerDay = MinutesPerWeek - MinutesPerDay
    BY <1>2, <1>3, WeekFits DEF MinutesPerWeek
  <2>2. /\ day * MinutesPerDay + w.start <= r <=> w.start <= x
        /\ r < day * MinutesPerDay + w.start + len <=> x < w.start + len
        /\ (day - 1) * MinutesPerDay + w.start <= r
        /\ r < (day - 1) * MinutesPerDay + w.start + len <=> x + MinutesPerDay < w.start + len
    BY <1>2, <1>4, <2>1, WeekFits
  <2>3. /\ a(c) <= minute <=> w.start <= x
        /\ minute < a(c) + len <=> x < w.start + len
        /\ a(c - 1) <= minute
        /\ minute < a(c - 1) + len <=> x + MinutesPerDay < w.start + len
    BY <1>2, <1>3, <1>4, <2>1, WeekFits
  <2>4. c = 0 => (minute < (a(DaysPerWeek - 1) + len) - MinutesPerWeek
                  <=> x + MinutesPerDay < w.start + len)
    <3>1. c = 0 => c * MinutesPerDay = 0
      BY WeekFits
    <3> QED
      BY <1>2, <1>3, <1>4, <2>1, <3>1, WeekFits
  <2> HIDE DEF a
  <2>5. CASE c = 0
    BY <1>5, <1>8, <1>9, <2>2, <2>3, <2>4, <2>5
  <2>6. CASE c # 0
    BY <1>5, <1>8, <1>9, <2>2, <2>3, <2>6
  <2> QED
    BY <2>5, <2>6
<1>14. \A d \in w.days :
          DayCovers(w, d, minute) <=> (a(d) <= minute /\ minute < a(d) + len)
                                   \/ minute < (a(d) + len) - MinutesPerWeek
  BY <1>6
<1> HIDE DEF a
<1>15. InWindow(w, r) <=> \E d \in w.days : DayCovers(w, d, minute)
  <2>1. ASSUME InWindow(w, r)
        PROVE  \E d \in w.days : DayCovers(w, d, minute)
    BY <1>13, <1>14, <2>1
  <2>2. ASSUME NEW d \in w.days, DayCovers(w, d, minute)
        PROVE  InWindow(w, r)
    <3>1. CASE a(d) <= minute /\ minute < a(d) + len
      <4>1. d = c \/ d = c - 1
        BY <1>11, <3>1
      <4>2. d = c - 1 => c # 0
        BY <1>4, <1>7
      <4> QED
        BY <1>13, <3>1, <4>1, <4>2
    <3>2. CASE minute < (a(d) + len) - MinutesPerWeek
      BY <1>12, <1>13, <3>2
    <3> QED
      BY <1>14, <2>2, <3>1, <3>2
  <2> QED
    BY <2>1, <2>2
<1> QED
  BY <1>15 DEF minute

LEMMA ZoneFields ==
    ASSUME zone \in Zones
    PROVE  zone.offset \in Int /\ zone.shift \in Int /\ zone.change \in Int
<1>1. zone.offset \in Offsets /\ zone.shift \in Shifts /\ zone.change \in FirstInstant..LastInstant
  BY DEF Zones
<1>2. zone.offset \in Int /\ zone.shift \in Int
  BY <1>1, QuietConstants
<1>3. FirstInstant \in Int /\ LastInstant \in Int
  BY QuietConstants
<1> QED
  BY <1>1, <1>2, <1>3

LEMMA WallFits ==
    ASSUME zone \in Zones, NEW u \in Int
    PROVE  OffsetAt(u) \in Int /\ Wall(u) \in Int
BY ZoneFields DEF OffsetAt, Wall

LEMMA ActiveIsQuiet ==
    ASSUME windows \subseteq Windows, zone \in Zones, NEW u \in Int
    PROVE  Active(u) <=> QuietAt(u)
<1>1. Wall(u) \in Int /\ WeekMinute(u) \in 0..MinutesPerWeek - 1
  BY WallFits, WeekFits, Division DEF WeekMinute
<1>2. \A w \in windows : InWindow(w, Wall(u)) <=> \E d \in w.days : DayCovers(w, d, WeekMinute(u))
  BY <1>1, WindowCovers DEF WeekMinute
<1> QED
  BY <1>1, <1>2, CoveredByDay DEF Active, QuietAt

LEMMA ShownAhead ==
    ASSUME zone \in Zones, NEW t \in Int, NEW delta \in Nat \ {0}
    PROVE  LET at == WallClockAfter(t, delta)
           IN  /\ at > t /\ Wall(at) >= Wall(t) + delta
               /\ Wall(at) = Wall(t) + delta \/ at = zone.change
<1> DEFINE offset == zone.offset
           shift  == zone.shift
           change == zone.change
           off(u) == IF u < change THEN offset ELSE offset + shift
<1>1. offset \in Int /\ shift \in Int /\ change \in Int
  BY ZoneFields
<1>2. \A u : OffsetAt(u) = off(u)
  BY DEF OffsetAt
<1> DEFINE target == t + off(t) + delta
           u  == target - off(target)
           at == IF off(u) = off(target) THEN u ELSE target - off(u)
           later == target - (offset + shift)
           wallclock == IF at + off(at) # target THEN change
                    ELSE IF at <= t /\ at < change /\ later > t /\ later + off(later) = target
                    THEN later ELSE at
<1>3. Wall(t) + delta = target
  BY <1>1, <1>2 DEF Wall
<1>4. WallClockAfter(t, delta) = wallclock
  <2>1. Date(target) = at
    BY <1>2 DEF Date
  <2>2. OffsetAt(change) = offset + shift
    BY <1>1, <1>2
  <2> QED
    BY <1>2, <1>3, <2>1, <2>2 DEF WallClockAfter, Occurrence, AheadOf, Wall
<1> HIDE DEF offset, shift, change
<1>5. wallclock > t /\ wallclock + off(wallclock) >= target
      /\ (wallclock + off(wallclock) = target \/ wallclock = change)
  BY <1>1
<1> HIDE DEF wallclock, target
<1>6. Wall(wallclock) = wallclock + off(wallclock)
  BY <1>2 DEF Wall
<1> QED
  BY <1>3, <1>4, <1>5, <1>6 DEF change

LEMMA NoShift ==
    ASSUME zone \in Zones, zone.shift = 0, NEW t \in Int, NEW delta \in Nat \ {0}
    PROVE  WallClockAfter(t, delta) = t + delta
<1>1. zone.offset \in Int /\ zone.change \in Int
  BY ZoneFields
<1>2. \A u : OffsetAt(u) = zone.offset
  BY <1>1 DEF OffsetAt
<1>3. \A u : Wall(u) = u + zone.offset /\ Date(u) = u - zone.offset
  BY <1>2 DEF Wall, Date
<1> QED
  BY <1>1, <1>2, <1>3 DEF WallClockAfter, Occurrence, AheadOf

LEMMA SmallestOf ==
    ASSUME NEW T \in SUBSET Nat, T # {}
    PROVE  \E x \in T : \A y \in T : x <= y
<1> DEFINE R == {p \in Nat \X Nat : p[1] < p[2]}
<1>1. IsWellFoundedOn(R, Nat)
  BY NatLessThanWellFounded DEF OpToRel
<1> HIDE DEF R
<1>2. PICK x \in T : \A y \in T : ~(<<y, x>> \in R)
  BY <1>1, WFMin
<1>3. ASSUME NEW y \in T PROVE x <= y
  <2>1. x \in Nat /\ y \in Nat /\ ~(<<y, x>> \in R)
    BY <1>2
  <2> QED
    BY <2>1 DEF R
<1> QED
  BY <1>3

LEMMA MinIs ==
    ASSUME NEW S \in SUBSET Int, NEW x \in S, \A y \in S : x <= y
    PROVE  Min(S) = x
<1>1. Min(S) \in S /\ \A y \in S : Min(S) <= y
  BY DEF Min
<1>2. Min(S) \in Int /\ x \in Int /\ Min(S) <= x /\ x <= Min(S)
  BY <1>1
<1> QED
  BY <1>2

LEMMA MaxIn ==
    ASSUME NEW n \in Nat, NEW S \in SUBSET (0..n), S # {}
    PROVE  Max(S) \in S /\ \A y \in S : y <= Max(S)
<1> DEFINE T == {n - y : y \in S}
<1>1. PICK x \in T : \A y \in T : x <= y
  <2>1. \A y \in S : n - y \in Nat
    OBVIOUS
  <2>2. T \in SUBSET Nat /\ T # {}
    BY <2>1
  <2> QED
    BY <2>2, SmallestOf
<1>2. \E y \in S : \A z \in S : y >= z
  BY <1>1
<1> QED
  BY <1>2 DEF Max

LEMMA Along ==
    ASSUME NEW a \in Int, NEW j \in Nat, (a % MinutesPerWeek) + j < MinutesPerWeek
    PROVE  (a + j) % MinutesPerWeek = (a % MinutesPerWeek) + j
<1> DEFINE q == a \div MinutesPerWeek
           x == a % MinutesPerWeek
<1>1. q \in Int /\ x \in 0..MinutesPerWeek - 1 /\ a = q * MinutesPerWeek + x
  BY WeekFits, Division
<1>2. q * MinutesPerWeek \in Int
  BY <1>1, WeekFits, ProductsSplit
<1>3. a + j = q * MinutesPerWeek + (x + j) /\ x + j \in 0..MinutesPerWeek - 1
  BY <1>1, <1>2, WeekFits
<1> HIDE DEF q, x
<1>4. (q * MinutesPerWeek + (x + j)) % MinutesPerWeek = x + j
  BY <1>1, <1>3, WeekFits, Divided
<1> QED
  BY <1>3, <1>4 DEF x

LEMMA WeekLater ==
    ASSUME NEW a \in Int, NEW j \in Int
    PROVE  /\ ((a % MinutesPerWeek) + j) % MinutesPerWeek = (a + j) % MinutesPerWeek
           /\ (a + MinutesPerWeek) % MinutesPerWeek = a % MinutesPerWeek
<1> DEFINE q == a \div MinutesPerWeek
           x == a % MinutesPerWeek
           p == (x + j) \div MinutesPerWeek
           y == (x + j) % MinutesPerWeek
<1>1. q \in Int /\ x \in 0..MinutesPerWeek - 1 /\ a = q * MinutesPerWeek + x
  BY WeekFits, Division
<1>2. p \in Int /\ y \in 0..MinutesPerWeek - 1 /\ x + j = p * MinutesPerWeek + y
  <2> HIDE DEF q, x
  <2>1. x + j \in Int
    BY <1>1
  <2> QED
    BY <2>1, WeekFits, Division
<1>3. /\ q * MinutesPerWeek \in Int /\ p * MinutesPerWeek \in Int
      /\ (q + p) * MinutesPerWeek = q * MinutesPerWeek + p * MinutesPerWeek
      /\ (q + 1) * MinutesPerWeek = q * MinutesPerWeek + MinutesPerWeek
  BY <1>1, <1>2, WeekFits
<1> HIDE DEF q, x, p, y
<1>4. a + j = (q + p) * MinutesPerWeek + y /\ a + MinutesPerWeek = (q + 1) * MinutesPerWeek + x
  BY <1>1, <1>2, <1>3, WeekFits
<1>5. /\ ((q + p) * MinutesPerWeek + y) % MinutesPerWeek = y
      /\ ((q + 1) * MinutesPerWeek + x) % MinutesPerWeek = x
  BY <1>1, <1>2, WeekFits, Divided
<1> QED
  BY <1>4, <1>5 DEF x, y

LEMMA CoveringEnds ==
    ASSUME windows \subseteq Windows, NEW m \in 0..MinutesPerWeek - 1, Covered(m)
    PROVE  /\ CoveredTo(m) \in m + 1..MinutesPerWeek
           /\ \A n \in m..CoveredTo(m) - 1 : Covered(n)
<1> DEFINE ends == {s.to : s \in Covering(m)}
<1>1. \A s \in Covering(m) : s \in Spans /\ s.from <= m /\ m < s.to
  BY DEF Covering
<1>2. ends # {} /\ ends \in SUBSET (0..MinutesPerWeek)
  BY <1>1, SpanBounds DEF Covered
<1>3. Max(ends) \in ends
  BY <1>2, MaxIn, WeekFits
<1>4. PICK s \in Covering(m) : CoveredTo(m) = s.to
  BY <1>3 DEF CoveredTo
<1>5. s \in Spans /\ s.from \in Int /\ s.from <= m /\ s.to \in m + 1..MinutesPerWeek
  BY <1>1, SpanBounds, WeekFits
<1>6. \A n \in m..s.to - 1 : s.from <= n /\ n < s.to
  BY <1>5, WeekFits
<1> QED
  BY <1>4, <1>5, <1>6 DEF Covered, Covering

LEMMA ReachIs ==
    ASSUME windows \subseteq Windows, NEW m \in 0..MinutesPerWeek - 1
    PROVE  /\ Reach(m) \in Nat
           /\ \A e \in 0..Reach(m) - 1 : Covered((m + e) % MinutesPerWeek)
           /\ Reach(m) < MinutesPerWeek => ~Covered((m + Reach(m)) % MinutesPerWeek)
<1> DEFINE last == 2 * MinutesPerWeek
           at(d) == (m + d) % MinutesPerWeek
           stops(d) == d >= MinutesPerWeek \/ ~Covered(at(d))
           next(d) == d + CoveredTo(at(d)) - at(d)
           Walk(f) == [d \in 0..last |-> IF stops(d) THEN d ELSE f[next(d)]]
<1>1. last \in Nat
  BY WeekFits
<1>2. ASSUME NEW d \in 0..last, ~stops(d)
      PROVE  next(d) \in d + 1..last /\ \A e \in d..next(d) - 1 : Covered(at(e))
  <2>1. m + d \in Int /\ at(d) \in 0..MinutesPerWeek - 1
    BY WeekFits, Division
  <2>2. /\ CoveredTo(at(d)) \in at(d) + 1..MinutesPerWeek
        /\ \A n \in at(d)..CoveredTo(at(d)) - 1 : Covered(n)
    BY <1>2, <2>1, CoveringEnds
  <2>3. next(d) \in d + 1..last
    BY <1>2, <2>1, <2>2, WeekFits
  <2>4. ASSUME NEW e \in d..next(d) - 1
        PROVE  Covered(at(e))
    <3>1. /\ e - d \in Nat /\ at(d) + (e - d) \in at(d)..CoveredTo(at(d)) - 1
          /\ (m + d) + (e - d) = m + e /\ at(d) + (e - d) < MinutesPerWeek
      BY <2>1, <2>2, <2>3, WeekFits
    <3>2. at(e) = at(d) + (e - d)
      BY <2>1, <3>1, Along
    <3> QED
      BY <2>2, <3>1, <3>2
  <2> QED
    BY <2>3, <2>4
<1>3. Reach(m) = (CHOOSE f : f = Walk(f))[0]
  BY DEF Reach
<1> HIDE DEF at, stops, next, last
<1> DEFINE Steps(f, d) == f[d] = IF stops(d) THEN d ELSE f[next(d)]
           Right(k) == \E f \in [0..last -> 0..last] : \A d \in k..last : Steps(f, d)
<1>4. ASSUME NEW k \in 1..last, Right(k)
      PROVE  Right(k - 1)
  <2>1. PICK f \in [0..last -> 0..last] : \A d \in k..last : Steps(f, d)
    BY <1>4
  <2> DEFINE v == IF stops(k - 1) THEN k - 1 ELSE f[next(k - 1)]
             g == [f EXCEPT ![k - 1] = v]
  <2>2. /\ k \in Nat /\ k - 1 \in 0..last /\ \A d \in k..last : d \in 0..last
        /\ ~stops(k - 1) => next(k - 1) \in k..last
    BY <1>1, <1>2
  <2>7. v \in 0..last
    BY <2>1, <2>2
  <2>8. v = IF stops(k - 1) THEN k - 1 ELSE f[next(k - 1)]
    OBVIOUS
  <2> HIDE DEF v
  <2>3. g \in [0..last -> 0..last]
    BY <2>1, <2>7
  <2>4. \A d \in 0..last : g[d] = IF d = k - 1 THEN v ELSE f[d]
    BY <2>1, <2>2
  <2> HIDE DEF g
  <2>5. ASSUME NEW d \in k - 1..last PROVE Steps(g, d)
    <3>1. CASE d = k - 1
      <4>1. ~stops(d) => next(d) \in 0..last /\ next(d) # k - 1
        BY <2>2, <3>1
      <4> QED
        BY <2>2, <2>4, <2>8, <3>1, <4>1
    <3>2. CASE d # k - 1
      <4>1. d \in k..last /\ d \in 0..last /\ (~stops(d) => next(d) \in d + 1..last)
        BY <1>1, <1>2, <3>2
      <4>2. ~stops(d) => next(d) \in 0..last /\ next(d) # k - 1
        <5>1. ASSUME NEW n \in d + 1..last PROVE n \in 0..last /\ n # k - 1
          BY <1>1, <2>2, <4>1
        <5> QED
          BY <4>1, <5>1
      <4>3. Steps(f, d)
        BY <2>1, <4>1
      <4> QED
        BY <2>4, <3>2, <4>1, <4>2, <4>3
    <3> QED
      BY <3>1, <3>2
  <2> HIDE DEF Steps
  <2> QED
    BY <2>3, <2>5
<1>5. Right(last)
  <2>1. stops(last)
    BY WeekFits DEF stops, last
  <2>2. [d \in 0..last |-> d] \in [0..last -> 0..last]
    OBVIOUS
  <2>3. \A d \in last..last : d = last /\ d \in 0..last
    BY <1>1
  <2> QED
    BY <2>1, <2>2, <2>3
<1> HIDE DEF Right
<1>6. Right(0)
  <2> DEFINE T == {n \in 0..last : ~Right(last - n)}
  <2>1. SUFFICES ASSUME T # {} PROVE FALSE
    <3>1. last \in 0..last /\ last - last = 0
      BY <1>1
    <3> QED
      BY <3>1
  <2>2. PICK n \in T : \A y \in T : n <= y
    <3>1. T \in SUBSET Nat
      BY <1>1
    <3> QED
      BY <2>1, <3>1, SmallestOf
  <2>3. n \in 0..last /\ ~Right(last - n)
    BY <2>2
  <2>4. n # 0
    BY <1>1, <1>5, <2>3
  <2>5. /\ n - 1 \in 0..last /\ ~(n <= n - 1) /\ last - (n - 1) \in 1..last
        /\ (last - (n - 1)) - 1 = last - n
    BY <1>1, <2>3, <2>4
  <2>6. Right(last - (n - 1))
    BY <2>2, <2>5
  <2> QED
    BY <1>4, <2>3, <2>5, <2>6
<1>7. \E f : f = Walk(f)
  <2>1. PICK f \in [0..last -> 0..last] : \A d \in 0..last : Steps(f, d)
    BY <1>6 DEF Right
  <2>2. f = [d \in 0..last |-> f[d]]
    BY <2>1
  <2>3. \A d \in 0..last : f[d] = IF stops(d) THEN d ELSE f[next(d)]
    BY <2>1
  <2>4. Walk(f) = [d \in 0..last |-> f[d]]
    BY <2>3
  <2> QED
    BY <2>2, <2>4
<1> DEFINE reach == CHOOSE f : f = Walk(f)
<1>8. reach = Walk(reach)
  BY <1>7
<1> HIDE DEF reach
<1>9. \A d \in 0..last : Steps(reach, d)
  BY <1>8
<1> DEFINE Good(d) == /\ reach[d] \in d..last /\ stops(reach[d])
                      /\ \A e \in d..reach[d] - 1 : Covered(at(e))
<1>10. ASSUME NEW d \in 0..last, \A e \in d + 1..last : Good(e)
       PROVE  Good(d)
  <2>1. CASE stops(d)
    <3>1. reach[d] = d
      BY <1>9, <2>1
    <3>2. d \in Nat /\ d \in d..last /\ \A e \in d..d - 1 : FALSE
      BY <1>1
    <3> QED
      BY <2>1, <3>1, <3>2
  <2>2. CASE ~stops(d)
    <3>1. next(d) \in d + 1..last /\ \A e \in d..next(d) - 1 : Covered(at(e))
      BY <1>2, <2>2
    <3>2. reach[d] = reach[next(d)] /\ Good(next(d))
      BY <1>9, <1>10, <2>2, <3>1
    <3> DEFINE r == reach[d]
               n == next(d)
    <3>3. r \in n..last /\ stops(r) /\ \A e \in n..r - 1 : Covered(at(e))
      BY <3>2
    <3>4. n \in d + 1..last /\ \A e \in d..n - 1 : Covered(at(e))
      BY <3>1
    <3> HIDE DEF r, n
    <3>5. r \in d..last /\ \A e \in d..r - 1 : e \in d..n - 1 \/ e \in n..r - 1
      BY <1>1, <3>3, <3>4
    <3>6. \A e \in d..r - 1 : Covered(at(e))
      BY <3>3, <3>4, <3>5
    <3> QED
      BY <3>3, <3>5, <3>6 DEF r
  <2> QED
    BY <2>1, <2>2
<1> HIDE DEF Good
<1>11. Good(0)
  <2> DEFINE T == {n \in 0..last : ~Good(last - n)}
  <2>1. SUFFICES ASSUME T # {} PROVE FALSE
    <3>1. last \in 0..last /\ last - last = 0
      BY <1>1
    <3> QED
      BY <3>1
  <2>2. PICK n \in T : \A y \in T : n <= y
    <3>1. T \in SUBSET Nat
      BY <1>1
    <3> QED
      BY <2>1, <3>1, SmallestOf
  <2>3. n \in 0..last /\ ~Good(last - n)
    BY <2>2
  <2>4. ASSUME NEW e \in (last - n) + 1..last PROVE Good(e)
    <3>1. last - e \in 0..last /\ ~(n <= last - e) /\ last - (last - e) = e
      BY <1>1, <2>3
    <3> QED
      BY <2>2, <3>1
  <2>5. last - n \in 0..last
    BY <1>1, <2>3
  <2> QED
    BY <1>10, <2>3, <2>4, <2>5
<1>12. /\ reach[0] \in 0..last /\ stops(reach[0])
       /\ \A e \in 0..reach[0] - 1 : Covered(at(e))
  BY <1>11 DEF Good
<1>13. Reach(m) = reach[0]
  BY <1>3 DEF reach
<1> QED
  BY <1>1, <1>12, <1>13, WeekFits DEF stops, at

LEMMA QuietAhead ==
    ASSUME windows \subseteq Windows, zone \in Zones, zone.shift = 0, NEW t \in Int, NEW k \in Int
    PROVE  QuietAt(t + k) <=> Covered((WeekMinute(t) + k) % MinutesPerWeek)
<1>1. zone.offset \in Int /\ zone.change \in Int
  BY ZoneFields
<1>2. \A u \in Int : Wall(u) = u + zone.offset
  BY <1>1 DEF OffsetAt, Wall
<1>3. t + k \in Int /\ Wall(t) \in Int /\ Wall(t + k) = Wall(t) + k
  BY <1>1, <1>2
<1>4. ((Wall(t) % MinutesPerWeek) + k) % MinutesPerWeek = (Wall(t) + k) % MinutesPerWeek
  BY <1>3, WeekLater
<1> QED
  BY <1>3, <1>4, ActiveIsQuiet DEF Active, WeekMinute

LEMMA WeekMinuteFits ==
    ASSUME zone \in Zones, NEW t \in Int
    PROVE  WeekMinute(t) \in 0..MinutesPerWeek - 1
BY WallFits, WeekFits, Division DEF WeekMinute

LEMMA EndIsExact ==
    ASSUME windows \subseteq Windows, zone \in Zones, zone.shift = 0, NEW t \in Int, QuietAt(t)
    PROVE  /\ WholeWeek(t) <=> \A u \in Ahead1(t) : QuietAt(u)
           /\ ~WholeWeek(t) => Until(t) = Min({u \in Ahead1(t) : ~QuietAt(u)})
<1> DEFINE m == WeekMinute(t)
           r == Reach(m)
<1>1. m \in 0..MinutesPerWeek - 1
  BY WeekMinuteFits
<1>2. /\ r \in Nat /\ \A e \in 0..r - 1 : Covered((m + e) % MinutesPerWeek)
      /\ r < MinutesPerWeek => ~Covered((m + r) % MinutesPerWeek)
  BY <1>1, ReachIs
<1>3. \A k \in Int : QuietAt(t + k) <=> Covered((m + k) % MinutesPerWeek)
  BY QuietAhead
<1>4. (WholeWeek(t) <=> r >= MinutesPerWeek) /\ Until(t) = WallClockAfter(t, r)
  BY DEF WholeWeek, Until
<1> HIDE DEF m, r
<1>5. \A e \in 0..r - 1 : QuietAt(t + e)
  BY <1>2, <1>3
<1>6. r < MinutesPerWeek => r \in 1..MinutesPerWeek - 1 /\ ~QuietAt(t + r)
  <2>1. QuietAt(t + 0)
    OBVIOUS
  <2> QED
    BY <1>2, <1>3, <2>1, WeekFits
<1>7. QuietAt(t + MinutesPerWeek)
  <2>1. (m + MinutesPerWeek) % MinutesPerWeek = (m + 0) % MinutesPerWeek
    <3>1. m \in Int /\ m + 0 = m
      BY <1>1
    <3> QED
      BY <3>1, WeekLater
  <2>2. QuietAt(t + 0)
    OBVIOUS
  <2> QED
    BY <1>3, <2>1, <2>2, WeekFits
<1>8. CASE r >= MinutesPerWeek
  <2>1. ASSUME NEW u \in Ahead1(t) PROVE QuietAt(u)
    <3>1. u - t \in 1..MinutesPerWeek /\ t + (u - t) = u
      BY WeekFits DEF Ahead1
    <3>2. u - t \in 0..r - 1 \/ u - t = MinutesPerWeek
      BY <1>2, <1>8, <3>1, WeekFits
    <3> QED
      BY <1>5, <1>7, <3>1, <3>2
  <2> QED
    BY <1>4, <1>8, <2>1
<1>9. CASE r < MinutesPerWeek
  <2> DEFINE open == {u \in Ahead1(t) : ~QuietAt(u)}
  <2>1. t + r \in open /\ open \in SUBSET Int
    BY <1>6, <1>9, WeekFits DEF Ahead1
  <2>2. ASSUME NEW u \in open PROVE t + r <= u
    <3>1. u \in Int /\ u >= t /\ ~QuietAt(u) /\ t + (u - t) = u
      BY WeekFits DEF Ahead1
    <3>2. ~(u - t \in 0..r - 1)
      BY <1>5, <3>1
    <3> QED
      BY <1>2, <3>1, <3>2
  <2>3. Min(open) = t + r
    BY <2>1, <2>2, MinIs
  <2>4. WallClockAfter(t, r) = t + r
    BY <1>6, <1>9, NoShift, WeekFits
  <2>5. ~(r >= MinutesPerWeek)
    BY <1>2, <1>9, WeekFits
  <2>6. \E u \in Ahead1(t) : ~QuietAt(u)
    BY <2>1
  <2> QED
    BY <1>4, <2>3, <2>4, <2>5, <2>6
<1> QED
  BY <1>2, <1>8, <1>9, WeekFits

LEMMA NextIsExact ==
    ASSUME windows \subseteq Windows, windows # {}, zone \in Zones, zone.shift = 0,
           NEW t \in Int, ~QuietAt(t)
    PROVE  NextQuiet(t) = Min({u \in Ahead1(t) : QuietAt(u)})
<1> DEFINE m == WeekMinute(t)
           ahead(s) == (s.from - m + MinutesPerWeek) % MinutesPerWeek
           begins == {ahead(s) : s \in Spans}
           at(k) == (m + k) % MinutesPerWeek
<1>1. m \in 0..MinutesPerWeek - 1
  BY WeekMinuteFits
<1>2. \A k \in Int : QuietAt(t + k) <=> Covered(at(k))
  BY QuietAhead
<1>3. NextQuiet(t) = WallClockAfter(t, Min(begins \cup {MinutesPerWeek}))
  BY DEF NextQuiet, Ahead
<1>4. \A s \in Spans : s.from \in 0..MinutesPerWeek - 1 /\ s.to \in 1..MinutesPerWeek /\ s.from < s.to
  BY SpanBounds
<1>5. at(0) = m /\ ~Covered(m)
  <2>1. at(0) = m
    <3>1. (0 * MinutesPerWeek + m) % MinutesPerWeek = m /\ 0 * MinutesPerWeek + m = m
      BY <1>1, WeekFits, Divided
    <3>2. m + 0 = m
      BY <1>1
    <3> QED
      BY <3>1, <3>2
  <2>2. t + 0 = t
    OBVIOUS
  <2> QED
    BY <1>2, <2>1, <2>2
<1> HIDE DEF m
<1>6. ASSUME NEW s \in Spans
      PROVE  /\ ahead(s) \in 1..MinutesPerWeek - 1 /\ at(ahead(s)) = s.from
             /\ Covered(at(ahead(s)))
  <2> DEFINE a == s.from - m + MinutesPerWeek
  <2>1. a \in Int /\ a + m = s.from + MinutesPerWeek /\ s.from \in Int
    BY <1>1, <1>4, WeekFits
  <2>2. ahead(s) = a % MinutesPerWeek /\ ahead(s) \in 0..MinutesPerWeek - 1
    BY <2>1, WeekFits, Division
  <2>3. ((a % MinutesPerWeek) + m) % MinutesPerWeek = (a + m) % MinutesPerWeek
    <3> HIDE DEF a
    <3>1. m \in Int
      BY <1>1
    <3> QED
      BY <2>1, <3>1, WeekLater
  <2>4. (s.from + MinutesPerWeek) % MinutesPerWeek = s.from % MinutesPerWeek
    BY <2>1, WeekLater
  <2>5. s.from % MinutesPerWeek = s.from
    <3>1. (0 * MinutesPerWeek + s.from) % MinutesPerWeek = s.from
          /\ 0 * MinutesPerWeek + s.from = s.from
      BY <1>4, WeekFits, Divided
    <3> QED
      BY <3>1
  <2>6. m + ahead(s) = (a % MinutesPerWeek) + m
    <3> HIDE DEF a, ahead
    <3> QED
      BY <1>1, <2>2
  <2>7. at(ahead(s)) = s.from
    BY <2>1, <2>3, <2>4, <2>5, <2>6
  <2>8. Covered(s.from)
    BY <1>4, WeekFits DEF Covered, Covering
  <2> HIDE DEF ahead, at, a
  <2>9. ahead(s) # 0
    BY <1>5, <2>7, <2>8
  <2> QED
    BY <2>2, <2>7, <2>8, <2>9
<1>7. ASSUME NEW k \in 1..MinutesPerWeek, Covered(at(k)), ~Covered(at(k - 1))
      PROVE  k \in begins
  <2> DEFINE v == at(k - 1)
  <2>1. /\ k \in Int /\ m + (k - 1) \in Int /\ (m + (k - 1)) + 1 = m + k /\ m + k \in Int
        /\ MinutesPerWeek - m \in Int /\ (m + k) + (MinutesPerWeek - m) = k + MinutesPerWeek
    BY <1>1, WeekFits
  <2>2. v \in 0..MinutesPerWeek - 1 /\ at(k) \in 0..MinutesPerWeek - 1
    BY <2>1, WeekFits, Division
  <2>3. at(k) = (v + 1) % MinutesPerWeek
    BY <2>1, WeekLater
  <2>4. PICK s \in Spans : s.from <= at(k) /\ at(k) < s.to
    BY <1>7 DEF Covered, Covering
  <2>5. ~(s.from <= v /\ v < s.to)
    BY <1>7 DEF Covered, Covering
  <2>6. s.from = at(k)
    <3>1. CASE v + 1 < MinutesPerWeek
      <4>1. at(k) = v + 1
        BY <2>1, <3>1, Along
      <4> HIDE DEF at, v
      <4> QED
        BY <1>4, <2>2, <2>4, <2>5, <4>1
    <3>2. CASE ~(v + 1 < MinutesPerWeek)
      <4>1. v + 1 = 1 * MinutesPerWeek + 0
        <5> HIDE DEF v
        <5> QED
          BY <2>2, <3>2, WeekFits
      <4>2. (1 * MinutesPerWeek + 0) % MinutesPerWeek = 0
        BY WeekFits, Divided
      <4>3. at(k) = 0
        BY <2>3, <4>1, <4>2
      <4> HIDE DEF at
      <4> QED
        BY <1>4, <2>4, <4>3
    <3> QED
      BY <3>1, <3>2
  <2>7. k # MinutesPerWeek
    <3>1. (m + MinutesPerWeek) % MinutesPerWeek = m % MinutesPerWeek
      BY <1>1, WeekLater
    <3>2. m + 0 = m
      BY <1>1
    <3>3. at(MinutesPerWeek) = at(0)
      BY <3>1, <3>2
    <3> QED
      BY <1>5, <1>7, <3>3
  <2>8. (((m + k) % MinutesPerWeek) + (MinutesPerWeek - m)) % MinutesPerWeek
          = ((m + k) + (MinutesPerWeek - m)) % MinutesPerWeek
    BY <2>1, WeekLater
  <2>9. s.from - m + MinutesPerWeek = ((m + k) % MinutesPerWeek) + (MinutesPerWeek - m)
    <3>1. s.from = (m + k) % MinutesPerWeek
      BY <2>6
    <3>2. s.from \in Int
      BY <1>4
    <3> QED
      BY <1>1, <3>1, <3>2, WeekFits
  <2>10. ahead(s) = (k + MinutesPerWeek) % MinutesPerWeek
    BY <2>1, <2>8, <2>9
  <2>11. k + MinutesPerWeek = 1 * MinutesPerWeek + k /\ k \in 0..MinutesPerWeek - 1
    BY <2>7, WeekFits
  <2>12. (1 * MinutesPerWeek + k) % MinutesPerWeek = k
    BY <2>11, WeekFits, Divided
  <2> QED
    BY <2>10, <2>11, <2>12
<1>8. Spans # {}
  <2>1. PICK w \in windows : TRUE
    OBVIOUS
  <2>2. PICK d \in w.days : TRUE
    BY WindowFields
  <2>3. \E s : s \in SpansOfDay(w, d)
    BY DaySpans
  <2> QED
    BY <2>3, SpanIsOfDay
<1> HIDE DEF ahead, at
<1>9. PICK k \in begins : \A j \in begins : k <= j
  <2>1. begins # {} /\ begins \in SUBSET Nat
    BY <1>6, <1>8, WeekFits
  <2> QED
    BY <2>1, SmallestOf
<1>10. \A j \in begins : j \in 1..MinutesPerWeek - 1 /\ Covered(at(j))
  BY <1>6
<1> HIDE DEF begins
<1>11. Min(begins \cup {MinutesPerWeek}) = k
  <2>1. begins \cup {MinutesPerWeek} \in SUBSET Int
    BY <1>10, WeekFits
  <2>2. \A j \in begins \cup {MinutesPerWeek} : k <= j
    BY <1>9, <1>10, WeekFits
  <2> QED
    BY <2>1, <2>2, MinIs
<1>12. WallClockAfter(t, k) = t + k
  BY <1>10, NoShift
<1> DEFINE heard == {u \in Ahead1(t) : QuietAt(u)}
<1>13. t + k \in heard /\ heard \in SUBSET Int
  BY <1>2, <1>10, WeekFits DEF Ahead1
<1>14. ASSUME NEW u \in heard PROVE t + k <= u
  <2> DEFINE C == {j \in 1..MinutesPerWeek : Covered(at(j))}
  <2>1. u - t \in 1..MinutesPerWeek /\ t + (u - t) = u /\ u \in Int
    BY WeekFits DEF Ahead1
  <2>2. u - t \in C
    BY <1>2, <2>1
  <2>3. PICK j \in C : \A i \in C : j <= i
    <3>1. C \in SUBSET Nat
      BY WeekFits
    <3> QED
      BY <2>2, <3>1, SmallestOf
  <2>4. j \in 1..MinutesPerWeek /\ Covered(at(j)) /\ ~(j <= j - 1) /\ j <= u - t
    BY <2>2, <2>3, WeekFits
  <2>5. ~Covered(at(j - 1))
    <3>1. CASE j = 1
      BY <1>5, <3>1
    <3>2. CASE j # 1
      <4>1. j - 1 \in 1..MinutesPerWeek
        BY <2>4, <3>2, WeekFits
      <4> QED
        BY <2>3, <2>4, <4>1
    <3> QED
      BY <3>1, <3>2
  <2>6. j \in begins
    BY <1>7, <2>4, <2>5
  <2> QED
    BY <1>9, <1>10, <2>1, <2>4, <2>6
<1>15. Min(heard) = t + k
  BY <1>13, <1>14, MinIs
<1> QED
  BY <1>3, <1>11, <1>12, <1>15

\* The schedule and the zone stay what they were; only the clock moves.
LEMMA QuietTyped == QuietSpec => []QuietTypeOK
<1>1. QuietInit => QuietTypeOK
  <2> SUFFICES ASSUME QuietInit PROVE QuietTypeOK
    OBVIOUS
  <2>1. PICK v \in Windows, w \in Windows : windows \in {{}, {v, w}}
    BY DEF QuietInit
  <2>5. Cardinality({}) = 0
    BY FS_EmptySet
  <2>2. Cardinality({v, w}) <= 2
    <3>1. CASE v = w
      <4>1. {v, w} = {v}
        BY <3>1
      <4> QED
        <5>1. Cardinality({v, w}) = 1
          BY <4>1, FS_Singleton
        <5> QED
          BY <5>1
    <3>2. CASE v # w
      <4>1. IsFiniteSet({v}) /\ Cardinality({v}) = 1
        BY FS_Singleton
      <4>2. {v, w} = {v} \cup {w} /\ w \notin {v}
        BY <3>2
      <4> QED
        <5>1. Cardinality({v} \cup {w}) = 2
          BY <4>1, <4>2, FS_AddElement
        <5> QED
          BY <4>2, <5>1
    <3> QED
      BY <3>1, <3>2
  <2>3. windows \subseteq Windows /\ Cardinality(windows) <= 2
    BY <2>1, <2>2, <2>5
  <2>4. instant \in FirstInstant..LastInstant /\ zone \in Zones
    BY QuietConstants DEF QuietInit
  <2> QED
    BY <2>3, <2>4 DEF QuietTypeOK
<1>2. QuietTypeOK /\ [QuietNext]_quietVars => QuietTypeOK'
  BY QuietConstants DEF QuietTypeOK, QuietNext, Minute, quietVars, Windows, Zones
<1> QED
  BY <1>1, <1>2, PTL DEF QuietSpec

\* Whatever the schedule and the zone, at every minute what Town shows of its
\* quiet hours is what the windows define (quietStateIn, wallClockAfter).
THEOREM QuietIsShown == QuietSpec => []QuietHolds
<1>1. QuietTypeOK => QuietHolds
  <2> SUFFICES ASSUME QuietTypeOK PROVE QuietHolds
    OBVIOUS
  <2>1. windows \subseteq Windows /\ zone \in Zones /\ instant \in Int
    BY QuietConstants DEF QuietTypeOK
  <2>2. QuietIsExact
    BY <2>1, ActiveIsQuiet, EndIsExact, NextIsExact DEF QuietIsExact
  <2>3. ShownIsAhead
    BY <2>1, ShownAhead, WeekFits DEF ShownIsAhead
  <2> QED
    BY <2>2, <2>3 DEF QuietHolds
<1> QED
  BY <1>1, QuietTyped, PTL

-----------------------------------------------------------------------------
\* Harness: what agents are started from.

\* An installation holds the lock of its version, and only an installation does.
Installing == {"check", "download", "unpack", "rename"}
Locking ==
    /\ \A r \in Runs : job[r].pc \in Installing => lock[job[r].version] = r
    /\ \A v \in Publications : lock[v] # "none" =>
          job[lock[v]].pc \in Installing /\ job[lock[v]].version = v

\* What is unpacked is of the archive, what is renamed is all of it, and nothing
\* is installed while an installation goes on.
Staged ==
    \A r \in Runs :
        /\ job[r].pc \in {"download", "unpack", "rename"} => ~installed[job[r].version].exists
        /\ job[r].pc = "unpack" => job[r].stage \subseteq Archive(job[r].version)
        /\ job[r].pc = "rename" => job[r].stage = Archive(job[r].version) \cup {Marker}
                                   /\ Command \in job[r].stage

\* Every download was wasted, is installed, or is being unpacked.
Fetching(v) == lock[v] # "none" /\ job[lock[v]].pc \in {"unpack", "rename"}
Counted ==
    \A v \in Publications :
        fetched[v] = wasted[v] + (IF Fetching(v) THEN 1 ELSE 0) + (IF installed[v].exists THEN 1 ELSE 0)

\* One refresh at a time; the file is never behind the entries in memory.
Current ==
    /\ \A p, q \in Refreshers : refresh[p] # AtRest /\ refresh[q] # AtRest => p = q
    /\ \A q \in Refreshers :
          /\ refresh[q].pc = "write" => entries.file <= refresh[q].got /\ refresh[q].got <= registry
          /\ refresh[q].pc = "publish" => entries.file = refresh[q].got
    /\ shown = entries.memory /\ entries.memory <= entries.file /\ entries.file <= registry

HarnessInv == HarnessTypeOK /\ InstallsWhole /\ Locking /\ Staged /\ Counted /\ Current

LEMMA PublicationsAreNats ==
    Publications \subseteq Nat /\ 0 \in Publications
  <1>1. MaxVersions \in Nat
    BY HarnessConstants DEF HarnessConstants
  <1> QED BY <1>1 DEF Publications

LEMMA JobKinds ==
    ASSUME HarnessTypeOK, NEW r \in Runs
    PROVE  /\ job[r] \in Simple \cup Named \cup Staging \cup Linking
           /\ job[r].pc \in {"lock", "check", "download", "running"} => job[r] \in Named
           /\ job[r].pc \in {"unpack", "rename"} => job[r] \in Staging
           /\ job[r].pc \in {"link", "derived"} => job[r] \in Linking
           /\ job[r].pc \in Installing => job[r].version \in Publications
  <1>1. job[r] \in Simple \cup Named \cup Staging \cup Linking
    BY DEF HarnessTypeOK
  <1>2. CASE job[r] \in Simple
    BY <1>2 DEF Simple, Installing
  <1>3. CASE job[r] \in Named
    BY <1>3 DEF Named, Installing
  <1>4. CASE job[r] \in Staging
    BY <1>4 DEF Staging, Installing
  <1>5. CASE job[r] \in Linking
    BY <1>5 DEF Linking, Installing
  <1> QED BY <1>1, <1>2, <1>3, <1>4, <1>5

LEMMA JobGoes ==
    ASSUME HarnessTypeOK, NEW r \in Runs, NEW to \in Simple \cup Named \cup Staging \cup Linking,
           job' = [job EXCEPT ![r] = to]
    PROVE  job' \in [Runs -> Simple \cup Named \cup Staging \cup Linking]
  BY DEF HarnessTypeOK

\* What a step of one run leaves alone while it holds a version's lock: the
\* other runs, which install other versions, and the other versions' counts.
LEMMA OtherInstallations ==
    ASSUME HarnessTypeOK, Locking, NEW r \in Runs, job[r].pc \in Installing,
           NEW to \in Simple \cup Named \cup Staging \cup Linking, job' = [job EXCEPT ![r] = to],
           lock' = lock \/ lock' = [lock EXCEPT ![job[r].version] = "none"]
    PROVE  /\ lock[job[r].version] = r /\ job[r].version \in Publications
           /\ \A s \in Runs \ {r} :
                 job'[s] = job[s] /\ (job[s].pc \in Installing => job[s].version # job[r].version)
           /\ \A u \in Publications \ {job[r].version} :
                 lock'[u] = lock[u] /\ lock[u] # r /\ (lock[u] # "none" => lock[u] \in Runs)
                 /\ (Fetching(u)' <=> Fetching(u))
  <1> DEFINE v == job[r].version
  <1>1. lock[v] = r /\ v \in Publications
    BY JobKinds DEF Locking
  <1>2. \A s \in Runs \ {r} :
           job'[s] = job[s] /\ (job[s].pc \in Installing => job[s].version # v)
    BY <1>1 DEF HarnessTypeOK, Locking
  <1>3. ASSUME NEW u \in Publications \ {v}
        PROVE  lock'[u] = lock[u] /\ lock[u] # r /\ (lock[u] # "none" => lock[u] \in Runs)
    <2>1. r # "none"
      BY HarnessConstants DEF HarnessConstants
    <2> QED BY <1>1, <1>3, <2>1 DEF HarnessTypeOK, Locking, Holders
  <1>4. ASSUME NEW u \in Publications \ {v}
        PROVE  Fetching(u)' <=> Fetching(u)
    BY <1>2, <1>3, <1>4 DEF Fetching
  <1> HIDE DEF v
  <1> QED BY <1>1, <1>2, <1>3, <1>4 DEF v

Installation == InstallsWhole /\ Locking /\ Staged /\ Counted

\* A step of a run that neither installs nor is about to run a native agent.
LEMMA OutsideKeeps ==
    ASSUME HarnessTypeOK, Installation, NEW r \in Runs, job[r].pc \notin Installing,
           NEW to \in Simple \cup Named \cup Staging \cup Linking, job' = [job EXCEPT ![r] = to],
           to.pc \notin Installing, to.pc # "running", UNCHANGED installs
    PROVE  Installation'
  <1>1. /\ job'[r] = to /\ \A s \in Runs \ {r} : job'[s] = job[s]
        /\ UNCHANGED installed /\ UNCHANGED lock /\ UNCHANGED fetched /\ UNCHANGED wasted
    BY DEF HarnessTypeOK, installs
  <1>2. \A v \in Publications : lock[v] # "none" => lock[v] \in Runs \ {r}
    BY DEF HarnessTypeOK, Installation, Locking, Holders
  <1>3. InstallsWhole'
    BY <1>1 DEF Installation, InstallsWhole, Startable
  <1>4. Locking'
    BY <1>1, <1>2 DEF Installation, Locking
  <1>5. Staged'
    BY <1>1 DEF Installation, Staged, Installing
  <1>6. Counted'
    BY <1>1, <1>2 DEF Installation, Counted, Fetching
  <1> QED BY <1>3, <1>4, <1>5, <1>6 DEF Installation

\* A step of a run that keeps its lock and neither downloads nor installs.
LEMMA WithinKeeps ==
    ASSUME HarnessTypeOK, Installation, NEW r \in Runs, job[r].pc \in Installing,
           NEW to \in Named \cup Staging, job' = [job EXCEPT ![r] = to],
           to.pc \in Installing, to.version = job[r].version, UNCHANGED installs,
           to.pc \in {"unpack", "rename"} <=> job[r].pc \in {"unpack", "rename"},
           to.pc \in {"download", "unpack", "rename"} => ~installed[to.version].exists,
           to.pc = "unpack" => to.stage \subseteq Archive(to.version),
           to.pc = "rename" => to.stage = Archive(to.version) \cup {Marker} /\ Command \in to.stage
    PROVE  Installation'
  <1>1. /\ job'[r] = to /\ \A s \in Runs \ {r} : job'[s] = job[s]
        /\ UNCHANGED installed /\ UNCHANGED lock /\ UNCHANGED fetched /\ UNCHANGED wasted
    BY DEF HarnessTypeOK, installs
  <1>2. Locking
    BY DEF Installation
  <1>3. InstallsWhole'
    BY <1>1 DEF Installation, InstallsWhole, Startable, Installing
  <1>4. Locking'
    BY <1>1 DEF Installation, Locking
  <1>5. Staged'
    BY <1>1 DEF Installation, Staged
  <1>6. lock[job[r].version] = r
    BY <1>2, JobKinds DEF Locking
  <1>7. \A u \in Publications : Fetching(u)' <=> Fetching(u)
    BY <1>1, <1>6, OtherInstallations, <1>2 DEF Fetching
  <1>8. Counted'
    BY <1>1, <1>7 DEF Installation, Counted
  <1> QED BY <1>3, <1>4, <1>5, <1>8 DEF Installation

LEMMA GivesUpKeeps ==
    ASSUME HarnessTypeOK, Installation, NEW r \in Runs, job[r].pc \in Installing, GivesUp(r)
    PROVE  Installation' /\ job' \in [Runs -> Simple \cup Named \cup Staging \cup Linking]
           /\ lock' \in [Publications -> Holders] /\ wasted' \in [Publications -> Nat]
  <1> DEFINE v == job[r].version
  <1>1. AtRest \in Simple /\ AtRest.pc = "idle"
    BY DEF AtRest, Simple
  <1>2. job' = [job EXCEPT ![r] = AtRest] /\ lock' = [lock EXCEPT ![v] = "none"]
        /\ UNCHANGED installed /\ UNCHANGED fetched
        /\ wasted' = IF job[r].pc \in {"unpack", "rename"} THEN [wasted EXCEPT ![v] = @ + 1]
                     ELSE wasted
    BY DEF GivesUp, Goes, Frees
  <1>3. v \in Publications /\ lock[v] = r
    BY JobKinds DEF Installation, Locking
  <1>4. /\ \A s \in Runs \ {r} :
              job'[s] = job[s] /\ (job[s].pc \in Installing => job[s].version # v)
        /\ \A u \in Publications \ {v} :
              lock'[u] = lock[u] /\ lock[u] # r /\ (lock[u] # "none" => lock[u] \in Runs)
              /\ (Fetching(u)' <=> Fetching(u))
    BY <1>1, <1>2, OtherInstallations DEF Installation
  <1>5. job'[r] = AtRest /\ lock'[v] = "none"
    BY <1>2, <1>3 DEF HarnessTypeOK
  <1>6. /\ job' \in [Runs -> Simple \cup Named \cup Staging \cup Linking]
        /\ lock' \in [Publications -> Holders] /\ wasted' \in [Publications -> Nat]
    <2>1. job' \in [Runs -> Simple \cup Named \cup Staging \cup Linking]
      BY <1>1, <1>2, JobGoes
    <2>2. lock' \in [Publications -> Holders]
      BY <1>2 DEF HarnessTypeOK, Holders
    <2>3. wasted' \in [Publications -> Nat]
      <3>1. CASE wasted' = wasted
        BY <3>1 DEF HarnessTypeOK
      <3>2. CASE wasted' = [wasted EXCEPT ![v] = @ + 1]
        <4>1. wasted[v] \in Nat /\ wasted \in [Publications -> Nat]
          BY <1>3 DEF HarnessTypeOK
        <4>2. \A u \in Publications : wasted'[u] \in Nat
          BY <3>2, <4>1, <1>3
        <4> QED BY <3>2, <4>1, <4>2, Zenon
      <3> QED BY <1>2, <3>1, <3>2
    <2> QED BY <2>1, <2>2, <2>3
  <1>7. InstallsWhole'
    BY <1>1, <1>2, <1>4, <1>5 DEF Installation, InstallsWhole, Startable
  <1>8. Locking'
    <2>1. ASSUME NEW s \in Runs, job'[s].pc \in Installing
          PROVE  lock'[job'[s].version] = s
      <3>1. s # r
        BY <1>1, <1>5, <2>1 DEF Installing
      <3>2. job'[s] = job[s] /\ job[s].version \in Publications \ {v}
        BY <1>4, <2>1, <3>1, JobKinds
      <3> QED BY <1>4, <2>1, <3>2 DEF Installation, Locking
    <2>2. ASSUME NEW u \in Publications, lock'[u] # "none"
          PROVE  job'[lock'[u]].pc \in Installing /\ job'[lock'[u]].version = u
      <3>1. u # v
        BY <1>5, <2>2
      <3>2. lock'[u] = lock[u] /\ lock[u] \in Runs \ {r} /\ job'[lock[u]] = job[lock[u]]
        BY <1>4, <2>2, <3>1
      <3> QED BY <2>2, <3>2 DEF Installation, Locking
    <2> QED BY <2>1, <2>2 DEF Locking
  <1>9. Staged'
    BY <1>1, <1>2, <1>4, <1>5 DEF Installation, Staged
  <1>10. ASSUME NEW u \in Publications
         PROVE  fetched'[u] = wasted'[u] + (IF Fetching(u)' THEN 1 ELSE 0)
                              + (IF installed'[u].exists THEN 1 ELSE 0)
    <2>1. fetched[u] = wasted[u] + (IF Fetching(u) THEN 1 ELSE 0)
                       + (IF installed[u].exists THEN 1 ELSE 0) /\ wasted[u] \in Nat
      BY DEF Installation, Counted, HarnessTypeOK
    <2>2. CASE u # v
      BY <1>2, <1>4, <2>1, <2>2 DEF HarnessTypeOK
    <2>3. CASE u = v
      <3>1. ~Fetching(u)'
        BY <1>5, <2>3 DEF Fetching
      <3>2. Fetching(u) <=> job[r].pc \in {"unpack", "rename"}
        BY <1>3, <2>3, HarnessConstants DEF Fetching, HarnessConstants
      <3>3. wasted'[u] = IF job[r].pc \in {"unpack", "rename"} THEN wasted[u] + 1 ELSE wasted[u]
        BY <1>2, <1>3, <2>3 DEF HarnessTypeOK
      <3> QED BY <1>2, <2>1, <3>1, <3>2, <3>3
    <2> QED BY <2>2, <2>3
  <1>11. Counted'
    BY <1>10 DEF Counted
  <1> HIDE DEF v
  <1> QED BY <1>6, <1>7, <1>8, <1>9, <1>11 DEF Installation

\* The lock is taken by the run whose job names its version.
LEMMA TakesLockKeeps ==
    ASSUME HarnessTypeOK, Installation, NEW r \in Runs, TakesLock(r)
    PROVE  Installation' /\ lock' \in [Publications -> Holders]
  <1> DEFINE v == job[r].version
             to == [pc |-> "check", version |-> v]
  <1>1. job[r] \in Named /\ job[r].pc = "lock" /\ lock[v] = "none" /\ v \in Publications
    BY JobKinds DEF TakesLock, Named
  <1>2. /\ job' = [job EXCEPT ![r] = to] /\ lock' = [lock EXCEPT ![v] = r]
        /\ UNCHANGED installed /\ UNCHANGED fetched /\ UNCHANGED wasted
    BY DEF TakesLock, Goes
  <1>3. to.pc = "check" /\ to.version = v
    OBVIOUS
  <1> HIDE DEF to
  <1>4. job'[r] = to /\ \A s \in Runs \ {r} : job'[s] = job[s]
    BY <1>2 DEF HarnessTypeOK
  <1> HIDE DEF v
  <1>5. lock'[v] = r /\ \A u \in Publications \ {v} : lock'[u] = lock[u]
    BY <1>1, <1>2 DEF HarnessTypeOK
  <1>6. \A s \in Runs \ {r} : job[s].pc \in Installing =>
           job[s].version \in Publications \ {v} /\ lock[job[s].version] = s
    BY <1>1, JobKinds, HarnessConstants DEF Installation, Locking, HarnessConstants
  <1>7. \A u \in Publications \ {v} : lock[u] # "none" => lock[u] \in Runs \ {r}
    BY <1>1 DEF HarnessTypeOK, Installation, Locking, Installing, Holders
  <1>8. lock' \in [Publications -> Holders]
    BY <1>2 DEF HarnessTypeOK, Holders
  <1>9. InstallsWhole'
    BY <1>2, <1>3, <1>4 DEF Installation, InstallsWhole, Startable
  <1>10. Locking'
    <2>1. ASSUME NEW s \in Runs, job'[s].pc \in Installing
          PROVE  lock'[job'[s].version] = s
      BY <1>3, <1>4, <1>5, <1>6, <2>1
    <2>2. ASSUME NEW u \in Publications, lock'[u] # "none"
          PROVE  job'[lock'[u]].pc \in Installing /\ job'[lock'[u]].version = u
      <3>1. CASE u = v
        BY <1>3, <1>4, <1>5, <3>1 DEF Installing
      <3>2. CASE u # v
        BY <1>4, <1>5, <1>7, <2>2, <3>2 DEF Installation, Locking
      <3> QED BY <3>1, <3>2
    <2> QED BY <2>1, <2>2 DEF Locking
  <1>11. Staged'
    BY <1>2, <1>3, <1>4 DEF Installation, Staged
  <1>12. \A u \in Publications : Fetching(u)' <=> Fetching(u)
    <2>1. ASSUME NEW u \in Publications \ {v} PROVE Fetching(u)' <=> Fetching(u)
      BY <1>4, <1>5, <1>7 DEF Fetching
    <2>2. ASSUME NEW u \in Publications, u = v PROVE ~Fetching(u)' /\ ~Fetching(u)
      BY <1>1, <1>3, <1>4, <1>5, <2>2 DEF Fetching
    <2> QED BY <2>1, <2>2
  <1>13. Counted'
    BY <1>2, <1>12 DEF Installation, Counted
  <1> QED BY <1>8, <1>9, <1>10, <1>11, <1>13 DEF Installation

\* An installation that finds another run's lets the lock go.
LEMMA FindsInstalledKeeps ==
    ASSUME HarnessTypeOK, Installation, NEW r \in Runs, FindsInstalled(r)
    PROVE  /\ Installation' /\ lock' \in [Publications -> Holders]
           /\ job' \in [Runs -> Simple \cup Named \cup Staging \cup Linking]
  <1> DEFINE v  == job[r].version
             to == IF Startable(v) THEN [pc |-> "running", version |-> v] ELSE AtRest
  <1>1. job[r].pc = "check" /\ job[r].pc \in Installing /\ v \in Publications /\ lock[v] = r
    BY JobKinds DEF FindsInstalled, Installing, Installation, Locking
  <1>2. /\ to \in Simple \cup Named \cup Staging \cup Linking
        /\ to.pc \in {"idle", "running"}
        /\ to.pc = "running" => to.version = v /\ Startable(v)
    BY <1>1 DEF Simple, Named, AtRest
  <1>3. /\ job' = [job EXCEPT ![r] = to] /\ lock' = [lock EXCEPT ![v] = "none"]
        /\ UNCHANGED installed /\ UNCHANGED fetched /\ UNCHANGED wasted
    BY DEF FindsInstalled, Goes, Frees
  <1> HIDE DEF to
  <1>4. /\ \A s \in Runs \ {r} :
              job'[s] = job[s] /\ (job[s].pc \in Installing => job[s].version # v)
        /\ \A u \in Publications \ {v} :
              lock'[u] = lock[u] /\ lock[u] # r /\ (lock[u] # "none" => lock[u] \in Runs)
              /\ (Fetching(u)' <=> Fetching(u))
    BY <1>1, <1>2, <1>3, OtherInstallations DEF Installation
  <1>5. job'[r] = to /\ lock'[v] = "none"
    BY <1>1, <1>3 DEF HarnessTypeOK
  <1>6. job' \in [Runs -> Simple \cup Named \cup Staging \cup Linking]
    BY <1>2, <1>3, JobGoes
  <1>7. lock' \in [Publications -> Holders]
    BY <1>3 DEF HarnessTypeOK, Holders
  <1>8. InstallsWhole'
    BY <1>2, <1>3, <1>4, <1>5 DEF Installation, InstallsWhole, Startable
  <1>9. Locking'
    <2>1. ASSUME NEW s \in Runs, job'[s].pc \in Installing
          PROVE  lock'[job'[s].version] = s
      <3>1. s # r
        BY <1>2, <1>5, <2>1 DEF Installing
      <3>2. job'[s] = job[s] /\ job[s].version \in Publications \ {v}
        BY <1>4, <2>1, <3>1, JobKinds
      <3> QED BY <1>4, <2>1, <3>2 DEF Installation, Locking
    <2>2. ASSUME NEW u \in Publications, lock'[u] # "none"
          PROVE  job'[lock'[u]].pc \in Installing /\ job'[lock'[u]].version = u
      <3>1. u # v
        BY <1>5, <2>2
      <3>2. lock'[u] = lock[u] /\ lock[u] \in Runs \ {r} /\ job'[lock[u]] = job[lock[u]]
        BY <1>4, <2>2, <3>1
      <3> QED BY <2>2, <3>2 DEF Installation, Locking
    <2> QED BY <2>1, <2>2 DEF Locking
  <1>10. Staged'
    BY <1>2, <1>3, <1>4, <1>5 DEF Installation, Staged
  <1>11. ASSUME NEW u \in Publications PROVE Fetching(u)' <=> Fetching(u)
    BY <1>1, <1>4, <1>5 DEF Fetching
  <1>12. Counted'
    BY <1>3, <1>11 DEF Installation, Counted
  <1> HIDE DEF v
  <1> QED BY <1>6, <1>7, <1>8, <1>9, <1>10, <1>12 DEF Installation

\* A download begins the stage that counts for it.
LEMMA DownloadsKeeps ==
    ASSUME HarnessTypeOK, Installation, NEW r \in Runs, Downloads(r)
    PROVE  Installation' /\ fetched' \in [Publications -> Nat]
  <1> DEFINE v  == job[r].version
             to == [pc |-> "unpack", version |-> v, stage |-> {}]
  <1>1. /\ job[r].pc = "download" /\ job[r].pc \in Installing /\ v \in Publications /\ lock[v] = r
        /\ ~installed[v].exists
    BY JobKinds DEF Downloads, Installing, Installation, Locking, Staged
  <1>2. /\ to \in Simple \cup Named \cup Staging \cup Linking
        /\ to.pc = "unpack" /\ to.version = v /\ to.stage = {}
    BY <1>1 DEF Staging
  <1>3. /\ job' = [job EXCEPT ![r] = to] /\ fetched' = [fetched EXCEPT ![v] = fetched[v] + 1]
        /\ UNCHANGED installed /\ UNCHANGED lock /\ UNCHANGED wasted
    BY DEF Downloads, Goes
  <1> HIDE DEF to
  <1>4. /\ \A s \in Runs \ {r} : job'[s] = job[s]
        /\ \A u \in Publications \ {v} : Fetching(u)' <=> Fetching(u)
    BY <1>1, <1>2, <1>3, OtherInstallations DEF Installation
  <1>5. job'[r] = to
    BY <1>3 DEF HarnessTypeOK
  <1> HIDE DEF v
  <1>6. \A u \in Publications : fetched[u] \in Nat
    BY DEF HarnessTypeOK
  <1>7. fetched' \in [Publications -> Nat]
    <2>1. \A u \in Publications : fetched'[u] \in Nat
      BY <1>1, <1>3, <1>6 DEF HarnessTypeOK
    <2>2. fetched' = [u \in Publications |-> fetched'[u]]
      BY <1>3 DEF HarnessTypeOK
    <2> QED BY <2>1, <2>2
  <1>8. InstallsWhole'
    BY <1>2, <1>3, <1>4, <1>5 DEF Installation, InstallsWhole, Startable
  <1>9. Locking'
    BY <1>1, <1>2, <1>3, <1>4, <1>5 DEF Installation, Locking, Installing, v
  <1>10. Staged'
    BY <1>1, <1>2, <1>3, <1>4, <1>5 DEF Installation, Staged
  <1>11. ASSUME NEW u \in Publications
         PROVE  fetched'[u] = wasted'[u] + (IF Fetching(u)' THEN 1 ELSE 0)
                              + (IF installed'[u].exists THEN 1 ELSE 0)
    <2>1. fetched[u] = wasted[u] + (IF Fetching(u) THEN 1 ELSE 0)
                       + (IF installed[u].exists THEN 1 ELSE 0) /\ wasted[u] \in Nat
      BY DEF Installation, Counted, HarnessTypeOK
    <2>2. CASE u # v
      BY <1>3, <1>4, <2>1, <2>2 DEF HarnessTypeOK
    <2>3. CASE u = v
      <3>1. Fetching(u)' /\ ~Fetching(u)
        BY <1>1, <1>2, <1>3, <1>5, <2>3, HarnessConstants DEF Fetching, HarnessConstants
      <3>2. fetched'[u] = fetched[u] + 1
        BY <1>1, <1>3, <2>3 DEF HarnessTypeOK
      <3> QED BY <1>3, <2>1, <3>1, <3>2
    <2> QED BY <2>2, <2>3
  <1>12. Counted'
    BY <1>11 DEF Counted
  <1> QED BY <1>7, <1>8, <1>9, <1>10, <1>12 DEF Installation

\* The rename makes what was unpacked an installation, or refuses.
LEMMA RenamesKeeps ==
    ASSUME HarnessTypeOK, Installation, NEW r \in Runs, Renames(r), ~installed[job[r].version].exists
    PROVE  /\ Installation' /\ lock' \in [Publications -> Holders]
           /\ job' \in [Runs -> Simple \cup Named \cup Staging \cup Linking]
           /\ installed' \in [Publications -> {NoDir} \cup Directories]
  <1> DEFINE v   == job[r].version
             to  == [pc |-> "running", version |-> v]
             dir == [exists |-> TRUE, files |-> job[r].stage]
  <1>1. /\ job[r].pc = "rename" /\ job[r].pc \in Installing /\ v \in Publications /\ lock[v] = r
        /\ job[r].stage = Archive(v) \cup {Marker} /\ Command \in job[r].stage
        /\ job[r].stage \in SUBSET (Files \cup {Marker})
    BY JobKinds DEF Renames, Installing, Installation, Locking, Staged, Staging
  <1>2. to \in Simple \cup Named \cup Staging \cup Linking /\ to.pc = "running" /\ to.version = v
    BY <1>1 DEF Named
  <1>3. /\ job' = [job EXCEPT ![r] = to] /\ lock' = [lock EXCEPT ![v] = "none"]
        /\ installed' = [installed EXCEPT ![v] = dir] /\ UNCHANGED fetched /\ UNCHANGED wasted
    BY DEF Renames, Goes, Frees
  <1>4. dir \in Directories /\ dir.exists /\ dir.files = Archive(v) \cup {Marker}
        /\ Command \in dir.files
    BY <1>1 DEF Directories
  <1> HIDE DEF to, dir
  <1>5. /\ \A s \in Runs \ {r} :
              job'[s] = job[s] /\ (job[s].pc \in Installing => job[s].version # v)
        /\ \A u \in Publications \ {v} :
              lock'[u] = lock[u] /\ lock[u] # r /\ (lock[u] # "none" => lock[u] \in Runs)
              /\ (Fetching(u)' <=> Fetching(u))
    BY <1>1, <1>2, <1>3, OtherInstallations DEF Installation
  <1>6. job'[r] = to /\ lock'[v] = "none"
    BY <1>1, <1>3 DEF HarnessTypeOK
  <1>7. installed'[v] = dir /\ \A u \in Publications \ {v} : installed'[u] = installed[u]
    BY <1>1, <1>3 DEF HarnessTypeOK
  <1>8. job' \in [Runs -> Simple \cup Named \cup Staging \cup Linking]
    BY <1>2, <1>3, JobGoes
  <1>9. lock' \in [Publications -> Holders]
    BY <1>3 DEF HarnessTypeOK, Holders
  <1>10. installed' \in [Publications -> {NoDir} \cup Directories]
    BY <1>3, <1>4 DEF HarnessTypeOK
  <1>11. InstallsWhole'
    <2>1. ASSUME NEW u \in Publications, installed'[u].exists
          PROVE  installed'[u].files = Archive(u) \cup {Marker}
      BY <1>4, <1>7, <2>1 DEF Installation, InstallsWhole
    <2>2. ASSUME NEW s \in Runs, job'[s].pc = "running"
          PROVE  installed'[job'[s].version].exists
                 /\ Command \in installed'[job'[s].version].files
      <3>1. job'[s].version \in Publications
        BY <1>1, <1>2, <1>5, <1>6, <2>2, JobKinds DEF Named
      <3>2. CASE job'[s].version = v
        BY <1>4, <1>7, <3>2
      <3>3. CASE job'[s].version # v
        BY <1>2, <1>5, <1>6, <1>7, <2>2, <3>1, <3>3 DEF Installation, InstallsWhole, Startable
      <3> QED BY <3>2, <3>3
    <2> QED BY <2>1, <2>2 DEF InstallsWhole, Startable
  <1>12. Locking'
    <2>1. ASSUME NEW s \in Runs, job'[s].pc \in Installing
          PROVE  lock'[job'[s].version] = s
      <3>1. s # r
        BY <1>2, <1>6, <2>1 DEF Installing
      <3>2. job'[s] = job[s] /\ job[s].version \in Publications \ {v}
        BY <1>5, <2>1, <3>1, JobKinds
      <3> QED BY <1>5, <2>1, <3>2 DEF Installation, Locking
    <2>2. ASSUME NEW u \in Publications, lock'[u] # "none"
          PROVE  job'[lock'[u]].pc \in Installing /\ job'[lock'[u]].version = u
      <3>1. u # v
        BY <1>6, <2>2
      <3>2. lock'[u] = lock[u] /\ lock[u] \in Runs \ {r} /\ job'[lock[u]] = job[lock[u]]
        BY <1>5, <2>2, <3>1
      <3> QED BY <2>2, <3>2 DEF Installation, Locking
    <2> QED BY <2>1, <2>2 DEF Locking
  <1>13. Staged'
    <2>1. \A s \in Runs \ {r} : job[s].pc \in Installing =>
             installed'[job[s].version] = installed[job[s].version]
      BY <1>5, <1>7, JobKinds
    <2> QED BY <1>2, <1>5, <1>6, <2>1 DEF Installation, Staged, Installing
  <1>14. ASSUME NEW u \in Publications
         PROVE  fetched'[u] = wasted'[u] + (IF Fetching(u)' THEN 1 ELSE 0)
                              + (IF installed'[u].exists THEN 1 ELSE 0)
    <2>1. fetched[u] = wasted[u] + (IF Fetching(u) THEN 1 ELSE 0)
                       + (IF installed[u].exists THEN 1 ELSE 0) /\ wasted[u] \in Nat
      BY DEF Installation, Counted, HarnessTypeOK
    <2>2. CASE u # v
      BY <1>3, <1>5, <1>7, <2>1, <2>2
    <2>3. CASE u = v
      <3>1. ~Fetching(u)' /\ Fetching(u)
        BY <1>1, <1>6, <2>3, HarnessConstants DEF Fetching, HarnessConstants
      <3>2. ~installed[u].exists /\ installed'[u].exists
        BY <1>4, <1>7, <2>3
      <3> QED BY <1>3, <2>1, <3>1, <3>2
    <2> QED BY <2>2, <2>3
  <1>15. Counted'
    BY <1>14 DEF Counted
  <1> HIDE DEF v
  <1> QED BY <1>8, <1>9, <1>10, <1>11, <1>12, <1>13, <1>15 DEF Installation

\* A bot that dies wastes the downloads that were being installed.
LEMMA BotDiesKeeps ==
    ASSUME HarnessTypeOK, Installation, BotDies
    PROVE  /\ Installation' /\ lock' \in [Publications -> Holders]
           /\ job' \in [Runs -> Simple \cup Named \cup Staging \cup Linking]
           /\ wasted' \in [Publications -> Nat]
  <1>1. /\ job' = [r \in Runs |-> AtRest] /\ lock' = [v \in Publications |-> "none"]
        /\ wasted' = [v \in Publications |-> wasted[v] + Cardinality(Downloaded(v))]
        /\ UNCHANGED installed /\ UNCHANGED fetched
    BY DEF BotDies
  <1>2. AtRest \in Simple /\ AtRest.pc = "idle"
    BY DEF AtRest, Simple
  <1>3. ASSUME NEW v \in Publications
        PROVE  Cardinality(Downloaded(v)) = IF Fetching(v) THEN 1 ELSE 0
    <2>1. CASE Fetching(v)
      <3>1. lock[v] \in Runs /\ Downloaded(v) = {lock[v]}
        BY <2>1 DEF Downloaded, Fetching, Installation, Locking, Installing, HarnessTypeOK, Holders
      <3> QED BY <2>1, <3>1, FS_Singleton
    <2>2. CASE ~Fetching(v)
      <3>1. Downloaded(v) = {}
        BY <2>2, HarnessConstants
        DEF Downloaded, Fetching, Installation, Locking, Installing, HarnessConstants
      <3> QED BY <2>2, <3>1, FS_EmptySet
    <2> QED BY <2>1, <2>2
  <1>4. \A v \in Publications :
           wasted'[v] = wasted[v] + (IF Fetching(v) THEN 1 ELSE 0) /\ wasted[v] \in Nat
    BY <1>1, <1>3 DEF HarnessTypeOK
  <1>5. wasted' \in [Publications -> Nat]
    BY <1>1, <1>4
  <1>6. job' \in [Runs -> Simple \cup Named \cup Staging \cup Linking]
        /\ lock' \in [Publications -> Holders]
    BY <1>1, <1>2 DEF Holders
  <1>7. InstallsWhole' /\ Staged'
    BY <1>1, <1>2 DEF Installation, InstallsWhole, Staged
  <1>8. Locking' /\ \A v \in Publications : ~Fetching(v)'
    BY <1>1, <1>2 DEF Locking, Fetching, Installing
  <1>9. Counted'
    BY <1>1, <1>4, <1>8 DEF Installation, Counted
  <1> QED BY <1>5, <1>6, <1>7, <1>8, <1>9 DEF Installation

\* A refresh, a restart of Town: the other refreshes, the file, the entries.
LEMMA RefreshKeeps ==
    ASSUME HarnessTypeOK, Current, RefreshStep
    PROVE  /\ Current' /\ UNCHANGED registry /\ entries' \in [memory : Publications, file : Publications]
           /\ refresh' \in [Refreshers -> [pc : {"idle", "get"}] \cup
                                          [pc : {"write", "publish"}, got : Publications]]
           /\ hfaults' \in 0..MaxHarnessFaults /\ shown' \in Publications
  <1> DEFINE Kinds == [pc : {"idle", "get"}] \cup [pc : {"write", "publish"}, got : Publications]
  <1>1. /\ entries.memory \in Publications /\ entries.file \in Publications
        /\ entries = [memory |-> entries.memory, file |-> entries.file]
        /\ registry \in Publications /\ Publications \subseteq Nat
        /\ refresh \in [Refreshers -> Kinds] /\ \A q \in Refreshers : refresh[q] \in Kinds
    BY PublicationsAreNats DEF HarnessTypeOK
  <1>2. \A q \in Refreshers : refresh[q].pc \in {"write", "publish"} => refresh[q].got \in Publications
    BY <1>1
  <1>3. AtRest \in Kinds /\ AtRest.pc = "idle" /\ \A x \in Kinds : x.pc # "idle" => x # AtRest
    BY DEF AtRest
  <1>4. HarnessFault \/ UNCHANGED hfaults => hfaults' \in 0..MaxHarnessFaults
    BY HarnessConstants DEF HarnessConstants, HarnessFault, HarnessTypeOK
  <1>5. ASSUME NEW q \in Refreshers, RefreshStarts(q)
        PROVE  Current' /\ UNCHANGED registry /\ entries' = entries /\ shown' = shown
               /\ refresh' \in [Refreshers -> Kinds] /\ UNCHANGED hfaults
    <2> DEFINE x == [pc |-> "get"]
    <2>1. x \in Kinds /\ x.pc = "get"
      OBVIOUS
    <2>2. refresh' = [refresh EXCEPT ![q] = x] /\ UNCHANGED <<registry, entries, shown, hfaults>>
          /\ \A p \in Refreshers : refresh[p] = AtRest
      BY <1>5 DEF RefreshStarts, MayRefresh
    <2> HIDE DEF x
    <2>3. refresh' \in [Refreshers -> Kinds] /\ refresh'[q] = x
          /\ \A p \in Refreshers \ {q} : refresh'[p] = AtRest
      BY <1>1, <2>1, <2>2
    <2> HIDE DEF Kinds
    <2> QED BY <1>3, <2>1, <2>2, <2>3 DEF Current
  <1>6. ASSUME NEW q \in Refreshers, RefreshGets(q)
        PROVE  Current' /\ UNCHANGED registry /\ entries' = entries /\ shown' = shown
               /\ refresh' \in [Refreshers -> Kinds] /\ UNCHANGED hfaults
    <2> DEFINE x == [pc |-> "write", got |-> registry]
    <2>1. x \in Kinds /\ x.pc = "write" /\ x.got = registry
      BY <1>1
    <2>2. refresh' = [refresh EXCEPT ![q] = x] /\ UNCHANGED <<registry, entries, shown, hfaults>>
          /\ refresh[q] # AtRest
      BY <1>3, <1>6 DEF RefreshGets
    <2> HIDE DEF x
    <2>3. refresh' \in [Refreshers -> Kinds] /\ refresh'[q] = x
          /\ \A p \in Refreshers \ {q} : refresh'[p] = refresh[p] /\ refresh[p] = AtRest
      BY <1>1, <2>1, <2>2 DEF Current
    <2> HIDE DEF Kinds
    <2> QED BY <1>1, <1>3, <2>1, <2>2, <2>3 DEF Current
  <1>7. ASSUME NEW q \in Refreshers, RefreshWrites(q)
        PROVE  Current' /\ UNCHANGED registry /\ shown' = shown
               /\ entries' \in [memory : Publications, file : Publications]
               /\ refresh' \in [Refreshers -> Kinds] /\ UNCHANGED hfaults
    <2> DEFINE g == refresh[q].got
               x == [pc |-> "publish", got |-> g]
    <2>1. g \in Publications /\ x \in Kinds /\ x.pc = "publish" /\ x.got = g
      BY <1>2, <1>7 DEF RefreshWrites
    <2>2. refresh' = [refresh EXCEPT ![q] = x] /\ UNCHANGED <<registry, shown, hfaults>>
          /\ entries' = [entries EXCEPT !.file = g] /\ refresh[q] # AtRest /\ refresh[q].pc = "write"
      BY <1>3, <1>7 DEF RefreshWrites
    <2>3. entries' = [memory |-> entries.memory, file |-> g]
      BY <1>1, <2>2
    <2>4. entries.file <= g /\ g <= registry /\ shown = entries.memory /\ entries.memory <= entries.file
      BY <2>2 DEF Current
    <2> HIDE DEF x
    <2>5. refresh' \in [Refreshers -> Kinds] /\ refresh'[q] = x
          /\ \A p \in Refreshers \ {q} : refresh'[p] = refresh[p] /\ refresh[p] = AtRest
      BY <1>1, <2>1, <2>2 DEF Current
    <2> HIDE DEF Kinds, g
    <2>6. entries'.memory = entries.memory /\ entries'.file = g
          /\ entries' \in [memory : Publications, file : Publications]
      BY <1>1, <2>1, <2>3
    <2> QED BY <1>1, <1>3, <2>1, <2>2, <2>4, <2>5, <2>6 DEF Current
  <1>8. ASSUME NEW q \in Refreshers, RefreshPublishes(q)
        PROVE  Current' /\ UNCHANGED registry /\ shown' \in Publications
               /\ entries' \in [memory : Publications, file : Publications]
               /\ refresh' \in [Refreshers -> Kinds] /\ UNCHANGED hfaults
    <2> DEFINE g == refresh[q].got
    <2>1. g \in Publications /\ entries.file = g /\ shown = entries.memory
          /\ entries.memory <= entries.file /\ g <= registry
      BY <1>2, <1>8 DEF RefreshPublishes, Current
    <2>2. refresh' = [refresh EXCEPT ![q] = AtRest] /\ UNCHANGED <<registry, hfaults>>
          /\ entries' = [entries EXCEPT !.memory = g] /\ shown' = (IF g > shown THEN g ELSE shown)
          /\ refresh[q] # AtRest
      BY <1>3, <1>8 DEF RefreshPublishes, Offers
    <2>3. entries' = [memory |-> g, file |-> entries.file]
      BY <1>1, <2>2
    <2>4. refresh' \in [Refreshers -> Kinds] /\ \A p \in Refreshers : refresh'[p] = AtRest
      BY <1>1, <1>3, <2>2 DEF Current
    <2> HIDE DEF Kinds, g
    <2>5. entries'.memory = g /\ entries'.file = g /\ shown' = g
          /\ entries' \in [memory : Publications, file : Publications]
      BY <1>1, <2>1, <2>2, <2>3
    <2> QED BY <1>1, <1>3, <2>1, <2>2, <2>4, <2>5 DEF Current
  <1>9. ASSUME NEW q \in Refreshers, RefreshFails(q)
        PROVE  Current' /\ UNCHANGED registry /\ entries' = entries /\ shown' = shown
               /\ refresh' \in [Refreshers -> Kinds] /\ HarnessFault
    <2>1. refresh' = [refresh EXCEPT ![q] = AtRest] /\ UNCHANGED <<registry, entries, shown>>
          /\ HarnessFault
      BY <1>9 DEF RefreshFails
    <2>2. refresh' \in [Refreshers -> Kinds]
          /\ \A p \in Refreshers : refresh'[p] = AtRest \/ refresh'[p] = refresh[p]
      BY <1>1, <1>3, <2>1
    <2> HIDE DEF Kinds
    <2> QED BY <1>3, <2>1, <2>2 DEF Current
  <1>10. ASSUME TownRestarts
         PROVE  Current' /\ UNCHANGED registry /\ shown' \in Publications
                /\ entries' \in [memory : Publications, file : Publications]
                /\ refresh' \in [Refreshers -> Kinds] /\ HarnessFault
    <2>1. refresh' = [q \in Refreshers |-> AtRest] /\ UNCHANGED registry /\ HarnessFault
          /\ entries' = [entries EXCEPT !.memory = entries.file]
          /\ shown' = (IF entries.file > shown THEN entries.file ELSE shown)
          /\ shown = entries.memory /\ entries.memory <= entries.file /\ entries.file <= registry
      BY <1>10 DEF TownRestarts, Offers, Current
    <2>2. entries' = [memory |-> entries.file, file |-> entries.file]
      BY <1>1, <2>1
    <2>3. refresh' \in [Refreshers -> Kinds] /\ \A q \in Refreshers : refresh'[q] = AtRest
      BY <1>3, <2>1
    <2> HIDE DEF Kinds
    <2>4. entries'.memory = entries.file /\ entries'.file = entries.file /\ shown' = entries.file
          /\ entries' \in [memory : Publications, file : Publications]
      BY <1>1, <2>1, <2>2
    <2> QED BY <1>1, <1>3, <2>1, <2>3, <2>4 DEF Current
  <1> HIDE DEF Kinds
  <1>11. entries \in [memory : Publications, file : Publications] /\ shown \in Publications
    BY DEF HarnessTypeOK
  <1>12. Current' /\ UNCHANGED registry /\ entries' \in [memory : Publications, file : Publications]
         /\ refresh' \in [Refreshers -> Kinds] /\ hfaults' \in 0..MaxHarnessFaults
         /\ shown' \in Publications
    BY <1>4, <1>5, <1>6, <1>7, <1>8, <1>9, <1>10, <1>11 DEF RefreshStep
  <1> QED BY <1>12 DEF Kinds

\* A launch that installs nothing, and Muse's derivations.
LEMMA OutsideStep ==
    ASSUME HarnessTypeOK, Installation, NEW r \in Runs,
           Dispatched(r) \/ StopsWaiting(r) \/ LaunchEnds(r) \/ MuseStep(r)
    PROVE  /\ Installation' /\ UNCHANGED installs
           /\ job' \in [Runs -> Simple \cup Named \cup Staging \cup Linking]
  <1> DEFINE Kinds == Simple \cup Named \cup Staging \cup Linking
  <1>1. SUFFICES UNCHANGED installs /\ job[r].pc \notin Installing
                 /\ \E to \in Kinds : /\ job' = [job EXCEPT ![r] = to]
                                      /\ to.pc \notin Installing /\ to.pc # "running"
    <2>1. PICK to \in Kinds : job' = [job EXCEPT ![r] = to]
                              /\ to.pc \notin Installing /\ to.pc # "running"
      BY <1>1
    <2> QED BY <1>1, <2>1, OutsideKeeps, JobGoes
  <1>2. AtRest \in Kinds /\ AtRest.pc = "idle"
    BY DEF AtRest, Simple
  <1>3. \A pc \in {"derive", "clear", "make", "own"} : [pc |-> pc] \in Kinds
    BY DEF Simple
  <1>4. CASE Dispatched(r)
    <2>1. job[r].pc \notin Installing /\ UNCHANGED installs
      BY <1>4 DEF Dispatched, AtRest, Installing
    <2>2. CASE Goes(r, [pc |-> "derive"])
      BY <1>3, <2>1, <2>2 DEF Goes, Installing
    <2>3. CASE \E v \in 0..entries.file : Goes(r, [pc |-> "lock", version |-> v])
      <3>1. PICK v \in 0..entries.file : Goes(r, [pc |-> "lock", version |-> v])
        BY <2>3
      <3>2. v \in Publications
        BY <3>1, HarnessConstants DEF HarnessConstants, HarnessTypeOK, Publications
      <3>3. [pc |-> "lock", version |-> v] \in Kinds
        BY <3>2 DEF Named
      <3> QED BY <2>1, <3>1, <3>3 DEF Goes, Installing
    <2> QED BY <1>4, <2>2, <2>3 DEF Dispatched
  <1>5. CASE StopsWaiting(r) \/ LaunchEnds(r)
    BY <1>2, <1>5 DEF StopsWaiting, LaunchEnds, Goes, Installing
  <1>6. CASE ReadsSettings(r) \/ Clears(r) \/ DeriveFails(r)
    BY <1>3, <1>6 DEF ReadsSettings, Clears, DeriveFails, Goes, Installing, installs
  <1>7. CASE Makes(r)
    <2>1. [pc |-> "link", todo |-> real.names, linked |-> {}] \in Kinds
      BY DEF HarnessTypeOK, Linking
    <2> QED BY <1>7, <2>1 DEF Makes, Goes, Installing
  <1>8. CASE Links(r) \/ WritesSettings(r)
    <2>1. job[r] \in Linking /\ job[r].pc = "link" /\ UNCHANGED installs
      BY <1>8, JobKinds DEF Links, WritesSettings
    <2>2. ASSUME NEW n \in job[r].todo
          PROVE  [job[r] EXCEPT !.todo = @ \ {n}, !.linked = @ \cup {n}] \in Kinds
                 /\ [job[r] EXCEPT !.todo = @ \ {n}, !.linked = @ \cup {n}].pc = "link"
      BY <2>1, <2>2 DEF Linking
    <2>3. [job[r] EXCEPT !.pc = "derived"] \in Kinds /\ [job[r] EXCEPT !.pc = "derived"].pc = "derived"
      BY <2>1 DEF Linking
    <2>4. CASE Links(r)
      <3>1. PICK n \in job[r].todo :
               \/ Goes(r, [job[r] EXCEPT !.todo = @ \ {n}, !.linked = @ \cup {n}])
               \/ Goes(r, [pc |-> "own"])
        BY <2>4 DEF Links
      <3> DEFINE to == [job[r] EXCEPT !.todo = @ \ {n}, !.linked = @ \cup {n}]
      <3>2. to \in Kinds /\ to.pc = "link"
        BY <2>2
      <3> HIDE DEF to
      <3>3. job' = [job EXCEPT ![r] = to] \/ job' = [job EXCEPT ![r] = [pc |-> "own"]]
        BY <3>1 DEF Goes, to
      <3> QED BY <1>3, <2>1, <3>2, <3>3 DEF Installing
    <2>5. CASE WritesSettings(r)
      <3> DEFINE to == [job[r] EXCEPT !.pc = "derived"]
      <3>1. job' = [job EXCEPT ![r] = to] \/ job' = [job EXCEPT ![r] = [pc |-> "own"]]
        BY <2>5 DEF WritesSettings, Goes
      <3> HIDE DEF to
      <3> QED BY <1>3, <2>1, <2>3, <3>1 DEF Installing, to
    <2> QED BY <1>8, <2>4, <2>5
  <1> HIDE DEF Kinds
  <1> QED BY <1>4, <1>5, <1>6, <1>7, <1>8 DEF MuseStep

\* A launch that waits for, holds or gives back the lock of a version.
LEMMA InsideStep ==
    ASSUME HarnessTypeOK, Installation, NEW r \in Runs,
           \/ TakesLock(r) \/ FindsInstalled(r) \/ FindsNothing(r) \/ Downloads(r) \/ Unpacks(r)
           \/ Marks(r) \/ Renames(r) \/ InstallFails(r)
    PROVE  /\ Installation' /\ job' \in [Runs -> Simple \cup Named \cup Staging \cup Linking]
           /\ installed' \in [Publications -> {NoDir} \cup Directories]
           /\ lock' \in [Publications -> Holders]
           /\ fetched' \in [Publications -> Nat] /\ wasted' \in [Publications -> Nat]
  <1> DEFINE v == job[r].version
             Types == /\ job' \in [Runs -> Simple \cup Named \cup Staging \cup Linking]
                      /\ installed' \in [Publications -> {NoDir} \cup Directories]
                      /\ lock' \in [Publications -> Holders]
                      /\ fetched' \in [Publications -> Nat] /\ wasted' \in [Publications -> Nat]
  <1>1. /\ installed \in [Publications -> {NoDir} \cup Directories]
        /\ lock \in [Publications -> Holders]
        /\ fetched \in [Publications -> Nat] /\ wasted \in [Publications -> Nat]
    BY DEF HarnessTypeOK
  <1>2. /\ job[r].pc \in {"lock", "check", "download"} => job[r] \in Named
        /\ job[r].pc \in {"unpack", "rename"} => job[r] \in Staging
        /\ job[r].pc \in {"lock", "check", "download", "unpack", "rename"} => v \in Publications
    BY JobKinds DEF Named, Staging
  <1>3. CASE TakesLock(r)
    <2>1. Installation' /\ lock' \in [Publications -> Holders]
      BY <1>3, TakesLockKeeps
    <2>2. [pc |-> "check", version |-> v] \in Named
      BY <1>2, <1>3 DEF TakesLock, Named
    <2>3. job' \in [Runs -> Simple \cup Named \cup Staging \cup Linking]
      BY <1>3, <2>2, JobGoes DEF TakesLock, Goes
    <2> QED BY <1>1, <1>3, <2>1, <2>3 DEF TakesLock
  <1>4. CASE FindsInstalled(r)
    BY <1>1, <1>4, FindsInstalledKeeps DEF FindsInstalled
  <1>5. CASE FindsNothing(r)
    <2> DEFINE to == [pc |-> "download", version |-> v]
    <2>1. job[r].pc = "check" /\ job' = [job EXCEPT ![r] = to] /\ UNCHANGED installs
      BY <1>5 DEF FindsNothing, Goes
    <2>2. to \in Named /\ to.pc = "download" /\ to.version = v
      BY <1>2, <2>1 DEF Named
    <2>3. ~installed[v].exists
      BY <1>2, <1>5, <2>1 DEF FindsNothing, HasMarker, Installation, InstallsWhole
    <2> HIDE DEF to
    <2>4. Installation'
      BY <2>1, <2>2, <2>3, WithinKeeps DEF Installing
    <2>5. job' \in [Runs -> Simple \cup Named \cup Staging \cup Linking]
      BY <2>1, <2>2, JobGoes
    <2> QED BY <1>1, <2>1, <2>4, <2>5 DEF installs
  <1>6. CASE Downloads(r)
    <2>1. Installation' /\ fetched' \in [Publications -> Nat]
      BY <1>6, DownloadsKeeps
    <2>2. [pc |-> "unpack", version |-> v, stage |-> {}] \in Staging
      BY <1>2, <1>6 DEF Downloads, Staging
    <2>3. job' \in [Runs -> Simple \cup Named \cup Staging \cup Linking]
      BY <1>6, <2>2, JobGoes DEF Downloads, Goes
    <2> QED BY <1>1, <1>6, <2>1, <2>3 DEF Downloads
  <1>7. CASE Unpacks(r)
    <2>1. PICK f \in Archive(v) \ job[r].stage :
             Goes(r, [pc |-> "unpack", version |-> v, stage |-> job[r].stage \cup {f}])
      BY <1>7 DEF Unpacks
    <2> DEFINE to == [pc |-> "unpack", version |-> v, stage |-> job[r].stage \cup {f}]
    <2>2. job[r].pc = "unpack" /\ job' = [job EXCEPT ![r] = to] /\ UNCHANGED installs
      BY <1>7, <2>1 DEF Unpacks, Goes
    <2>3. job[r].stage \subseteq Archive(v) /\ ~installed[v].exists /\ Archive(v) \subseteq Files
      BY <2>2 DEF Installation, Staged, Archive
    <2>4. to \in Staging /\ to.pc = "unpack" /\ to.version = v /\ to.stage \subseteq Archive(v)
      BY <1>2, <2>1, <2>2, <2>3 DEF Staging
    <2> HIDE DEF to
    <2>5. Installation'
      BY <2>2, <2>3, <2>4, WithinKeeps DEF Installing
    <2>6. job' \in [Runs -> Simple \cup Named \cup Staging \cup Linking]
      BY <2>2, <2>4, JobGoes
    <2> QED BY <1>1, <2>2, <2>5, <2>6 DEF installs
  <1>8. CASE Marks(r)
    <2>1. job[r].pc = "unpack" /\ job[r].stage = Archive(v) /\ ~installed[v].exists
          /\ Archive(v) \subseteq Files
      BY <1>8 DEF Marks, Unpacked, Installation, Staged, Archive
    <2>2. CASE Command \in job[r].stage
      <3> DEFINE to == [pc |-> "rename", version |-> v, stage |-> job[r].stage \cup {Marker}]
      <3>1. job' = [job EXCEPT ![r] = to] /\ UNCHANGED installs
        BY <1>8, <2>2 DEF Marks, Goes
      <3>2. to \in Staging /\ to.pc = "rename" /\ to.version = v
            /\ to.stage = Archive(v) \cup {Marker} /\ Command \in to.stage
        BY <1>2, <2>1, <2>2 DEF Staging
      <3> HIDE DEF to
      <3>3. Installation'
        BY <2>1, <3>1, <3>2, WithinKeeps DEF Installing
      <3>4. job' \in [Runs -> Simple \cup Named \cup Staging \cup Linking]
        BY <3>1, <3>2, JobGoes
      <3> QED BY <1>1, <3>1, <3>3, <3>4 DEF installs
    <2>3. CASE Command \notin job[r].stage
      <3>1. GivesUp(r) /\ job[r].pc \in Installing
        BY <1>8, <2>1, <2>3 DEF Marks, Installing
      <3>2. UNCHANGED installed /\ UNCHANGED fetched
        BY <3>1 DEF GivesUp
      <3> QED BY <1>1, <3>1, <3>2, GivesUpKeeps
    <2> QED BY <2>2, <2>3
  <1>9. CASE Renames(r)
    <2>1. job[r].pc = "rename" /\ ~installed[v].exists
      BY <1>9 DEF Renames, Installation, Staged
    <2>2. UNCHANGED fetched /\ UNCHANGED wasted
      BY <1>9, <2>1 DEF Renames
    <2> QED BY <1>1, <1>9, <2>1, <2>2, RenamesKeeps
  <1>10. CASE InstallFails(r)
    <2>1. GivesUp(r) /\ job[r].pc \in Installing
      BY <1>10 DEF InstallFails, Installing
    <2>2. UNCHANGED installed /\ UNCHANGED fetched
      BY <2>1 DEF GivesUp
    <2> QED BY <1>1, <2>1, <2>2, GivesUpKeeps
  <1> QED BY <1>3, <1>4, <1>5, <1>6, <1>7, <1>8, <1>9, <1>10

LEMMA HarnessInvInit == HarnessInit => HarnessInv
  <1> SUFFICES ASSUME HarnessInit PROVE HarnessInv
    OBVIOUS
  <1>1. 0 \in Publications /\ 0 \in 0..MaxLaunches /\ 0 \in 0..MaxHarnessFaults
    BY HarnessConstants, PublicationsAreNats DEF HarnessConstants
  <1>2. AtRest \in Simple /\ AtRest \in [pc : {"idle", "get"}] /\ AtRest.pc = "idle"
    BY DEF AtRest, Simple
  <1>3. HarnessTypeOK
    BY <1>1, <1>2 DEF HarnessInit, HarnessTypeOK, Holders
  <1>4. \A v \in Publications : ~installed[v].exists /\ lock[v] = "none" /\ ~Fetching(v)
    BY DEF HarnessInit, NoDir, Fetching
  <1>5. \A r \in Runs : job[r].pc = "idle"
    BY <1>2 DEF HarnessInit
  <1>6. InstallsWhole /\ Locking /\ Staged
    BY <1>4, <1>5 DEF InstallsWhole, Locking, Staged, Installing
  <1>7. Counted
    BY <1>4 DEF HarnessInit, Counted
  <1>8. Current
    BY <1>1, <1>2, PublicationsAreNats DEF HarnessInit, Current
  <1> QED BY <1>3, <1>6, <1>7, <1>8 DEF HarnessInv

\* Muse's side, and the bounds, under any step of a launch.
LEMMA MuseSideType ==
    ASSUME HarnessTypeOK, NEW r \in Runs, LaunchStep(r) \/ MuseStep(r)
    PROVE  /\ real' = real /\ launches' \in 0..MaxLaunches /\ hfaults' \in 0..MaxHarnessFaults
           /\ shadow' \in {NoDir} \cup [exists : {TRUE}, names : SUBSET Siblings, settings : BOOLEAN]
  <1> DEFINE Shadows == [exists : {TRUE}, names : SUBSET Siblings, settings : BOOLEAN]
  <1>1. shadow \in {NoDir} \cup Shadows /\ launches \in 0..MaxLaunches
        /\ hfaults \in 0..MaxHarnessFaults /\ MaxLaunches \in Nat /\ MaxHarnessFaults \in Nat
    BY HarnessConstants DEF HarnessTypeOK, HarnessConstants
  <1>2. HarnessFault \/ UNCHANGED hfaults => hfaults' \in 0..MaxHarnessFaults
    BY <1>1 DEF HarnessFault
  <1>3. CASE Dispatched(r)
    <2>1. launches < MaxLaunches /\ launches' = launches + 1 /\ UNCHANGED <<museSide, hfaults>>
      BY <1>3 DEF Dispatched
    <2> HIDE DEF Shadows
    <2>2. launches' \in 0..MaxLaunches
      BY <1>1, <2>1
    <2> QED BY <1>1, <2>1, <2>2 DEF museSide, Shadows
  <1>4. CASE TakesLock(r) \/ FindsInstalled(r) \/ FindsNothing(r) \/ Downloads(r) \/ Unpacks(r)
    BY <1>1, <1>2, <1>4 DEF TakesLock, FindsInstalled, FindsNothing, Downloads, Unpacks, museSide
  <1>5. CASE Marks(r) \/ Renames(r) \/ InstallFails(r)
    BY <1>1, <1>2, <1>5 DEF Marks, Renames, InstallFails, GivesUp, museSide
  <1>6. CASE StopsWaiting(r) \/ LaunchEnds(r) \/ ReadsSettings(r) \/ DeriveFails(r)
    BY <1>1, <1>2, <1>6 DEF StopsWaiting, LaunchEnds, ReadsSettings, DeriveFails, museSide
  <1>7. CASE Clears(r)
    BY <1>1, <1>2, <1>7 DEF Clears
  <1>8. CASE Makes(r)
    <2>1. [exists |-> TRUE, names |-> {}, settings |-> FALSE] \in Shadows
      OBVIOUS
    <2>2. shadow' = shadow \/ shadow' = [exists |-> TRUE, names |-> {}, settings |-> FALSE]
      BY <1>8 DEF Makes
    <2> QED BY <1>1, <1>2, <1>8, <2>1, <2>2 DEF Makes
  <1>9. CASE Links(r)
    <2>1. job[r].todo \subseteq Siblings
      BY <1>9, JobKinds DEF Links, Linking
    <2>2. \/ shadow' = shadow
          \/ shadow.exists /\ \E n \in job[r].todo : shadow' = [shadow EXCEPT !.names = @ \cup {n}]
      BY <1>9 DEF Links
    <2>3. CASE shadow' = shadow
      BY <1>1, <1>2, <1>9, <2>3 DEF Links
    <2>4. CASE shadow.exists /\ \E n \in job[r].todo : shadow' = [shadow EXCEPT !.names = @ \cup {n}]
      <3>1. PICK n \in job[r].todo : shadow' = [shadow EXCEPT !.names = shadow.names \cup {n}]
        BY <2>4
      <3>2. shadow \in Shadows /\ n \in Siblings
        <4>1. shadow.exists /\ ~NoDir.exists
          BY <2>4 DEF NoDir
        <4>2. shadow # NoDir
          BY <4>1
        <4> HIDE DEF Shadows
        <4> QED BY <1>1, <2>1, <4>2
      <3>3. shadow' \in Shadows
        BY <3>1, <3>2
      <3> QED BY <1>1, <1>2, <1>9, <3>3 DEF Links
    <2> QED BY <2>2, <2>3, <2>4
  <1>10. CASE WritesSettings(r)
    <2>1. \/ shadow' = shadow
          \/ shadow.exists /\ shadow' = [shadow EXCEPT !.settings = TRUE]
      BY <1>10 DEF WritesSettings
    <2>2. shadow' \in {NoDir} \cup Shadows
      BY <1>1, <2>1 DEF NoDir
    <2> QED BY <1>1, <1>2, <1>10, <2>2 DEF WritesSettings
  <1> QED BY <1>3, <1>4, <1>5, <1>6, <1>7, <1>8, <1>9, <1>10 DEF LaunchStep, MuseStep

LEMMA CurrentKept ==
    ASSUME Current, UNCHANGED <<entries, refresh, shown>>, registry <= registry',
           registry \in Nat, registry' \in Nat, HarnessTypeOK
    PROVE  Current'
  <1>1. \A q \in Refreshers : refresh[q].pc = "write" => refresh[q].got \in Nat
    BY PublicationsAreNats DEF HarnessTypeOK
  <1>2. entries.file \in Nat
    BY PublicationsAreNats DEF HarnessTypeOK
  <1> QED BY <1>1, <1>2 DEF Current

LEMMA InstallationKept ==
    ASSUME Installation, UNCHANGED <<installs, job>> PROVE Installation'
  BY DEF Installation, InstallsWhole, Startable, Locking, Staged, Counted, Fetching, installs

LEMMA HarnessInvStep ==
    ASSUME HarnessInv, [HarnessNext]_harness
    PROVE  HarnessInv'
  <1> USE DEF HarnessInv
  <1>0. HarnessTypeOK /\ Installation /\ Current
    BY DEF Installation
  <1>1. registry \in Nat /\ Publications \subseteq Nat
    BY PublicationsAreNats DEF HarnessTypeOK
  <1>2. HarnessFault => hfaults' \in 0..MaxHarnessFaults
    BY HarnessConstants DEF HarnessConstants, HarnessFault, HarnessTypeOK
  <1>3. CASE RegistryPublishes
    <2>1. registry' = registry + 1 /\ registry' \in Publications
          /\ UNCHANGED <<entries, refresh, shown, installs, job, museSide, launches, hfaults>>
      <3>1. /\ registry < MaxVersions /\ registry' = registry + 1
            /\ UNCHANGED <<entries, refresh, shown, installs, job, museSide, launches, hfaults>>
        BY <1>3 DEF RegistryPublishes
      <3>2. registry \in 0..MaxVersions /\ MaxVersions \in Nat
        BY HarnessConstants DEF HarnessConstants, HarnessTypeOK, Publications
      <3>3. registry + 1 \in 0..MaxVersions
        BY <3>1, <3>2
      <3> QED BY <3>1, <3>3 DEF Publications
    <2>2. Current'
      BY <1>0, <1>1, <2>1, CurrentKept
    <2>3. Installation'
      BY <1>0, <2>1, InstallationKept
    <2>4. HarnessTypeOK'
      BY <2>1 DEF HarnessTypeOK, installs, museSide
    <2> QED BY <2>2, <2>3, <2>4 DEF Installation
  <1>4. CASE CatalogStep
    <2>1. UNCHANGED <<installs, job, museSide, launches>> /\ RefreshStep
      BY <1>4 DEF CatalogStep
    <2>2. /\ Current' /\ UNCHANGED registry
          /\ entries' \in [memory : Publications, file : Publications]
          /\ refresh' \in [Refreshers -> [pc : {"idle", "get"}] \cup
                                         [pc : {"write", "publish"}, got : Publications]]
          /\ hfaults' \in 0..MaxHarnessFaults /\ shown' \in Publications
      BY <1>0, <2>1, RefreshKeeps
    <2>3. Installation'
      BY <1>0, <2>1, InstallationKept
    <2>4. HarnessTypeOK'
      BY <2>1, <2>2 DEF HarnessTypeOK, installs, museSide
    <2> QED BY <2>2, <2>3, <2>4 DEF Installation
  <1>5. CASE OperatorEdits
    <2>1. UNCHANGED <<townSide, installs, job, shadow, launches>> /\ HarnessFault
          /\ real' \in [profile : BOOLEAN, names : SUBSET Siblings]
      BY <1>5 DEF OperatorEdits
    <2>2. Current'
      BY <2>1 DEF Current, townSide
    <2>3. Installation'
      BY <1>0, <2>1, InstallationKept
    <2>4. HarnessTypeOK'
      BY <1>2, <2>1 DEF HarnessTypeOK, installs, townSide
    <2> QED BY <2>2, <2>3, <2>4 DEF Installation
  <1>6. ASSUME NEW r \in Runs, LaunchStep(r) \/ MuseStep(r), UNCHANGED townSide
        PROVE  HarnessInv'
    <2>1. Current'
      BY <1>6 DEF Current, townSide
    <2>2. /\ real' = real /\ launches' \in 0..MaxLaunches /\ hfaults' \in 0..MaxHarnessFaults
          /\ shadow' \in {NoDir} \cup [exists : {TRUE}, names : SUBSET Siblings, settings : BOOLEAN]
      BY <1>6, MuseSideType
    <2>3. CASE Dispatched(r) \/ StopsWaiting(r) \/ LaunchEnds(r) \/ MuseStep(r)
      <3>1. /\ Installation' /\ UNCHANGED installs
            /\ job' \in [Runs -> Simple \cup Named \cup Staging \cup Linking]
        BY <1>0, <2>3, OutsideStep
      <3>2. HarnessTypeOK'
        BY <1>6, <2>2, <3>1 DEF HarnessTypeOK, installs, townSide
      <3> QED BY <2>1, <3>1, <3>2 DEF Installation
    <2>4. CASE \/ TakesLock(r) \/ FindsInstalled(r) \/ FindsNothing(r) \/ Downloads(r) \/ Unpacks(r)
               \/ Marks(r) \/ Renames(r) \/ InstallFails(r)
      <3>1. /\ Installation' /\ job' \in [Runs -> Simple \cup Named \cup Staging \cup Linking]
            /\ installed' \in [Publications -> {NoDir} \cup Directories]
            /\ lock' \in [Publications -> Holders]
            /\ fetched' \in [Publications -> Nat] /\ wasted' \in [Publications -> Nat]
        BY <1>0, <2>4, InsideStep
      <3>2. HarnessTypeOK'
        BY <1>6, <2>2, <3>1 DEF HarnessTypeOK, townSide
      <3> QED BY <2>1, <3>1, <3>2 DEF Installation
    <2> QED BY <1>6, <2>3, <2>4 DEF LaunchStep
  <1>7. CASE BotDies /\ UNCHANGED townSide
    <2>1. /\ Installation' /\ lock' \in [Publications -> Holders]
          /\ job' \in [Runs -> Simple \cup Named \cup Staging \cup Linking]
          /\ wasted' \in [Publications -> Nat]
      BY <1>0, <1>7, BotDiesKeeps
    <2>2. UNCHANGED <<installed, fetched, museSide, launches>> /\ HarnessFault
      BY <1>7 DEF BotDies
    <2>3. Current'
      BY <1>7 DEF Current, townSide
    <2>4. HarnessTypeOK'
      BY <1>2, <1>7, <2>1, <2>2 DEF HarnessTypeOK, townSide, museSide
    <2> QED BY <2>1, <2>3, <2>4 DEF Installation
  <1>8. CASE UNCHANGED harness
    <2>1. UNCHANGED <<townSide, installs, job, museSide, launches, hfaults>>
      BY <1>8 DEF harness
    <2>2. Current'
      BY <2>1 DEF Current, townSide
    <2>3. Installation'
      BY <1>0, <2>1, InstallationKept
    <2>4. HarnessTypeOK'
      BY <2>1 DEF HarnessTypeOK, installs, townSide, museSide
    <2> QED BY <2>2, <2>3, <2>4 DEF Installation
  <1> QED BY <1>3, <1>4, <1>5, <1>6, <1>7, <1>8 DEF HarnessNext

\* A version is fetched again only after a download that was wasted, since one
\* that is being unpacked is of a version that is not installed.
LEMMA HarnessInvHolds == HarnessInv => HarnessHolds
  <1> SUFFICES ASSUME HarnessInv PROVE HarnessHolds
    OBVIOUS
  <1>1. ASSUME NEW v \in Publications PROVE fetched[v] <= 1 + wasted[v]
    <2>1. fetched[v] = wasted[v] + (IF Fetching(v) THEN 1 ELSE 0)
                       + (IF installed[v].exists THEN 1 ELSE 0) /\ wasted[v] \in Nat
      BY DEF HarnessInv, Counted, HarnessTypeOK
    <2>2. ~(Fetching(v) /\ installed[v].exists)
      BY DEF HarnessInv, Fetching, Locking, Staged, HarnessTypeOK, Holders
    <2> QED BY <2>1, <2>2
  <1>2. NeverTakenBack
    <2>1. entries.memory \in Nat /\ entries.file \in Nat
      BY PublicationsAreNats DEF HarnessInv, HarnessTypeOK
    <2> QED BY <2>1 DEF HarnessInv, Current, NeverTakenBack
  <1> QED BY <1>1, <1>2 DEF HarnessInv, HarnessHolds, DownloadedOnce

\* However many runs install and refreshes fetch at once, and wherever they fail
\* or the bot dies, an agent is started from a whole installation of its
\* version, a version is downloaded once unless a download was wasted, and the
\* catalogue never goes back (install, Refresh).
THEOREM HarnessesInstallWhole == HarnessSpec => []HarnessHolds
  <1>1. HarnessInv /\ [HarnessNext]_harness => HarnessInv'
    BY HarnessInvStep
  <1> QED BY HarnessInvInit, HarnessInvHolds, <1>1, PTL DEF HarnessSpec

-----------------------------------------------------------------------------
(***************************************************************************)
(* All of them.                                                            *)
(***************************************************************************)

\* A behaviour of MCTown is one of the inventory and of the cleanup, also while
\* they rest.
LEMMA TownIsTheirs == TownSpec => InvSpec /\ StorageSpec
<1>1. TownInit => InvInit /\ StorageInit
  BY DEF TownInit, InventoryRests
<1>2. [TownNext]_vars => [InvNext]_inventory /\ [StorageNext]_storage
  BY DEF TownNext, vars, OthersRest, Own
<1> QED
  BY <1>1, <1>2, PTL DEF TownSpec, InvSpec, StorageSpec

\* StepsHold for any constants: no step makes what Town has of an item older,
\* and no cleanup removes the transcript of a run that is not over.
THEOREM TownStepsHold ==
    ASSUME InventoryConstants
    PROVE  TownSpec => StepsHold
  BY TownIsTheirs, InventoryNeverOlder, CleanupsOnlyFinished, PTL
     DEF StepsHold, NeverOlder, FinishedOnly
=============================================================================
