------------------------------- MODULE Budget -------------------------------
(***************************************************************************)
(* Admission of agent work: the worker limit, quiet hours and a budget that  *)
(* is charged only when an attempt ends (budget.go, dispatchEligibility,     *)
(* claimRepair and the final commit of execute). A branch repair turns an    *)
(* inventory into agent work halfway and gives its slot back before the      *)
(* final commit charges it.                                                 *)
(*                                                                          *)
(* Abstractions: one town; a period is a number; an attempt ran for nothing, *)
(* for a unit of time or for a time nobody measured; reported usage and cost *)
(* are summed and never decide anything.                                    *)
(***************************************************************************)
EXTENDS Integers, FiniteSets

CONSTANTS
    Houses,        \* the houses whose runs occupy a slot
    MaxAttempts,   \* the budget: attempts in a period
    MaxMinutes,    \* the budget: units of time in a period; 0: no ceiling
    MaxLimit,      \* the largest worker limit
    MaxPeriod,     \* bound: periods
    MaxStarts      \* bound: runs of every kind

VARIABLES
    period,     \* the accounting period the clock is in
    quiet,      \* quiet hours hold now
    limit,      \* the worker limit
    ledger,     \* state.json: the town's BudgetLedger
    phase,      \* the runs of the houses and of the repo house
    starts,
    agents      \* read by no action: agents started in this period, less the
                \* ones a crash took before they were charged

budgetVars == <<period, quiet, limit, ledger, phase, starts, agents>>

Phases == {"idle", "running", "inventory", "repairing", "repaired"}
Repo == "repo"
Workers == Houses \cup {Repo}

ASSUME BudgetConstants ==
    /\ IsFiniteSet(Houses) /\ Repo \notin Houses
    /\ MaxAttempts \in Nat /\ MaxMinutes \in Nat /\ MaxLimit \in Nat \ {0}
    /\ MaxPeriod \in Nat /\ MaxStarts \in Nat

BudgetTypeOK ==
    /\ period \in 0..MaxPeriod /\ quiet \in BOOLEAN /\ limit \in 1..MaxLimit
    /\ ledger \in [from : 0..MaxPeriod, attempts : 0..MaxStarts, spent : 0..MaxStarts]
    /\ phase \in [Workers -> [at : Phases, from : 0..MaxPeriod]]
    /\ \A h \in Houses : phase[h].at \in {"idle", "running"}
    /\ phase[Repo].at # "running" /\ starts \in 0..MaxStarts

Off == [at |-> "idle", from |-> 0]
BudgetInit ==
    /\ period = 0 /\ quiet = FALSE /\ limit = MaxLimit
    /\ ledger = [from |-> 0, attempts |-> 0, spent |-> 0]
    /\ phase = [w \in Workers |-> Off] /\ starts = 0 /\ agents = 0

\* BudgetState: a ledger of an earlier period reads as an empty one.
Attempts == IF ledger.from = period THEN ledger.attempts ELSE 0
Spent    == IF ledger.from = period THEN ledger.spent ELSE 0
Exhausted == Attempts >= MaxAttempts \/ (MaxMinutes > 0 /\ Spent >= MaxMinutes)

\* activeWorkers: the repo house counts while it repairs.
ActiveWorkers == Cardinality({w \in Workers : phase[w].at \in {"running", "repairing"}})

BeginsRun == starts < MaxStarts /\ starts' = starts + 1
Enters(w, at) == phase' = [phase EXCEPT ![w] = [at |-> at, from |-> period]]

\* schedule and dispatch, under one lock.
Eligible == ~Exhausted /\ ~quiet
Dispatch(h) ==
    /\ h \in Houses /\ phase[h].at = "idle" /\ Eligible /\ ActiveWorkers < limit
    /\ BeginsRun /\ Enters(h, "running") /\ agents' = agents + 1
    /\ UNCHANGED <<period, quiet, limit, ledger>>
InventoryStarts ==
    /\ phase[Repo].at = "idle" /\ BeginsRun /\ Enters(Repo, "inventory")
    /\ UNCHANGED <<period, quiet, limit, ledger, agents>>

\* claimRepair: the inventory's only agent answers to the limit, the budget and
\* quiet hours; releaseRepair gives the slot back before the final commit.
ClaimRepair ==
    /\ phase[Repo].at = "inventory" /\ ActiveWorkers < limit /\ Eligible
    /\ Enters(Repo, "repairing") /\ agents' = agents + 1
    /\ UNCHANGED <<period, quiet, limit, ledger, starts>>
ReleaseRepair ==
    /\ phase[Repo].at = "repairing"
    /\ phase' = [phase EXCEPT ![Repo].at = "repaired"]
    /\ UNCHANGED <<period, quiet, limit, ledger, starts, agents>>

\* chargeBudget: what held a slot is charged to the period it ends in.
OnlyHouses(w) == w \in Houses
HeldASlot(w)  == w \in Houses \/ phase[w].at = "repaired"
RollBudget == IF ledger.from = period THEN ledger
              ELSE [from |-> period, attempts |-> 0, spent |-> 0]
Charged(time) ==
    [RollBudget EXCEPT !.attempts = @ + 1, !.spent = @ + time]
Finish(w) ==
    /\ phase[w].at \in {"running", "inventory", "repaired"}
    /\ \E time \in {0, 1} :
          ledger' = IF HeldASlot(w) THEN Charged(time) ELSE ledger
    /\ phase' = [phase EXCEPT ![w] = Off]
    /\ UNCHANGED <<period, quiet, limit, starts, agents>>

NextPeriod ==
    /\ period < MaxPeriod /\ period' = period + 1 /\ agents' = 0
    /\ UNCHANGED <<quiet, limit, ledger, phase, starts>>
QuietChanges ==
    quiet' = ~quiet /\ UNCHANGED <<period, limit, ledger, phase, starts, agents>>
SetCapacity ==
    /\ limit' \in 1..MaxLimit
    /\ UNCHANGED <<period, quiet, ledger, phase, starts, agents>>

\* An interrupted attempt is never charged: its run record becomes a hold.
Crash ==
    /\ phase # [w \in Workers |-> Off] /\ phase' = [w \in Workers |-> Off]
    /\ agents' = agents - Cardinality({w \in Workers :
          phase[w].at \in {"running", "repairing", "repaired"} /\ phase[w].from = period})
    /\ UNCHANGED <<period, quiet, limit, ledger, starts>>

BudgetNext ==
    \/ \E w \in Workers : Dispatch(w) \/ Finish(w)
    \/ InventoryStarts \/ ClaimRepair \/ ReleaseRepair
    \/ NextPeriod \/ QuietChanges \/ SetCapacity \/ Crash

BudgetSpec == BudgetInit /\ [][BudgetNext]_budgetVars

-----------------------------------------------------------------------------
(***************************************************************************)
(* Properties.                                                              *)
(***************************************************************************)

\* Although an attempt is charged only when it ends, a period never sees more
\* agents than its budget and one for every slot, repairs included: what was
\* admitted just before the ceiling (chargeBudget, claimRepair).
OvershootBounded == agents <= MaxAttempts + MaxLimit

=============================================================================
