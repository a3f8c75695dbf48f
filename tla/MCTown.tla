------------------------------- MODULE MCTown -------------------------------
(***************************************************************************)
(* The parts of Town's service that keep a state of their own, for TLC: a  *)
(* behaviour belongs to one part while the others rest, so that one run    *)
(* checks them all. README.md says why the bounds are enough.              *)
(***************************************************************************)
EXTENDS Attention, Budget, QuietHours, Storage, Inventory, Harness

VARIABLE part

\* Values of constants that a configuration cannot write.
QuietOffsets == {-2, 0, 2}
NearShifts   == {-1, 0, 1}

\* To keep storage small, a transcript of Town's own is there alone, a bot's
\* transcript and a worktree also together.
OwnAlone ==
    LET there == {a \in Artifacts : stored[a] # Never} IN
    there \cap OwnFiles = {} \/ Cardinality(there) = 1

ASSUME InventoryConstants

vars == <<part, attnVars, budgetVars, quietVars, storage, inventory, harness>>

AttentionRests == AttentionInit /\ snoozed = {}
InventoryRests == InvInit /\ skew = 0
QuietRests     == QuietInit /\ windows = {} /\ zone = CHOOSE z \in Zones : z.shift = 0

TownInit ==
    /\ part \in {"attention", "budget", "storage", "inventory", "quiet", "harness"}
    /\ IF part = "attention" THEN AttentionInit ELSE AttentionRests
    /\ IF part = "inventory" THEN InvInit ELSE InventoryRests
    /\ IF part = "quiet" THEN QuietInit ELSE QuietRests
    /\ BudgetInit /\ StorageInit /\ HarnessInit

\* The variables of a part rest unless it is the one that runs.
Own(p, own) == IF part = p THEN TRUE ELSE UNCHANGED own
OthersRest ==
    /\ UNCHANGED part
    /\ Own("attention", attnVars) /\ Own("budget", budgetVars)
    /\ Own("storage", storage) /\ Own("inventory", inventory)
    /\ Own("quiet", quietVars) /\ Own("harness", harness)

TownNext ==
    \/ part = "attention" /\ AttentionNext /\ OthersRest
    \/ part = "budget"    /\ BudgetNext    /\ OthersRest
    \/ part = "storage"   /\ StorageNext   /\ OthersRest
    \/ part = "inventory" /\ InvNext       /\ OthersRest
    \/ part = "quiet"     /\ QuietNext     /\ OthersRest
    \/ part = "harness"   /\ HarnessNext   /\ OthersRest

TownSpec == TownInit /\ [][TownNext]_vars

-----------------------------------------------------------------------------
\* No step makes what Town has of an item older, and no cleanup removes a
\* transcript of a run in progress or of a task that is not over.
StepsHold == NeverOlder /\ FinishedOnly
=============================================================================
