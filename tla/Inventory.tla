----------------------------- MODULE Inventory -----------------------------
(***************************************************************************)
(* How Town keeps up with a repository: Repo Bot's full and incremental    *)
(* inventories (bots/repo-bot/github.go) and the cursor Town keeps between *)
(* them (incremental.go, reconcile.go).                                    *)
(*                                                                         *)
(* GitHub lists issues and pull requests page by page, the latest updated  *)
(* first, while people change them; its clock is not the bot's.  An item's *)
(* version counts its changes; version 0 does not exist yet.  Passes are   *)
(* serial: see the reconcile gate in Dispatch.  Left out: a change of      *)
(* branch, releases, commits, and items that are deleted or transferred.   *)
(***************************************************************************)
EXTENDS Integers, FiniteSets

CONSTANTS
    Issues, Pulls, \* what the repository may hold
    ListPage,      \* items of a page
    Overlap,       \* how far an incremental inventory reaches back
    Day,           \* the age at which a full inventory is due
    Skews,         \* GitHub's clock, less the bot's
    MaxTime,       \* bound: the clock
    MaxChanges,    \* bound: changes people make
    MaxInvFaults   \* bound: failed reads, crashes, answers that are lost

Things == Issues \cup Pulls

\* What the constants must be: an incremental inventory reaches back at least as
\* far as GitHub's clock may be behind.
InventoryConstants ==
    /\ IsFiniteSet(Things) /\ Issues \cap Pulls = {}
    /\ ListPage \in Nat \ {0} /\ Overlap \in Nat /\ Day \in Nat
    /\ Skews \subseteq Int /\ \A s \in Skews : s + Overlap >= 0
    /\ MaxTime \in Nat \ {0} /\ MaxChanges \in Nat /\ MaxInvFaults \in Nat

VARIABLES
    gh,      \* GitHub: each item's version, time stamp, state and latest change
    time, skew,
    seen,    \* state.json: the version Town has of each item
    synced,  \* state.json: LastSync and LastFullSync, 0 before the first
    scan,    \* the inventory in progress
    changes, invfaults

inventory == <<gh, time, skew, seen, synced, scan, changes, invfaults>>

NoVersions == [t \in Things |-> 0]
NoScan == [pc |-> "idle", full |-> FALSE, since |-> 0, started |-> 0, page |-> 1,
           got |-> NoVersions]
Lists == {"changed", "open", "pulls"}

InvInit ==
    /\ gh = [t \in Things |-> [ver |-> 0, at |-> 0, open |-> FALSE, turn |-> 0]]
    /\ time = 1 /\ skew \in Skews
    /\ seen = NoVersions /\ synced = [last |-> 0, full |-> 0] /\ scan = NoScan
    /\ changes = 0 /\ invfaults = 0

InvFault == invfaults < MaxInvFaults /\ invfaults' = invfaults + 1
Github == UNCHANGED <<gh, time, skew, changes>>
KeepsRecord == UNCHANGED <<seen, synced>>

----------------------------------------------------------------------------
\* GitHub.

TimePasses ==
    /\ time < MaxTime /\ time' = time + 1
    /\ UNCHANGED <<gh, skew, seen, synced, scan, changes, invfaults>>

\* Somebody opens, edits, closes or reopens an item: it is the latest updated.
Change ==
    /\ changes < MaxChanges /\ changes' = changes + 1
    /\ \E t \in Things, open \in BOOLEAN :
          /\ gh[t].ver = 0 => open
          /\ gh' = [gh EXCEPT ![t] = [ver |-> @.ver + 1, at |-> time + skew, open |-> open,
                                      turn |-> changes + 1]]
    /\ UNCHANGED <<time, skew, seen, synced, scan, invfaults>>

\* A bug: the clocks are taken to agree.
NoOverlap(t) == gh[t].at >= scan.since

\* The lists of the three reads: issues changed since the cursor, issues that
\* are open (both with the pull requests among them), and pull requests.
Since(t) == gh[t].at >= scan.since - Overlap
Listed(list, t) ==
    /\ list = "changed" => scan.full \/ Since(t)
    /\ list = "open"    => gh[t].open
    /\ list = "pulls"   => t \in Pulls /\ (scan.full \/ gh[t].open)
Listing(list) == {t \in Things : gh[t].ver > 0 /\ Listed(list, t)}
Before(list, t) == Cardinality({u \in Listing(list) : gh[u].turn > gh[t].turn})
Page(list) ==
    {t \in Listing(list) :
        /\ (scan.page - 1) * ListPage <= Before(list, t)
        /\ Before(list, t) < scan.page * ListPage}
LastPage(list) == Cardinality(Listing(list)) < scan.page * ListPage

----------------------------------------------------------------------------
\* The inventory.

\* inventoryCursor and snapshotSince: a full inventory is due every day, and
\* whenever there is no baseline.
Due == synced.last = 0 \/ time - synced.full >= Day \/ synced.last >= time

BeginScan ==
    /\ scan.pc = "idle"
    /\ scan' = [NoScan EXCEPT !.pc = "changed", !.full = Due, !.started = time,
                              !.since = synced.last]
    /\ Github /\ KeepsRecord /\ UNCHANGED invfaults

\* A pull request's own version comes from the list of pull requests or from
\* its details; the lists of issues only name it.
Reads(list) == IF list = "pulls" THEN Page(list) ELSE Page(list) \cap Issues
Names(list) == IF list = "pulls" \/ scan.full THEN {} ELSE Page(list) \cap Pulls
AfterList(list) ==
    IF list = "changed" THEN IF scan.full THEN "pulls" ELSE "open"
    ELSE IF list = "open" THEN "pulls" ELSE "detail"

\* got: the version read, and -1 for a pull request whose details are wanted.
SeenInList(got, list) ==
    [t \in Things |-> IF t \in Reads(list) THEN gh[t].ver
                      ELSE IF t \in Names(list) /\ got[t] = 0 THEN -1 ELSE got[t]]

ReadPage ==
    /\ scan.pc \in Lists
    /\ LET last == LastPage(scan.pc) IN
       scan' = [scan EXCEPT !.got = SeenInList(@, scan.pc),
                            !.page = IF last THEN 1 ELSE @ + 1,
                            !.pc = IF last THEN AfterList(scan.pc) ELSE @]
    /\ Github /\ KeepsRecord /\ UNCHANGED invfaults

\* A changed pull request that is not open any more; when it cannot be read the
\* whole inventory starts over, as a full one.
ReadDetail ==
    /\ scan.pc = "detail"
    /\ \E p \in {p \in Pulls : scan.got[p] = -1} :
          \/ scan' = [scan EXCEPT !.got[p] = gh[p].ver] /\ UNCHANGED invfaults
          \/ /\ InvFault
             /\ scan' = [NoScan EXCEPT !.pc = "changed", !.full = TRUE, !.started = time]
    /\ Github /\ KeepsRecord

\* A read fails, the bot or Town dies, the answer is lost: no cursor moves.
Fails ==
    /\ scan.pc # "idle" /\ InvFault /\ scan' = NoScan
    /\ Github /\ KeepsRecord

Complete == scan.pc = "detail" /\ \A p \in Pulls : scan.got[p] # -1
\* A bug: what an inventory does not list is gone.
ObservedWhole == [t \in Things |-> IF scan.got[t] > 0 THEN scan.got[t] ELSE 0]
ObservedVersions == [t \in Things |-> IF scan.got[t] > 0 THEN scan.got[t] ELSE seen[t]]

\* A bug: the next inventory starts from when this one was committed.
CommitAtEnd ==
    /\ Complete /\ seen' = ObservedVersions
    /\ synced' = [last |-> time, full |-> IF scan.full THEN time ELSE synced.full]
    /\ scan' = NoScan /\ Github /\ UNCHANGED invfaults

\* Reconcile: the next inventory starts from where this one started to read.
Commit ==
    /\ Complete /\ seen' = ObservedVersions
    /\ synced' = [last |-> scan.started,
                  full |-> IF scan.full THEN scan.started ELSE synced.full]
    /\ scan' = NoScan /\ Github /\ UNCHANGED invfaults

InvNext ==
    \/ TimePasses \/ Change \/ BeginScan \/ ReadPage \/ ReadDetail \/ Fails \/ Commit

InvSpec == InvInit /\ [][InvNext]_inventory

----------------------------------------------------------------------------
\* Properties.

InvTypeOK ==
    /\ \A t \in Things : gh[t].ver \in 0..MaxChanges /\ gh[t].open \in BOOLEAN
    /\ time \in 1..MaxTime /\ skew \in Skews
    /\ seen \in [Things -> 0..MaxChanges]
    /\ synced.last \in 0..MaxTime /\ synced.full \in 0..synced.last
    /\ scan.pc \in Lists \cup {"idle", "detail"}
    /\ scan.got \in [Things -> -1..MaxChanges]
    /\ changes \in 0..MaxChanges /\ invfaults \in 0..MaxInvFaults

(* No change is ever lost: one that Town has not seen is newer than what the *)
(* next inventory will reach back to, whatever people change while an        *)
(* inventory is read, and whichever inventories fail.                        *)
UnseenIsAhead ==
    \A t \in Things :
        synced.last > 0 /\ seen[t] # gh[t].ver => gh[t].at >= synced.last - Overlap

(* What Town has of an item never gets older, although an inventory reads    *)
(* the same item from lists that it reads at different times.                *)
Newer == \A t \in Things : seen'[t] >= seen[t]
NeverOlder == [][Newer]_inventory

(* A full inventory omits nothing that was there when it began: what it does *)
(* not list, Town takes for deleted (reconcile.go: "The inventory lists      *)
(* every issue").                                                            *)
FullIsWhole ==
    Complete /\ scan.full =>
        \A t \in Things : seen[t] > 0 => scan.got[t] > 0
=============================================================================
