------------------------------ MODULE Harness ------------------------------
(***************************************************************************)
(* Agent harnesses: Town's copy of the agent registry (catalog.go), the    *)
(* installation of a native agent under a bot's data root (install.go) and *)
(* the configuration directory derived for Muse (muse.go).                 *)
(*                                                                         *)
(* One bot serves the runs of several towns from one root, so launches     *)
(* overlap; a lock file for each identity serializes installations,        *)
(* nothing serializes derivations. A step ends where another run, another  *)
(* request or a dying process can come between.                            *)
(*                                                                         *)
(* Abstractions: the registry is the number of its publications, and one   *)
(* agent stands for all; an archive is its files, the command one of them; *)
(* the agents that npx, uvx or PATH starts have nothing to install, and    *)
(* Muse stands for them. What a failed cleanup or a crash leaves beside    *)
(* the installations has a fresh name and is left out, as is a power loss. *)
(***************************************************************************)
EXTENDS Integers, FiniteSets

CONSTANTS
    Runs,              \* runs of the bot that may overlap
    Refreshers,        \* requests that may refresh the catalogue at once
    Files,             \* what an archive holds
    Command,           \* the file of it that is started
    Unusable,          \* publications whose archive lacks the command
    Siblings,          \* what Muse's own configuration may hold beside its settings
    MaxVersions,       \* bound: publications of the registry after the bundled one
    MaxLaunches,       \* bound: launches
    MaxHarnessFaults   \* bound: failures, cancels, crashes and the operator's edits

Publications == 0..MaxVersions

ASSUME HarnessConstants ==
    /\ MaxVersions \in Nat /\ MaxLaunches \in Nat /\ MaxHarnessFaults \in Nat
    /\ IsFiniteSet(Runs) /\ IsFiniteSet(Files)
    /\ Command \in Files /\ Unusable \subseteq Publications
    /\ "none" \notin Runs /\ "marker" \notin Files

VARIABLES
    registry,   \* the newest publication
    entries,    \* Town: the entries in memory and the cache file
    refresh,    \* Town: refreshes in progress
    installed,  \* the bot's disk: the directory of each identity, if there is one
    lock,       \* the run that holds the lock file of each identity
    job,        \* the bot's launches and runs
    real,       \* Muse's own configuration: whether it names a profile, its siblings
    shadow,     \* the derived directory
    launches, hfaults,
    shown,      \* read by no action: the newest entries Town has offered
    fetched, wasted  \* read by no action: downloads, and those that installed nothing

townSide == <<registry, entries, refresh, shown>>
museSide == <<real, shadow>>
installs == <<installed, lock, fetched, wasted>>
harness  == <<townSide, installs, job, museSide, launches, hfaults>>

NoDir   == [exists |-> FALSE]
Marker  == "marker"
Archive(v) == IF v \in Unusable THEN Files \ {Command} ELSE Files
AtRest    == [pc |-> "idle"]
Holders == Runs \cup {"none"}

\* The places of a launch: those with nothing of their own, those that name a
\* version, an installation, and a derivation.
Simple  == [pc : {"idle", "derive", "clear", "make", "own"}]
Named   == [pc : {"lock", "check", "download", "running"}, version : Publications]
Staging == [pc : {"unpack", "rename"}, version : Publications, stage : SUBSET (Files \cup {Marker})]
Linking == [pc : {"link", "derived"}, todo : SUBSET Siblings, linked : SUBSET Siblings]
Directories == [exists : {TRUE}, files : SUBSET (Files \cup {Marker})]

HarnessTypeOK ==
    /\ registry \in Publications /\ entries \in [memory : Publications, file : Publications]
    /\ refresh \in [Refreshers -> [pc : {"idle", "get"}] \cup
                                  [pc : {"write", "publish"}, got : Publications]]
    /\ installed \in [Publications -> {NoDir} \cup Directories]
    /\ lock \in [Publications -> Holders]
    /\ job \in [Runs -> Simple \cup Named \cup Staging \cup Linking]
    /\ real \in [profile : BOOLEAN, names : SUBSET Siblings]
    /\ shadow \in {NoDir} \cup [exists : {TRUE}, names : SUBSET Siblings, settings : BOOLEAN]
    /\ launches \in 0..MaxLaunches /\ hfaults \in 0..MaxHarnessFaults
    /\ shown \in Publications /\ fetched \in [Publications -> Nat] /\ wasted \in [Publications -> Nat]

HarnessInit ==
    /\ registry = 0 /\ entries = [memory |-> 0, file |-> 0] /\ shown = 0
    /\ refresh = [q \in Refreshers |-> AtRest]
    /\ installed = [v \in Publications |-> NoDir] /\ lock = [v \in Publications |-> "none"]
    /\ fetched = [v \in Publications |-> 0] /\ wasted = [v \in Publications |-> 0]
    /\ job = [r \in Runs |-> AtRest]
    /\ real = [profile |-> TRUE, names |-> Siblings] /\ shadow = NoDir
    /\ launches = 0 /\ hfaults = 0

HarnessFault == hfaults < MaxHarnessFaults /\ hfaults' = hfaults + 1

-----------------------------------------------------------------------------
(***************************************************************************)
(* The catalogue.                                                          *)
(***************************************************************************)

RegistryPublishes ==
    /\ registry < MaxVersions /\ registry' = registry + 1
    /\ UNCHANGED <<entries, refresh, shown, installs, job, museSide, launches, hfaults>>

\* One refresh at a time: a channel of one place, held from before the request
\* to after the entries are published.
RefreshesAtOnce == TRUE
MayRefresh == \A q \in Refreshers : refresh[q] = AtRest
RefreshStarts(q) ==
    /\ refresh[q] = AtRest /\ MayRefresh
    /\ refresh' = [refresh EXCEPT ![q] = [pc |-> "get"]]
    /\ UNCHANGED <<registry, entries, shown, hfaults>>
RefreshGets(q) ==
    /\ refresh[q].pc = "get"
    /\ refresh' = [refresh EXCEPT ![q] = [pc |-> "write", got |-> registry]]
    /\ UNCHANGED <<registry, entries, shown, hfaults>>

\* The cache file first, replaced whole; then the entries that requests see.
RefreshWrites(q) ==
    /\ refresh[q].pc = "write"
    /\ entries' = [entries EXCEPT !.file = refresh[q].got]
    /\ refresh' = [refresh EXCEPT ![q] = [pc |-> "publish", got |-> refresh[q].got]]
    /\ UNCHANGED <<registry, shown, hfaults>>
Offers(v) == shown' = IF v > shown THEN v ELSE shown
RefreshPublishes(q) ==
    /\ refresh[q].pc = "publish"
    /\ entries' = [entries EXCEPT !.memory = refresh[q].got] /\ Offers(refresh[q].got)
    /\ refresh' = [refresh EXCEPT ![q] = AtRest]
    /\ UNCHANGED <<registry, hfaults>>

\* No answer, an answer that does not parse, or a file that cannot be written
\* keeps what there was.
RefreshFails(q) ==
    /\ refresh[q].pc \in {"get", "write"} /\ HarnessFault
    /\ refresh' = [refresh EXCEPT ![q] = AtRest]
    /\ UNCHANGED <<registry, entries, shown>>

\* New: a starting Town takes the cache file over the bundled entries.
TownRestarts ==
    /\ HarnessFault
    /\ entries' = [entries EXCEPT !.memory = entries.file] /\ Offers(entries.file)
    /\ refresh' = [q \in Refreshers |-> AtRest]
    /\ UNCHANGED registry

RefreshStep ==
    \/ \E q \in Refreshers :
          RefreshStarts(q) \/ RefreshGets(q) \/ RefreshWrites(q) \/ RefreshPublishes(q)
          \/ RefreshFails(q)
    \/ TownRestarts
CatalogStep == RefreshStep /\ UNCHANGED <<installs, job, museSide, launches>>

-----------------------------------------------------------------------------
(***************************************************************************)
(* Installing a native agent.                                              *)
(***************************************************************************)

Goes(r, to) == job' = [job EXCEPT ![r] = to]

\* A job names an entry Town has read: the one in the cache file, or one that
\* a selection pinned earlier. It starts Muse, or a native agent.
Dispatched(r) ==
    /\ job[r] = AtRest /\ launches < MaxLaunches /\ launches' = launches + 1
    /\ \/ \E v \in 0..entries.file : Goes(r, [pc |-> "lock", version |-> v])
       \/ Goes(r, [pc |-> "derive"])
    /\ UNCHANGED <<installs, museSide, hfaults>>

TakesLock(r) ==
    /\ job[r].pc = "lock" /\ lock[job[r].version] = "none"
    /\ lock' = [lock EXCEPT ![job[r].version] = r]
    /\ Goes(r, [pc |-> "check", version |-> job[r].version])
    /\ UNCHANGED <<installed, fetched, wasted, museSide, launches, hfaults>>

Frees(v) == lock' = [lock EXCEPT ![v] = "none"]
HasMarker(v) == installed[v].exists /\ Marker \in installed[v].files
Startable(v) == installed[v].exists /\ Command \in installed[v].files

\* Under the lock the marker says whether another run has installed it.
FindsInstalled(r) ==
    /\ job[r].pc = "check" /\ HasMarker(job[r].version) /\ Frees(job[r].version)
    /\ IF Startable(job[r].version)
       THEN Goes(r, [pc |-> "running", version |-> job[r].version]) ELSE Goes(r, AtRest)
    /\ UNCHANGED <<installed, fetched, wasted, museSide, launches, hfaults>>
FindsNothing(r) ==
    /\ job[r].pc = "check" /\ ~HasMarker(job[r].version)
    /\ Goes(r, [pc |-> "download", version |-> job[r].version])
    /\ UNCHANGED <<installs, museSide, launches, hfaults>>

Downloads(r) ==
    /\ job[r].pc = "download"
    /\ fetched' = [fetched EXCEPT ![job[r].version] = @ + 1]
    /\ Goes(r, [pc |-> "unpack", version |-> job[r].version, stage |-> {}])
    /\ UNCHANGED <<installed, lock, wasted, museSide, launches, hfaults>>

\* unpack writes the files of the archive into a directory of this launch.
Unpacks(r) ==
    /\ job[r].pc = "unpack"
    /\ \E f \in Archive(job[r].version) \ job[r].stage :
          Goes(r, [pc |-> "unpack", version |-> job[r].version, stage |-> job[r].stage \cup {f}])
    /\ UNCHANGED <<installs, museSide, launches, hfaults>>

\* Every way out but success removes the stage and the archive, then the lock.
GivesUp(r) ==
    LET v == job[r].version
    IN  /\ Frees(v) /\ Goes(r, AtRest)
        /\ wasted' = IF job[r].pc \in {"unpack", "rename"} THEN [wasted EXCEPT ![v] = @ + 1] ELSE wasted
        /\ UNCHANGED <<installed, fetched, museSide, launches>>

\* All is unpacked: the marker is the last file, if the command is there.
Unpacked(r) == job[r].pc = "unpack" /\ job[r].stage = Archive(job[r].version)
Marks(r) ==
    /\ Unpacked(r) /\ UNCHANGED hfaults
    /\ IF Command \in job[r].stage
       THEN /\ Goes(r, [pc |-> "rename", version |-> job[r].version,
                        stage |-> job[r].stage \cup {Marker}])
            /\ UNCHANGED <<installs, museSide, launches>>
       ELSE GivesUp(r)

\* The rename refuses a directory that is there already.
Renames(r) ==
    LET v == job[r].version
    IN  /\ job[r].pc = "rename" /\ UNCHANGED hfaults
        /\ IF installed[v].exists THEN GivesUp(r)
           ELSE /\ installed' = [installed EXCEPT ![v] = [exists |-> TRUE, files |-> job[r].stage]]
                /\ Frees(v) /\ Goes(r, [pc |-> "running", version |-> v])
                /\ UNCHANGED <<fetched, wasted, museSide, launches>>

\* The run is canceled or a call fails; a canceled run stops waiting for the lock.
InstallFails(r) ==
    /\ job[r].pc \in {"check", "download", "unpack", "rename"} /\ HarnessFault /\ GivesUp(r)
StopsWaiting(r) ==
    /\ job[r].pc = "lock" /\ HarnessFault /\ Goes(r, AtRest)
    /\ UNCHANGED <<installs, museSide, launches>>

-----------------------------------------------------------------------------
(***************************************************************************)
(* Deriving a configuration for Muse.                                      *)
(***************************************************************************)

\* A child keeps the operator's configuration when nothing needs deriving.
ReadsSettings(r) ==
    /\ job[r].pc = "derive"
    /\ Goes(r, [pc |-> IF real.profile THEN "clear" ELSE "own"])
    /\ UNCHANGED <<installs, museSide, launches, hfaults>>

\* museMirror starts over from nothing ...
Clears(r) ==
    /\ job[r].pc = "clear" /\ shadow' = NoDir /\ Goes(r, [pc |-> "make"])
    /\ UNCHANGED <<installs, real, launches, hfaults>>
Makes(r) ==
    /\ job[r].pc = "make"
    /\ shadow' = IF shadow.exists THEN shadow
                 ELSE [exists |-> TRUE, names |-> {}, settings |-> FALSE]
    /\ Goes(r, [pc |-> "link", todo |-> real.names, linked |-> {}])
    /\ UNCHANGED <<installs, real, launches, hfaults>>

\* ... links each sibling, which fails where another launch has been ...
Links(r) ==
    /\ job[r].pc = "link"
    /\ \E n \in job[r].todo :
          IF shadow.exists /\ n \notin shadow.names
          THEN /\ shadow' = [shadow EXCEPT !.names = @ \cup {n}]
               /\ Goes(r, [job[r] EXCEPT !.todo = @ \ {n}, !.linked = @ \cup {n}])
          ELSE Goes(r, [pc |-> "own"]) /\ UNCHANGED shadow
    /\ UNCHANGED <<installs, real, launches, hfaults>>

\* ... and writes the settings without their profile. Any failure on the way
\* leaves the child on the operator's own configuration.
WritesSettings(r) ==
    /\ job[r].pc = "link" /\ job[r].todo = {}
    /\ IF shadow.exists
       THEN /\ shadow' = [shadow EXCEPT !.settings = TRUE]
            /\ Goes(r, [job[r] EXCEPT !.pc = "derived"])
       ELSE Goes(r, [pc |-> "own"]) /\ UNCHANGED shadow
    /\ UNCHANGED <<installs, real, launches, hfaults>>
DeriveFails(r) ==
    /\ job[r].pc \in {"clear", "make", "link"} /\ HarnessFault /\ Goes(r, [pc |-> "own"])
    /\ UNCHANGED <<installs, museSide, launches>>

\* The operator edits Muse's configuration.
OperatorEdits ==
    /\ HarnessFault /\ real' \in [profile : BOOLEAN, names : SUBSET Siblings] /\ real' # real
    /\ UNCHANGED <<townSide, installs, job, shadow, launches>>

-----------------------------------------------------------------------------
LaunchEnds(r) ==
    /\ job[r].pc \in {"running", "own", "derived"} /\ Goes(r, AtRest)
    /\ UNCHANGED <<installs, museSide, launches, hfaults>>

\* The bot dies: its locks go with it, what it was installing is never used.
Downloaded(v) == {r \in Runs : job[r].pc \in {"unpack", "rename"} /\ job[r].version = v}
BotDies ==
    /\ HarnessFault
    /\ job' = [r \in Runs |-> AtRest] /\ lock' = [v \in Publications |-> "none"]
    /\ wasted' = [v \in Publications |-> wasted[v] + Cardinality(Downloaded(v))]
    /\ UNCHANGED <<installed, fetched, museSide, launches>>

LaunchStep(r) ==
    \/ Dispatched(r) \/ TakesLock(r) \/ FindsInstalled(r) \/ FindsNothing(r) \/ Downloads(r)
    \/ Unpacks(r) \/ Marks(r) \/ Renames(r) \/ InstallFails(r) \/ StopsWaiting(r) \/ LaunchEnds(r)
MuseStep(r) ==
    \/ ReadsSettings(r) \/ Clears(r) \/ Makes(r) \/ Links(r) \/ WritesSettings(r) \/ DeriveFails(r)

HarnessNext ==
    \/ RegistryPublishes \/ CatalogStep \/ OperatorEdits
    \/ \E r \in Runs : (LaunchStep(r) \/ MuseStep(r)) /\ UNCHANGED townSide
    \/ BotDies /\ UNCHANGED townSide

HarnessSpec == HarnessInit /\ [][HarnessNext]_harness

-----------------------------------------------------------------------------
(***************************************************************************)
(* Properties.                                                             *)
(***************************************************************************)

\* Whichever launches overlap, fail or die, an installation that is there is
\* whole, and a native agent runs from a whole installation of the version its
\* job names (launch: the stage, the marker and the rename under the lock).
InstallsWhole ==
    /\ \A v \in Publications : installed[v].exists => installed[v].files = Archive(v) \cup {Marker}
    /\ \A r \in Runs : job[r].pc = "running" => Startable(job[r].version)

\* A version is downloaded again only when an earlier download installed
\* nothing: of concurrent dispatches one downloads (the check after the lock).
DownloadedOnce == \A v \in Publications : fetched[v] <= 1 + wasted[v]

\* Entries that were offered are not taken back, by requests that overlap or by
\* a restart at any moment: the file is written first, by one at a time (Refresh).
NeverTakenBack == entries.memory >= shown /\ entries.file >= shown

HarnessHolds == HarnessTypeOK /\ InstallsWhole /\ DownloadedOnce /\ NeverTakenBack

\* What docs/harnesses.md says of Muse ("symlinks everything else back to your
\* real directory, so credentials and trust decisions stay shared and live"): a
\* child on the derived configuration finds what its launch linked, as long as
\* the operator keeps it. It does not hold: museMirror of another launch removes
\* the directory that both share.
MuseStaysShared ==
    \A r \in Runs : job[r].pc = "derived" =>
        shadow.exists /\ job[r].linked \cap real.names \subseteq shadow.names

=============================================================================
