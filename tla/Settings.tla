------------------------------ MODULE Settings ------------------------------
(***************************************************************************)
(* What an agent is started with: the town's agent profile and the         *)
(* profiles of single bots, where their work is placed, the pinned         *)
(* runtimes, and how a dispatch captures all of it (settings.go,           *)
(* execution.go, model.go, supervisor.go's execute and add, workers.go's   *)
(* Run).                                                                   *)
(*                                                                         *)
(* People edit settings while bots run, the registry is refreshed, towns   *)
(* are deleted and restored, and the service restarts with or without a    *)
(* config file. A step is a commit of the store or a read outside of it.   *)
(*                                                                         *)
(* Abstractions: a version is the publication of the registry it is from;  *)
(* a model stands for effort and mode and is named after the harness or    *)
(* the Mjolnir profile that offers it; a target and its profile are one    *)
(* value, and what Mjolnir offers of them may be anything. The duties that *)
(* can be placed on Mjolnir are a set of houses. The edits of policies,    *)
(* budgets and quiet hours in the same commit, and which houses are        *)
(* enabled, are left out, and so is a worker's recovery, which Dispatch    *)
(* models. Town's own catalogue and its cache file are one here; Harness   *)
(* says how they differ.                                                   *)
(***************************************************************************)
EXTENDS Integers, FiniteSets

CONSTANTS
    Houses,         \* bots with an agent
    Remote,         \* houses whose duty Mjolnir supports
    Registered,     \* harnesses of the registry
    Dropped,        \* harnesses that its later publications no longer have
    Profiles,       \* targets and profiles of Mjolnir
    MaxPublished,   \* bound: publications after the bundled one
    MaxRuntimes,    \* bound: runtimes that Mjolnir shows of a target
    MaxChoices,     \* bound: what the operator changes
    MaxDispatches,  \* bound: runs
    MaxRestarts     \* bound: restarts of the service

Unpinned == -1
Harnesses == Registered \cup {"custom"}
Places    == Profiles \cup {"local"}
Versions  == 0..MaxPublished
Runtimes  == 1..MaxRuntimes

ASSUME SettingsConstants ==
    /\ IsFiniteSet(Houses) /\ Remote \subseteq Houses /\ "town" \notin Houses
    /\ Dropped \subseteq Registered /\ Registered # {} /\ "custom" \notin Registered
    /\ Profiles \cap (Harnesses \cup {"local", "inherit", "default"}) = {}
    /\ "default" \notin Harnesses
    /\ MaxPublished \in Nat /\ MaxRuntimes \in Nat /\ MaxChoices \in Nat
    /\ MaxDispatches \in Nat /\ MaxRestarts \in Nat

VARIABLES
    catalog,    \* the publication that the catalogue holds
    town,       \* state.json: whether the town is deleted, and its life
    config,     \* state.json: the town's Config
    worker,     \* state.json: each house's captured profile, placement and phase
    run,        \* runs in progress
    discovered, \* a runtime that was read and is not pinned yet
    choices, dispatches, restarts,
    chosen,     \* read by no action: what the operator last chose
    used        \* read by no action: the versions each house ran since then

limits   == <<choices, dispatches, restarts>>
settings == <<catalog, town, config, worker, run, discovered, limits, chosen, used>>

Models    == Harnesses \cup Profiles \cup {"default"}
AgentProfiles == [harness : Harnesses, def : Versions \cup {Unpinned}, model : Models]
Inherits  == [harness |-> "inherit"]
Owners    == Houses \cup {"town"}
Configs   == [own : [Owners -> AgentProfiles \cup {Inherits}],
              place : [Owners -> Places \cup {"inherit"}],
              pins : [Profiles -> Runtimes \cup {Unpinned}]]
NoRun      == [pc |-> "idle"]
Nothing   == [read |-> FALSE]
Resting   == [phase |-> "", live |-> FALSE]

\* The profile and the placement of a house: its own, or the town's.
ProfileOf(c, h) == IF c.own[h] = Inherits THEN c.own["town"] ELSE c.own[h]
PlaceOf(c, h)   == IF c.place[h] = "inherit" THEN c.place["town"] ELSE c.place[h]
Managed(place)  == place # "local"

SettingsTypeOK ==
    /\ catalog \in Versions
    /\ town \in [deleted : BOOLEAN, life : 0..MaxChoices + MaxRestarts]
    /\ config \in Configs /\ config.own["town"] # Inherits /\ config.place["town"] # "inherit"
    /\ worker \in [Houses -> [phase : {"", "execution"}, live : {FALSE}] \cup
          [phase : {"", "execution"}, live : {TRUE}, agent : AgentProfiles, place : Places]]
    /\ \A h \in Houses : run[h] = NoRun \/
          /\ run[h].pc \in {"dispatched", "running"} /\ run[h].life \in 0..town.life
          /\ run[h].agent \in AgentProfiles /\ run[h].place \in Places
          /\ run[h].pin \in Runtimes \cup {Unpinned}
          /\ run[h].pc = "running" => run[h].with \in Versions \cup Runtimes \cup {Unpinned}
    /\ \/ discovered = Nothing
       \/ discovered.owner \in Owners /\ discovered.place \in Profiles /\ discovered.runtime \in Runtimes
    /\ choices \in 0..MaxChoices /\ dispatches \in 0..MaxDispatches /\ restarts \in 0..MaxRestarts

\* Configurations that a file may give a town: a profile without a definition.
Plain(h) == [harness |-> h, def |-> Unpinned, model |-> "default"]
FileConfigs ==
    {[own |-> [o \in Owners |-> IF o = "town" THEN Plain(h) ELSE Inherits],
      place |-> [o \in Owners |-> IF o = "town" THEN p ELSE "inherit"],
      pins |-> [x \in Profiles |-> Unpinned]] : h \in Registered, p \in Places}

SettingsInit ==
    /\ catalog = 0
    /\ town = [deleted |-> FALSE, life |-> 0] /\ config \in FileConfigs
    /\ worker = [h \in Houses |-> Resting] /\ run = [h \in Houses |-> NoRun]
    /\ discovered = Nothing /\ choices = 0 /\ dispatches = 0 /\ restarts = 0
    /\ chosen = config.own /\ used = [h \in Houses |-> {}]

RegistryRefreshes ==
    /\ catalog < MaxPublished /\ catalog' = catalog + 1
    /\ UNCHANGED <<town, config, worker, run, discovered, limits, chosen, used>>

-----------------------------------------------------------------------------
(***************************************************************************)
(* Preparing a profile: what the operator asks, and the pinned definition. *)
(***************************************************************************)

\* Settings that a form may send; "keep" leaves a field as it is.
Asks == [harness : Harnesses \cup {"keep"}, model : BOOLEAN, version : Versions \cup {Unpinned}]
NoAsk == [harness |-> "keep", model |-> FALSE, version |-> Unpinned]

InCatalog(h, v) == h \in Registered /\ (catalog = 0 \/ h \notin Dropped) /\ v \in {Unpinned, catalog}

\* Another harness starts from nothing; a model is one that the runtime offers.
Applied(p, place, ask) ==
    LET q == IF ask.harness \in {"keep", p.harness} THEN p ELSE Plain(ask.harness)
    IN  IF ask.model
        THEN [q EXCEPT !.model = IF Managed(place) THEN place ELSE q.harness] ELSE q

\* prepareAgent: Mjolnir owns the runtime of managed work, a custom command has
\* no version, and a definition stays unless another version is asked for.
NotAllowed(place, ask) == Managed(place) /\ (ask.harness # "keep" \/ ask.version # Unpinned)
NeedsPinAlways(q, place, ask) == ~Managed(place) /\ q.harness # "custom"
NeedsPin(q, place, ask) ==
    /\ ~Managed(place) /\ q.harness # "custom"
    /\ q.def = Unpinned \/ ask.version \notin {Unpinned, q.def}
Prepares(p, place, ask) ==
    LET q == Applied(p, place, ask)
    IN  ~NotAllowed(place, ask) /\ (NeedsPin(q, place, ask) => InCatalog(q.harness, ask.version))
Prepared(p, place, ask) ==
    LET q == Applied(p, place, ask)
    IN  IF NeedsPin(q, place, ask) THEN [q EXCEPT !.def = catalog] ELSE q

\* Prepare: the town's profile as asked, every bot's own profile as it is. One
\* that fails, fails all.
Others(c) == {h \in Houses : c.own[h] # Inherits}
TownPrepares(c, ask) ==
    /\ Prepares(c.own["town"], c.place["town"], ask)
    /\ \A h \in Others(c) : Prepares(c.own[h], PlaceOf(c, h), NoAsk)
TownPrepared(c, ask) ==
    [c EXCEPT !.own = [o \in Owners |->
        IF o = "town" THEN Prepared(c.own[o], c.place[o], ask)
        ELSE IF o \in Others(c) THEN Prepared(c.own[o], PlaceOf(c, o), NoAsk)
        ELSE Inherits]]

-----------------------------------------------------------------------------
(***************************************************************************)
(* The operator.                                                           *)
(***************************************************************************)

Operator == choices < MaxChoices /\ choices' = choices + 1 /\ UNCHANGED <<catalog, dispatches, restarts>>
Anew     == used' = [h \in Houses |-> {}]

\* A choice is kept as it was made; a first pin completes it.
Pinned(choice, p) ==
    IF choice = Inherits \/ p = Inherits THEN choice
    ELSE IF choice.def = Unpinned THEN [choice EXCEPT !.def = p.def] ELSE choice
Completed(c) == [o \in Owners |-> Pinned(chosen[o], c.own[o])]

\* ApplySettings, for the town.
EditTown ==
    /\ ~town.deleted /\ Operator
    /\ \E ask \in Asks :
          /\ TownPrepares(config, ask) /\ config' = TownPrepared(config, ask)
          /\ chosen' = [Completed(config') EXCEPT !["town"] = config'.own["town"]]
    /\ Anew /\ UNCHANGED <<town, worker, run, discovered>>

\* ApplySettings, for one bot: its profile becomes its own, or is inherited again.
EditBot ==
    /\ ~town.deleted /\ Operator
    /\ \E h \in Houses :
          LET old == ProfileOf(config, h)
          IN  /\ \/ \E ask \in Asks :
                      /\ Prepares(old, PlaceOf(config, h), ask)
                      /\ config' = [config EXCEPT !.own[h] = Prepared(old, PlaceOf(config, h), ask)]
                 \/ config' = [config EXCEPT !.own[h] = Inherits]
              /\ chosen' = [chosen EXCEPT ![h] = config'.own[h]]
    /\ Anew /\ UNCHANGED <<town, worker, run, discovered>>

\* SetExecution: a new placement has to be among the launch options in Town's
\* cache, which may be any. A house that no longer waits for Mjolnir is freed.
EditPlace ==
    /\ ~town.deleted /\ Operator
    /\ \E o \in Owners : \E p \in Places \cup {"inherit"} :
          /\ o = "town" => p # "inherit"
          /\ config' = [config EXCEPT !.place[o] = p]
    /\ worker' = [h \in Houses |->
          IF worker[h].phase = "execution" /\ ~Managed(PlaceOf(config', h))
          THEN [worker[h] EXCEPT !.phase = ""] ELSE worker[h]]
    /\ Anew /\ UNCHANGED <<town, run, discovered, chosen>>

\* DiscoverExecutionRuntime reads Mjolnir; PinExecutionRuntime saves what was
\* read if the placement is still selected.
Discovers ==
    /\ ~town.deleted /\ discovered = Nothing /\ Operator
    /\ \E o \in Owners : \E runtime \in Runtimes :
          /\ Managed(PlaceOf(config, o))
          /\ discovered' = [read |-> TRUE, owner |-> o, place |-> PlaceOf(config, o),
                           runtime |-> runtime]
    /\ UNCHANGED <<town, config, worker, run, chosen, used>>
PinsRuntime ==
    /\ discovered # Nothing /\ discovered' = Nothing
    /\ IF ~town.deleted /\ PlaceOf(config, discovered.owner) = discovered.place
       THEN config' = [config EXCEPT !.pins[discovered.place] = discovered.runtime] /\ Anew
       ELSE UNCHANGED <<config, used>>
    /\ UNCHANGED <<catalog, town, worker, run, limits, chosen>>

\* Delete cancels the runs, which end later.
DeleteTown ==
    /\ ~town.deleted /\ Operator /\ town' = [town EXCEPT !.deleted = TRUE]
    /\ UNCHANGED <<config, worker, run, discovered, chosen, used>>

\* AddRepo restores the town with its settings and those of the request, once
\* no run of it is left. Placements and pins are kept.
Stopped == \A h \in Houses : run[h] = NoRun
RestoreTown ==
    /\ town.deleted /\ Stopped /\ Operator
    /\ \E ask \in Asks :
          /\ TownPrepares(config, ask) /\ config' = TownPrepared(config, ask)
          /\ chosen' = [Completed(config') EXCEPT !["town"] = config'.own["town"]]
    /\ town' = [deleted |-> FALSE, life |-> town.life + 1]
    /\ Anew /\ UNCHANGED <<worker, run, discovered>>

-----------------------------------------------------------------------------
(***************************************************************************)
(* A run.                                                                  *)
(***************************************************************************)

\* executionHold: managed work needs a duty that Mjolnir supports and a runtime.
Held(c, h) ==
    /\ Managed(PlaceOf(c, h))
    /\ h \notin Remote \/ c.pins[PlaceOf(c, h)] = Unpinned
Holds(h) ==
    /\ ~town.deleted /\ run[h] = NoRun /\ Held(config, h) /\ worker[h].phase # "execution"
    /\ worker' = [worker EXCEPT ![h].phase = "execution"]
    /\ UNCHANGED <<catalog, town, config, run, discovered, limits, chosen, used>>

\* execute: the definitions are pinned if all can be, and the run takes the
\* settings of this moment with it.
AtDispatch == IF TownPrepares(config, NoAsk) THEN TownPrepared(config, NoAsk) ELSE config
Dispatches(h) ==
    /\ ~town.deleted /\ run[h] = NoRun /\ ~Held(config, h)
    /\ dispatches < MaxDispatches /\ dispatches' = dispatches + 1
    /\ config' = AtDispatch
    /\ chosen' = Completed(config')
    /\ worker' = [worker EXCEPT ![h] =
          [phase |-> worker[h].phase, live |-> TRUE, agent |-> ProfileOf(config', h),
           place |-> PlaceOf(config', h)]]
    /\ run' = [run EXCEPT ![h] =
          [pc |-> "dispatched", life |-> town.life, agent |-> ProfileOf(config', h),
           place |-> PlaceOf(config', h),
           pin |-> IF Managed(PlaceOf(config', h)) THEN config'.pins[PlaceOf(config', h)] ELSE Unpinned]]
    /\ UNCHANGED <<catalog, town, discovered, choices, restarts, used>>

\* A local agent starts the pinned definition, or else what the catalogue has
\* now (botAgent); a managed one starts the pinned runtime (beginManaged).
AgentStarts(h) ==
    LET r == run[h]
        v == IF Managed(r.place) THEN r.pin
             ELSE IF r.agent.harness = "custom" \/ r.agent.def # Unpinned THEN r.agent.def
             ELSE catalog
    IN  /\ r.pc = "dispatched"
        /\ ~Managed(r.place) /\ r.agent.harness # "custom" /\ r.agent.def = Unpinned
               => InCatalog(r.agent.harness, Unpinned)
        /\ run' = [run EXCEPT ![h] = [pc |-> "running", life |-> r.life, agent |-> r.agent,
                                      place |-> r.place, pin |-> r.pin, with |-> v]]
        /\ used' = IF r.agent = ProfileOf(config, h) /\ r.place = PlaceOf(config, h)
                   THEN [used EXCEPT ![h] = @ \cup {v}] ELSE used
        /\ UNCHANGED <<catalog, town, config, worker, discovered, limits, chosen>>

\* The run ends or could not start; its last commit gives the capture up.
Ends(h) ==
    /\ run[h] # NoRun /\ run' = [run EXCEPT ![h] = NoRun]
    /\ worker' = [worker EXCEPT ![h] = [phase |-> worker[h].phase, live |-> FALSE]]
    /\ UNCHANGED <<catalog, town, config, discovered, limits, chosen, used>>

\* The service starts again. A config file that names the town replaces its
\* settings and restores it.
Restarts ==
    /\ restarts < MaxRestarts /\ restarts' = restarts + 1
    /\ run' = [h \in Houses |-> NoRun] /\ discovered' = Nothing
    /\ worker' = [h \in Houses |-> [phase |-> worker[h].phase, live |-> FALSE]]
    /\ \/ UNCHANGED <<town, config, chosen, used>>
       \/ /\ config' \in FileConfigs /\ chosen' = config'.own /\ Anew
          /\ town' = IF town.deleted THEN [deleted |-> FALSE, life |-> town.life + 1] ELSE town
    /\ UNCHANGED <<catalog, choices, dispatches>>

SettingsNext ==
    \/ RegistryRefreshes
    \/ EditTown \/ EditBot \/ EditPlace \/ Discovers \/ PinsRuntime
    \/ DeleteTown \/ RestoreTown \/ Restarts
    \/ \E h \in Houses : Holds(h) \/ Dispatches(h) \/ AgentStarts(h) \/ Ends(h)

SettingsSpec == SettingsInit /\ [][SettingsNext]_settings

-----------------------------------------------------------------------------
(***************************************************************************)
(* Properties.                                                             *)
(***************************************************************************)

\* The operator's choices stay as they were made: no dispatch, restart, other
\* bot's edit, placement or restoration changes a profile, and a version that
\* was pinned stays pinned (prepareAgent, Prepare at dispatch).
ChoicesKept == config.own = chosen

\* Whatever is edited meanwhile, what the bot's house shows is what its run was
\* started with, and a run with none shows none (execute, WorkerProfile).
RunsAsCaptured ==
    \A h \in Houses :
        IF run[h] = NoRun THEN ~worker[h].live
        ELSE worker[h].live /\ worker[h].agent = run[h].agent /\ worker[h].place = run[h].place

\* Managed work never runs elsewhere: a run that is placed on Mjolnir is of a
\* duty that it supports and has a runtime (executionHold, beginManaged).
NoLocalFallback ==
    \A h \in Houses :
        run[h] # NoRun /\ Managed(run[h].place) => h \in Remote /\ run[h].pin # Unpinned

\* No run from before a deletion is left when the town is back (add).
OneLife == \A h \in Houses : run[h] # NoRun /\ ~town.deleted => run[h].life = town.life

SettingsHold ==
    SettingsTypeOK /\ ChoicesKept /\ RunsAsCaptured /\ NoLocalFallback /\ OneLife

\* What Prepare's comment says: "Network refreshes cannot change a saved
\* selection", so that the runs between two choices of the operator use one
\* version. It does not hold: Prepare leaves a profile without a definition while
\* the town's own placement is managed, or when another bot's harness is no
\* longer in the registry, and then each run takes the version of the day.
VersionIsKept == \A h \in Houses : Cardinality(used[h]) <= 1

\* What docs/configuration.md says of another harness: it "clears the stored
\* model, effort and mode, because those belong to the harness that advertised
\* them", so that no agent is started with another's model. It does not hold: a
\* placement changes the harness (prepareAgent's refusal says so) and keeps them.
ModelOfItsHarness ==
    \A h \in Houses : run[h] # NoRun =>
        run[h].agent.model \in {"default", IF Managed(run[h].place) THEN run[h].place
                                           ELSE run[h].agent.harness}

=============================================================================
