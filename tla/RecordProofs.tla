---------------------------- MODULE RecordProofs ----------------------------
(***************************************************************************)
(* Theorems about what Town writes down beside its work, for any value of  *)
(* the constants: that no power loss forgets a change reported saved       *)
(* (StateFile); what a lifecycle transition does to the provider (Funnels); *)
(* and the settings and placements that a dispatch takes with it (Settings). *)
(***************************************************************************)
EXTENDS StateFile, Funnels, Settings, FiniteSetTheorems, WellFoundedInduction, TLAPS

-----------------------------------------------------------------------------
(***************************************************************************)
(* State file: what a power loss leaves starts again and forgets nothing.  *)
(***************************************************************************)
HotTasks  == [stage : Stages, ver : Nat, upd : Int, held : BOOLEAN]
Memories  == [tasks : [Ids -> HotTasks \cup {None}], archived : Int, created : BOOLEAN,
              busy : BOOLEAN]
Archives  == [Ids -> HotTasks \cup {None}] \cup {NoIndex}
Files     == [state : [now : Memories, kept : SUBSET Memories],
              index : [now : Archives, kept : SUBSET Archives],
              objects : [now : SUBSET (Ids \X HotTasks), safe : SUBSET (Ids \X HotTasks)]]
Remotes   == [issue : {"open", "closed"}, pr : {"open", "closed", "merged"}]
StateTyped ==
    /\ remote \in Remotes /\ clock \in Int /\ mem \in Memories /\ index \in Archives
    /\ file \in Files /\ acked \in [Ids -> Int] /\ \A i \in Ids : acked[i] >= -1
    /\ file.state.now = mem /\ mem \in file.state.kept
    /\ index \in file.index.kept /\ file.index.now \in file.index.kept

\* A state that may be found after a power loss, with any index that may be:
\* it counts what the index has for it, and the index has what it lacks.
ColdOf(s, x) == {i \in Ids : Entry(x, i) # None /\ ~Hot(s, i)}
CountedIn(s, x) == s.archived = Cardinality(ColdOf(s, x)) /\ (s.created => x # NoIndex)
Covers(s, x)  == \A i \in Ids : Recorded(s, x, i) >= acked[i]
IndexesAgree(s) ==
    \A x \in file.index.kept : \A y \in file.index.kept : \A i \in Ids :
        Entry(x, i) = Entry(y, i) \/ Hot(s, i)
CommitStage(task) == task = None \/ task.stage \in {"open", "shipped"}
Sound(s) ==
    /\ s \in Memories /\ IndexesAgree(s) /\ CommitStage(s.tasks["commit"])
    /\ \A x \in file.index.kept : CountedIn(s, x) /\ Covers(s, x)
StatesSound == \A s \in file.state.kept : Sound(s)
ShippedOnly == \A x \in file.index.kept :
    Entry(x, "commit") = None \/ Entry(x, "commit").stage = "shipped"

\* What a pass remembers between its steps.
PassHolds ==
    /\ pass.pc \in {"prepare", "commit"} =>
         /\ pass.funnel \in BOOLEAN /\ pass.seen \subseteq {"issue", "pr"} /\ pass.remote \in Remotes
         /\ pass.funnel => pass.seen = {"issue"} /\ pass.remote.issue = "open"
    /\ pass.pc = "commit" =>
         /\ DOMAIN pass.back \subseteq Ids
         /\ \A i \in DOMAIN pass.back :
               pass.back[i] = Entry(index, i) /\ pass.back[i] # None /\ ~Hot(mem, i)
         /\ \A i \in pass.seen : Hot(mem, i) \/ Entry(index, i) = None \/ i \in DOMAIN pass.back
         /\ pass.commit \/ Hot(mem, "commit") \/ Entry(index, "commit") = None
    /\ pass.pc \in {"objects", "index", "remove"} =>
         \A s \in file.state.kept : \A i \in Ids : Hot(s, i) <=> Hot(mem, i)
    /\ pass.pc \in {"index", "remove"} =>
         /\ DOMAIN pass.entries \subseteq Ids
         /\ \A i \in DOMAIN pass.entries :
               /\ Hot(mem, i) /\ pass.entries[i] \in HotTasks
               /\ <<i, pass.entries[i]>> \in file.objects.safe
               /\ i = "commit" => pass.entries[i].stage = "shipped"
    /\ pass.pc = "remove" =>
         /\ file.index.kept = {index} /\ index # NoIndex
         /\ \A i \in DOMAIN pass.entries : index[i] = pass.entries[i]
StateInv == StateTyped /\ StatesSound /\ ShippedOnly /\ PassHolds

LEMMA NoIndexIsNone ==
    /\ \A x \in Archives : x = NoIndex \/ x \in [Ids -> HotTasks \cup {None}]
    /\ \A f \in [Ids -> HotTasks \cup {None}] : f # NoIndex
    /\ \A t \in HotTasks : t # None
  <1>1. \A f \in [Ids -> HotTasks \cup {None}] : f # NoIndex
    <2> SUFFICES ASSUME NEW f \in [Ids -> HotTasks \cup {None}], f = NoIndex PROVE FALSE
      OBVIOUS
    <2>1. DOMAIN f = Ids
      OBVIOUS
    <2>2. DOMAIN NoIndex = {"missing"}
      BY DEF NoIndex
    <2>. QED  BY <2>1, <2>2 DEF Ids
  <1>2. \A t \in HotTasks : t # None
    BY DEF HotTasks, None, Stages
  <1>. QED  BY <1>1, <1>2 DEF Archives

LEMMA EntryIs ==
    ASSUME NEW x \in Archives, NEW i \in Ids
    PROVE  /\ Entry(x, i) \in HotTasks \cup {None}
           /\ x # NoIndex => Entry(x, i) = x[i]
  BY NoIndexIsNone DEF Entry

LEMMA HotIs ==
    ASSUME NEW s \in Memories, NEW i \in Ids
    PROVE  Hot(s, i) <=> s.tasks[i] \in HotTasks
  BY NoIndexIsNone DEF Hot, Memories

\* A commit puts the new state, which is sound, or no state on the disk.
LEMMA WriteKeeps ==
    ASSUME StateTyped, StatesSound, ShippedOnly, NEW new, Sound(new),
           Saved(new) \/ NotSynced(new) \/ NotSaved, UNCHANGED <<index, remote, clock>>
    PROVE  /\ StateTyped' /\ StatesSound' /\ ShippedOnly'
           /\ file'.index = file.index /\ file'.objects = file.objects
           /\ \/ mem' = mem /\ file' = file /\ acked' = acked
              \/ mem' = new /\ file'.state.kept \subseteq file.state.kept \cup {new}
           /\ Saved(new) => mem' = new /\ file'.state.kept = {new}
  <1>1. new \in Memories /\ file \in Files /\ acked \in [Ids -> Int]
    BY DEF Sound, StateTyped
  <1>2. Saved(new) =>
           /\ mem' = new /\ file' \in Files /\ file'.state.now = new /\ file'.state.kept = {new}
           /\ file'.index = file.index /\ file'.objects = file.objects
    <2> DEFINE st == Synced(Renamed(file.state, new))
    <2>1. st \in [now : Memories, kept : SUBSET Memories] /\ st.now = new /\ st.kept = {new}
      BY <1>1 DEF Files, Renamed, Synced
    <2>2. Saved(new) => mem' = new /\ file' = [file EXCEPT !.state = st]
      BY DEF Saved
    <2> HIDE DEF st
    <2>. QED  BY <1>1, <2>1, <2>2 DEF Files
  <1>3. Saved(new) =>
           /\ acked' \in [Ids -> Int] /\ \A i \in Ids : acked[i] <= acked'[i]
           /\ \A i \in Ids : acked'[i] = acked[i] \/ (Hot(new, i) /\ acked'[i] = new.tasks[i].ver)
    <2> SUFFICES ASSUME Saved(new)
                 PROVE  /\ acked' \in [Ids -> Int] /\ \A i \in Ids : acked[i] <= acked'[i]
                        /\ \A i \in Ids : acked'[i] = acked[i]
                              \/ (Hot(new, i) /\ acked'[i] = new.tasks[i].ver)
      OBVIOUS
    <2>1. acked' = [i \in Ids |-> IF Hot(new, i) THEN Larger(acked[i], new.tasks[i].ver) ELSE acked[i]]
      BY DEF Saved
    <2>2. \A i \in Ids : Hot(new, i) => new.tasks[i].ver \in Int
      BY <1>1, HotIs DEF HotTasks
    <2>. QED  BY <1>1, <2>1, <2>2 DEF Larger
  <1>4. NotSynced(new) =>
           /\ mem' = new /\ file' \in Files /\ file'.state.now = new
           /\ file'.state.kept = file.state.kept \cup {new}
           /\ file'.index = file.index /\ file'.objects = file.objects /\ acked' = acked
    <2> DEFINE st == Renamed(file.state, new)
    <2>1. st \in [now : Memories, kept : SUBSET Memories] /\ st.now = new
          /\ st.kept = file.state.kept \cup {new}
      BY <1>1 DEF Files, Renamed
    <2>2. NotSynced(new) => mem' = new /\ file' = [file EXCEPT !.state = st] /\ acked' = acked
      BY DEF NotSynced
    <2> HIDE DEF st
    <2>. QED  BY <1>1, <2>1, <2>2 DEF Files
  <1>5. NotSaved => mem' = mem /\ file' = file /\ acked' = acked
    BY DEF NotSaved
  <1>6. ASSUME NEW s, Sound(s), file'.index = file.index, file'.objects = file.objects,
               \A i \in Ids : acked'[i] = acked[i] \/ (Hot(s, i) /\ acked'[i] = s.tasks[i].ver)
        PROVE  Sound(s)'
    <2>1. s \in Memories
      BY <1>6 DEF Sound
    <2>2. ASSUME NEW x \in file.index.kept, NEW i \in Ids
          PROVE  Recorded(s, x, i)' >= acked'[i]
      <3>1. Recorded(s, x, i) >= acked[i] /\ Recorded(s, x, i)' = Recorded(s, x, i)
        BY <1>6 DEF Sound, Covers, Recorded
      <3>2. Hot(s, i) => Recorded(s, x, i) = s.tasks[i].ver /\ s.tasks[i].ver \in Nat
        BY <2>1, HotIs DEF Recorded, HotTasks
      <3>. QED  BY <1>6, <3>1, <3>2
    <2>. QED  BY <1>6, <2>2 DEF Sound, IndexesAgree, CountedIn, Covers
  <1>7. StatesSound'
    <2>1. CASE Saved(new)
      BY <1>2, <1>3, <1>6, <2>1 DEF StatesSound
    <2>2. CASE NotSynced(new)
      BY <1>4, <1>6, <2>2 DEF StatesSound
    <2>3. CASE NotSaved
      BY <1>5, <1>6, <2>3 DEF StatesSound
    <2>. QED  BY <2>1, <2>2, <2>3
  <1>8. StateTyped'
    <2>1. CASE Saved(new)
      BY <1>1, <1>2, <1>3, <2>1 DEF StateTyped
    <2>2. CASE NotSynced(new) \/ NotSaved
      BY <1>1, <1>4, <1>5, <2>2 DEF StateTyped
    <2>. QED  BY <2>1, <2>2
  <1>9. ShippedOnly'
    BY <1>2, <1>4, <1>5 DEF ShippedOnly
  <1>. QED  BY <1>2, <1>4, <1>5, <1>7, <1>8, <1>9

LEMMA StateStarts == StateInit => StateInv
  <1> SUFFICES ASSUME StateInit PROVE StateInv
    OBVIOUS
  <1>1. /\ mem \in Memories /\ mem.archived = 0 /\ ~mem.created
        /\ \A i \in Ids : mem.tasks[i] = None
    BY DEF StateInit, Memories, Empty
  <1>2. NoIndex \in Archives /\ \A i \in Ids : Entry(NoIndex, i) = None
    BY DEF Archives, Entry
  <1>3. StateTyped
    <2>1. file.state = [now |-> mem, kept |-> {mem}] /\ file.index = [now |-> NoIndex, kept |-> {NoIndex}]
          /\ file.objects = [now |-> {}, safe |-> {}]
      BY DEF StateInit
    <2>2. /\ file.state \in [now : Memories, kept : SUBSET Memories]
          /\ file.index \in [now : Archives, kept : SUBSET Archives]
          /\ file.objects \in [now : SUBSET (Ids \X HotTasks), safe : SUBSET (Ids \X HotTasks)]
      BY <1>1, <1>2, <2>1
    <2>3. file \in Files
      BY <2>2 DEF StateInit, Files
    <2>4. remote \in Remotes /\ clock \in Int /\ index = NoIndex
      BY DEF StateInit, Remotes
    <2>5. acked \in [Ids -> Int] /\ \A i \in Ids : acked[i] >= -1
      BY DEF StateInit
    <2>. QED  BY <1>1, <1>2, <2>1, <2>3, <2>4, <2>5 DEF StateTyped
  <1>4. /\ \A s \in file.state.kept : s = mem
        /\ \A x \in file.index.kept : x = NoIndex
        /\ pass.pc = "idle"
    BY DEF StateInit, Idle
  <1>5. \A i \in Ids : ~Hot(mem, i) /\ acked[i] = -1 /\ Recorded(mem, NoIndex, i) = -1
    BY <1>1, <1>2 DEF StateInit, Hot, Recorded
  <1>6. Cardinality(ColdOf(mem, NoIndex)) = 0
    <2>1. ColdOf(mem, NoIndex) = {}
      BY <1>2 DEF ColdOf
    <2>. QED  BY <2>1, FS_EmptySet
  <1>7. Sound(mem)
    BY <1>1, <1>2, <1>4, <1>5, <1>6 DEF Sound, IndexesAgree, CountedIn, Covers, CommitStage, Ids
  <1>8. StatesSound
    BY <1>4, <1>7 DEF StatesSound
  <1>. QED  BY <1>2, <1>3, <1>4, <1>8 DEF StateInv, ShippedOnly, PassHolds, Ids

LEMMA ChangedTaskIs ==
    ASSUME NEW task \in HotTasks, NEW i \in Ids, NEW u \in Int, NEW h \in BOOLEAN,
           NEW st \in NextStages(task, i)
    PROVE  /\ ChangedTask(task, u, h, st) \in HotTasks
           /\ ChangedTask(task, u, h, st).ver >= task.ver
           /\ ChangedTask(task, u, h, st).stage \in {task.stage, "shipped"}
  <1>1. st \in Stages /\ st \in {task.stage, "shipped"}
    BY DEF HotTasks, Stages, NextStages
  <1>2. ChangedTask(task, u, h, st) \in HotTasks
    BY <1>1 DEF ChangedTask, HotTasks
  <1>3. ChangedTask(task, u, h, st).stage = st /\ ChangedTask(task, u, h, st).ver = task.ver + 1
    BY DEF ChangedTask
  <1>4. task.ver \in Nat
    BY DEF HotTasks
  <1>. QED  BY <1>1, <1>2, <1>3, <1>4

\* A state that keeps what is hot, and only changes it, is as sound.
LEMMA SoundGrows ==
    ASSUME StateTyped, NEW s, Sound(s), NEW new \in Memories, CommitStage(new.tasks["commit"]),
           new.archived = s.archived, new.created = s.created,
           \A i \in Ids : Hot(new, i) <=> Hot(s, i),
           \A i \in Ids : Hot(s, i) => new.tasks[i].ver >= s.tasks[i].ver
    PROVE  Sound(new)
  <1>1. \A x \in file.index.kept : ColdOf(new, x) = ColdOf(s, x)
    BY DEF ColdOf
  <1>2. ASSUME NEW x \in file.index.kept, NEW i \in Ids
        PROVE  Recorded(new, x, i) >= acked[i]
    <2>1. Recorded(s, x, i) >= acked[i]
      BY DEF Sound, Covers
    <2>2. CASE Hot(s, i)
      <3>1. s.tasks[i].ver \in Int /\ new.tasks[i].ver \in Int
        BY <2>2, HotIs DEF Sound, HotTasks
      <3>. QED  BY <2>1, <2>2, <3>1 DEF Recorded, StateTyped
    <2>3. CASE ~Hot(s, i)
      BY <2>1, <2>3 DEF Recorded
    <2>. QED  BY <2>2, <2>3
  <1>. QED  BY <1>1, <1>2 DEF Sound, IndexesAgree, CountedIn, Covers

\* What becomes of the pass when a commit beside it changes what is hot nowhere.
LEMMA PassStays ==
    ASSUME StateTyped, PassHolds, UNCHANGED <<index, pass>>, NEW new \in Memories,
           \A i \in Ids : Hot(new, i) <=> Hot(mem, i),
           file'.index = file.index, file'.objects = file.objects,
           \/ mem' = mem /\ file' = file
           \/ mem' = new /\ file'.state.kept \subseteq file.state.kept \cup {new}
    PROVE  PassHolds'
  <1>1. \A i \in Ids : Hot(mem, i)' <=> Hot(mem, i)
    BY DEF Hot
  <1>2. \A s \in file'.state.kept : s = new \/ s \in file.state.kept
    OBVIOUS
  <1>3. \A s : \A i \in Ids : Hot(s, i) <=> s.tasks[i] # None
    BY DEF Hot
  <1>. QED  BY <1>1, <1>2, <1>3 DEF PassHolds, Ids

LEMMA BesideHolds ==
    ASSUME StateInv, TaskChanges \/ WorkChanges
    PROVE  StateInv'
  <1>1. PICK new \in Memories :
           /\ Saved(new) \/ NotSynced(new) \/ NotSaved
           /\ CommitStage(new.tasks["commit"])
           /\ new.archived = mem.archived /\ new.created = mem.created
           /\ \A i \in Ids : Hot(new, i) <=> Hot(mem, i)
           /\ \A i \in Ids : Hot(mem, i) => new.tasks[i].ver >= mem.tasks[i].ver
    <2>0. mem \in Memories /\ CommitStage(mem.tasks["commit"])
      BY DEF StateInv, StateTyped, StatesSound, Sound
    <2>1. CASE WorkChanges
      <3> DEFINE new == [mem EXCEPT !.busy = ~@]
      <3>1. /\ new \in Memories /\ new.tasks = mem.tasks /\ new.archived = mem.archived
            /\ new.created = mem.created
        BY <2>0 DEF Memories
      <3>2. Saved(new) \/ NotSynced(new) \/ NotSaved
        BY <2>1 DEF WorkChanges
      <3> HIDE DEF new
      <3>3. \A i \in Ids : Hot(mem, i) => mem.tasks[i].ver >= mem.tasks[i].ver
        BY <2>0, HotIs DEF HotTasks
      <3>. QED  BY <2>0, <3>1, <3>2, <3>3 DEF Hot
    <2>2. CASE TaskChanges
      <3>1. PICK i \in Ids, u \in Int, h \in BOOLEAN :
               /\ Hot(mem, i)
               /\ \E st \in NextStages(mem.tasks[i], i) :
                    LET t   == ChangedTask(mem.tasks[i], u, h, st)
                        new == [mem EXCEPT !.tasks = [@ EXCEPT ![i] = t]]
                    IN  Saved(new) \/ NotSynced(new) \/ NotSaved
        BY <2>2 DEF TaskChanges
      <3>0. PICK st \in NextStages(mem.tasks[i], i) :
               LET t   == ChangedTask(mem.tasks[i], u, h, st)
                   new == [mem EXCEPT !.tasks = [@ EXCEPT ![i] = t]]
               IN  Saved(new) \/ NotSynced(new) \/ NotSaved
        BY <3>1
      <3> DEFINE t == ChangedTask(mem.tasks[i], u, h, st)
      <3>2. /\ mem.tasks[i] \in HotTasks /\ t \in HotTasks /\ t.ver >= mem.tasks[i].ver
            /\ t.stage \in {mem.tasks[i].stage, "shipped"} /\ t # None
        BY <2>0, <3>1, HotIs, ChangedTaskIs, NoIndexIsNone
      <3> DEFINE table == [mem.tasks EXCEPT ![i] = t]
                 new == [mem EXCEPT !.tasks = table]
      <3>3. /\ table \in [Ids -> HotTasks \cup {None}] /\ table[i] = t
            /\ \A j \in Ids : j # i => table[j] = mem.tasks[j]
        BY <2>0, <3>2 DEF Memories
      <3>4. Saved(new) \/ NotSynced(new) \/ NotSaved
        BY <3>0
      <3> HIDE DEF table, t
      <3>5. /\ new \in Memories /\ new.tasks = table /\ new.archived = mem.archived
            /\ new.created = mem.created
        BY <2>0, <3>3 DEF Memories
      <3> HIDE DEF new
      <3>6. \A j \in Ids : Hot(new, j) <=> Hot(mem, j)
        BY <3>1, <3>2, <3>3, <3>5 DEF Hot
      <3>7. \A j \in Ids : Hot(mem, j) => new.tasks[j].ver >= mem.tasks[j].ver
        BY <2>0, <3>2, <3>3, <3>5, HotIs DEF HotTasks
      <3>8. CommitStage(new.tasks["commit"])
        BY <2>0, <3>1, <3>2, <3>3, <3>5 DEF CommitStage, Ids, Hot
      <3>. QED  BY <3>4, <3>5, <3>6, <3>7, <3>8
    <2>. QED  BY <2>1, <2>2
  <1>2. Sound(mem) /\ StateTyped /\ StatesSound /\ ShippedOnly /\ PassHolds
    BY DEF StateInv, StatesSound, StateTyped
  <1>3. Sound(new)
    BY <1>1, <1>2, SoundGrows
  <1>4. UNCHANGED <<index, pass, remote, clock>>
    BY DEF TaskChanges, WorkChanges
  <1>5. /\ StateTyped' /\ StatesSound' /\ ShippedOnly'
        /\ file'.index = file.index /\ file'.objects = file.objects
        /\ \/ mem' = mem /\ file' = file /\ acked' = acked
           \/ mem' = new /\ file'.state.kept \subseteq file.state.kept \cup {new}
    BY <1>1, <1>2, <1>3, <1>4, WriteKeeps
  <1>6. PassHolds'
    BY <1>1, <1>2, <1>4, <1>5, PassStays
  <1>. QED  BY <1>5, <1>6 DEF StateInv

LEMMA Unmoved ==
    ASSUME StateTyped, StatesSound, ShippedOnly, UNCHANGED <<remote, clock, mem, index, file, acked>>
    PROVE  StateTyped' /\ StatesSound' /\ ShippedOnly'
  <1>1. StateTyped'
    BY DEF StateTyped
  <1>2. StatesSound' /\ ShippedOnly'
    BY DEF StatesSound, Sound, IndexesAgree, CountedIn, Covers, ColdOf, Recorded, ShippedOnly
  <1>. QED  BY <1>1, <1>2

LEMMA OutsideHolds ==
    ASSUME StateInv, GitHubChanges \/ Tick \/ PassObserves
    PROVE  StateInv'
  <1>1. remote' \in Remotes
    BY DEF GitHubChanges, Tick, PassObserves, StateInv, StateTyped, Remotes
  <1>2. clock' \in Int /\ UNCHANGED <<mem, index, file, acked>>
    BY DEF GitHubChanges, Tick, PassObserves, StateInv, StateTyped
  <1>3. PassHolds'
    <2>1. CASE PassObserves
      <3>1. /\ pass'.pc = "prepare" /\ pass'.funnel \in BOOLEAN /\ pass'.seen \subseteq {"issue", "pr"}
            /\ pass'.remote \in Remotes
            /\ pass'.funnel => pass'.seen = {"issue"} /\ pass'.remote.issue = "open"
        <4>1. CASE pass' = [pc |-> "prepare", funnel |-> TRUE, seen |-> {"issue"},
                            remote |-> [remote EXCEPT !.issue = "open"]]
          <5>1. /\ [remote EXCEPT !.issue = "open"] \in Remotes
                /\ [remote EXCEPT !.issue = "open"].issue = "open"
            BY DEF StateInv, StateTyped, Remotes
          <5>. QED  BY <4>1, <5>1
        <4>2. CASE \E shown \in SUBSET {"issue", "pr"} :
                     pass' = [pc |-> "prepare", funnel |-> FALSE, seen |-> shown, remote |-> remote]
          BY <4>2 DEF StateInv, StateTyped
        <4>. QED  BY <2>1, <4>1, <4>2 DEF PassObserves
      <3>. QED  BY <3>1 DEF PassHolds
    <2>2. CASE UNCHANGED pass
      BY <1>2, <2>2 DEF StateInv, PassHolds, Hot
    <2>. QED  BY <2>1, <2>2 DEF GitHubChanges, Tick
  <1>. QED
    BY <1>1, <1>2, <1>3 DEF StateInv, StateTyped, StatesSound, Sound, IndexesAgree, CountedIn, Covers,
       ColdOf, Recorded, ShippedOnly

LEMMA PrepareHolds ==
    ASSUME StateInv, Prepare
    PROVE  StateInv'
  <1>1. UNCHANGED <<remote, clock, mem, index, file, acked>> /\ pass.pc = "prepare"
    BY DEF Prepare
  <1>2. CASE pass' = Idle
    BY <1>1, <1>2 DEF Idle, StateInv, StateTyped, StatesSound, Sound, IndexesAgree, CountedIn, Covers,
       ColdOf, Recorded, ShippedOnly, PassHolds
  <1>3. CASE pass' # Idle
    <2> DEFINE r == pass.remote
               left == pass.seen \ StaysCold(r)
               back == [i \in Restored(r) |-> index[i]]
    <2>1. pass' = [pc |-> "commit", funnel |-> pass.funnel, remote |-> r, seen |-> left,
                   commit |-> CommitArchived, back |-> back]
      BY <1>3 DEF Prepare
    <2>2. /\ pass.funnel \in BOOLEAN /\ pass.seen \subseteq {"issue", "pr"} /\ r \in Remotes
          /\ pass.funnel => pass.seen = {"issue"} /\ r.issue = "open"
      BY <1>1 DEF StateInv, PassHolds
    <2>3. pass.funnel => left = {"issue"}
      BY <2>2 DEF StaysCold
    <2>4. Restored(r) \subseteq Ids /\ \A i \in Restored(r) : Cold(i)
      BY <2>2 DEF Restored, Dependency, Ids
    <2>5. \A i \in Ids : Cold(i) <=> ~Hot(mem, i) /\ Entry(index, i) # None
      BY DEF Cold, Entry
    <2>6. \A i \in Restored(r) : back[i] = Entry(index, i) /\ back[i] # None /\ ~Hot(mem, i)
      BY <2>4, <2>5 DEF Cold, Entry
    <2>7. \A i \in left : Hot(mem, i) \/ Entry(index, i) = None \/ i \in Restored(r)
      BY <2>2, <2>5 DEF Restored, Ids
    <2>8. CommitArchived \/ Hot(mem, "commit") \/ Entry(index, "commit") = None
      <3>1. SUFFICES ASSUME ~Hot(mem, "commit"), Entry(index, "commit") # None PROVE CommitArchived
        OBVIOUS
      <3>2. Cold("commit") /\ index["commit"] = Entry(index, "commit")
        BY <3>1 DEF Cold, Entry, Ids
      <3>3. Entry(index, "commit").stage = "shipped"
        BY <3>1 DEF StateInv, StateTyped, ShippedOnly
      <3>. QED  BY <3>2, <3>3 DEF CommitArchived
    <2> HIDE DEF back, left
    <2>9. DOMAIN back = Restored(r)
      BY DEF back
    <2>10. /\ pass'.pc = "commit" /\ pass'.funnel = pass.funnel /\ pass'.remote = r /\ pass'.seen = left
           /\ pass'.commit = CommitArchived /\ pass'.back = back
      BY <2>1
    <2>11. left \subseteq {"issue", "pr"}
      BY <2>2 DEF left
    <2>12. PassHolds'
      BY <1>1, <2>2, <2>3, <2>4, <2>6, <2>7, <2>8, <2>9, <2>10, <2>11 DEF PassHolds, Hot
    <2>. QED
      BY <1>1, <2>12 DEF StateInv, StateTyped, StatesSound, Sound, IndexesAgree, CountedIn, Covers,
         ColdOf, Recorded, ShippedOnly
  <1>. QED  BY <1>2, <1>3

LEMMA IdsAreFinite == IsFiniteSet(Ids)
  <1>1. IsFiniteSet({}) /\ IsFiniteSet({"issue"})
    BY FS_EmptySet, FS_Singleton
  <1>2. IsFiniteSet({"issue"} \cup {"pr"})
    BY <1>1, FS_AddElement
  <1>3. IsFiniteSet(({"issue"} \cup {"pr"}) \cup {"commit"})
    BY <1>2, FS_AddElement
  <1>4. Ids = ({"issue"} \cup {"pr"}) \cup {"commit"}
    BY DEF Ids
  <1>. QED  BY <1>3, <1>4

LEMMA FollowsIs ==
    ASSUME StateTyped, NEW task \in HotTasks \cup {None}, NEW st \in Stages
    PROVE  /\ Follows(task, st) \in HotTasks
           /\ task # None => Follows(task, st).ver >= task.ver
  <1>1. [stage |-> st, ver |-> 0, upd |-> clock, held |-> FALSE] \in HotTasks
    BY DEF HotTasks, StateTyped
  <1>2. ASSUME task \in HotTasks
        PROVE  /\ ChangedTask(task, clock, task.held, st) \in HotTasks
               /\ ChangedTask(task, clock, task.held, st).ver >= task.ver
               /\ task.ver >= task.ver
    BY <1>2 DEF HotTasks, StateTyped, ChangedTask
  <1>. QED  BY <1>1, <1>2 DEF Follows

\* What comes back was archived, and what arrives was not: the count is right.
LEMMA SoundBack ==
    ASSUME StateTyped, Sound(mem), NEW new \in Memories, CommitStage(new.tasks["commit"]),
           NEW back \in SUBSET Ids, new.archived = mem.archived - Cardinality(back),
           new.created = mem.created,
           \A i \in Ids : Hot(mem, i) => Hot(new, i) /\ new.tasks[i].ver >= mem.tasks[i].ver,
           \A i \in back : /\ ~Hot(mem, i) /\ Entry(index, i) # None
                           /\ Hot(new, i) /\ new.tasks[i].ver >= Entry(index, i).ver,
           \A i \in Ids : Hot(mem, i) \/ i \in back \/ ~Hot(new, i) \/ Entry(index, i) = None
    PROVE  Sound(new)
  <1>1. ASSUME NEW x \in file.index.kept, NEW i \in Ids
        PROVE  Entry(x, i) = Entry(index, i) \/ Hot(mem, i)
    BY DEF StateTyped, Sound, IndexesAgree
  <1>2. ASSUME NEW x \in file.index.kept
        PROVE  CountedIn(new, x)
    <2>1. back \subseteq ColdOf(mem, x) /\ ColdOf(new, x) = ColdOf(mem, x) \ back
      BY <1>1 DEF ColdOf
    <2>2. IsFiniteSet(Ids)
      BY IdsAreFinite
    <2>3. IsFiniteSet(ColdOf(mem, x)) /\ IsFiniteSet(back)
      BY <2>2, FS_Subset DEF ColdOf
    <2>4. Cardinality(ColdOf(new, x)) = Cardinality(ColdOf(mem, x)) - Cardinality(ColdOf(mem, x) \cap back)
      BY <2>1, <2>3, FS_Difference
    <2>5. ColdOf(mem, x) \cap back = back
      BY <2>1
    <2>. QED  BY <2>4, <2>5 DEF Sound, CountedIn
  <1>3. ASSUME NEW x \in file.index.kept, NEW i \in Ids
        PROVE  Recorded(new, x, i) >= acked[i]
    <2>1. Recorded(mem, x, i) >= acked[i] /\ acked[i] \in Int
      BY DEF Sound, Covers, StateTyped
    <2>2. Hot(new, i) => Recorded(new, x, i) = new.tasks[i].ver /\ new.tasks[i].ver \in Nat
      BY HotIs DEF Recorded, HotTasks
    <2>3. CASE Hot(mem, i)
      <3>1. mem.tasks[i].ver \in Nat /\ Recorded(mem, x, i) = mem.tasks[i].ver
        BY <2>3, HotIs DEF Sound, HotTasks, Recorded
      <3>. QED  BY <2>1, <2>2, <2>3, <3>1
    <2>4. CASE ~Hot(mem, i) /\ Hot(new, i)
      <3>1. Entry(x, i) = Entry(index, i) /\ index \in Archives
        BY <2>4, <1>1 DEF StateTyped
      <3>2. Entry(index, i) = None \/ (Entry(index, i) \in HotTasks /\ Entry(index, i).ver \in Nat)
        BY <3>1, EntryIs DEF HotTasks
      <3>3. Recorded(mem, x, i) \in {-1, Entry(index, i).ver}
            /\ (Entry(index, i) = None => Recorded(mem, x, i) = -1)
        BY <2>4, <3>1 DEF Recorded
      <3>. QED  BY <2>1, <2>2, <2>4, <3>2, <3>3
    <2>5. CASE ~Hot(mem, i) /\ ~Hot(new, i)
      BY <2>1, <2>5 DEF Recorded
    <2>. QED  BY <2>3, <2>4, <2>5
  <1>4. IndexesAgree(new)
    BY DEF Sound, IndexesAgree
  <1>. QED  BY <1>2, <1>3, <1>4 DEF Sound, Covers

LEMMA InventoryIs ==
    ASSUME StateInv, pass.pc = "commit"
    PROVE  LET new == PassInventory(RestoreHistory(mem, pass.back)) IN Sound(new)
  <1> DEFINE back == pass.back
             s    == RestoreHistory(mem, back)
             CB   == DOMAIN back
  <1>1. /\ CB \subseteq Ids
        /\ \A i \in CB : back[i] = Entry(index, i) /\ back[i] # None /\ ~Hot(mem, i)
        /\ pass.funnel \in BOOLEAN /\ pass.seen \subseteq {"issue", "pr"} /\ pass.remote \in Remotes
        /\ pass.funnel => pass.seen = {"issue"} /\ pass.remote.issue = "open"
        /\ \A i \in pass.seen : Hot(mem, i) \/ Entry(index, i) = None \/ i \in CB
        /\ pass.commit \/ Hot(mem, "commit") \/ Entry(index, "commit") = None
    BY DEF StateInv, PassHolds
  <1>2. mem \in Memories /\ index \in Archives /\ StateTyped /\ Sound(mem)
    BY DEF StateInv, StateTyped, StatesSound
  <1>3. CountedBack(mem, back) = CB
    BY <1>1 DEF CountedBack
  <1>4. \A i \in CB : back[i] \in HotTasks
    BY <1>1, <1>2, EntryIs
  <1> DEFINE table == [i \in Ids |-> IF i \in CB THEN back[i] ELSE mem.tasks[i]]
  <1>5. table \in [Ids -> HotTasks \cup {None}]
    BY <1>2, <1>4 DEF Memories
  <1>6. s = [mem EXCEPT !.tasks = table, !.archived = @ - Cardinality(CB)]
    BY <1>3 DEF RestoreHistory
  <1>7. \A i \in Ids : table[i] = IF i \in CB THEN back[i] ELSE mem.tasks[i]
    OBVIOUS
  <1>8. IsFiniteSet(Ids)
    BY IdsAreFinite
  <1>9. Cardinality(CB) \in Nat
    BY <1>1, <1>8, FS_Subset, FS_CardinalityType
  <1>10. /\ s \in Memories /\ s.tasks = table /\ s.archived = mem.archived - Cardinality(CB)
         /\ s.created = mem.created
    <2> HIDE DEF table, s
    <2> DEFINE count == mem.archived - Cardinality(CB)
               mid   == [mem EXCEPT !.tasks = table]
    <2>1. count \in Int
      BY <1>2, <1>9 DEF Memories
    <2>2. mid \in Memories /\ mid.tasks = table /\ mid.created = mem.created
      BY <1>2, <1>5 DEF Memories
    <2>3. s = [mid EXCEPT !.archived = count]
      BY <1>6
    <2> HIDE DEF count, mid
    <2>4. s \in Memories /\ s.tasks = table /\ s.archived = count /\ s.created = mem.created
      BY <2>1, <2>2, <2>3 DEF Memories
    <2>. QED  BY <2>4 DEF count
  <1>11. CommitStage(table["commit"])
    BY <1>1, <1>2, <1>7 DEF CommitStage, Sound, StateInv, StateTyped, ShippedOnly, Ids
  <1>12. \A i \in Ids : table[i] = None \/ (table[i] \in HotTasks /\ table[i].ver \in Nat)
    BY <1>5 DEF HotTasks
  <1> HIDE DEF table, s, back
  <1> DEFINE new == PassInventory(s)
  <1>13. /\ new \in Memories /\ CommitStage(new.tasks["commit"])
         /\ new.archived = s.archived /\ new.created = s.created
         /\ \A i \in Ids : table[i] # None => new.tasks[i] # None /\ new.tasks[i].ver >= table[i].ver
         /\ \A i \in Ids : table[i] = None /\ new.tasks[i] # None => Entry(index, i) = None
    <2>1. \A i \in pass.seen : pass.remote[i] \in Stages /\ i # "commit" /\ i \in Ids
      BY <1>1 DEF Remotes, Stages, Ids
    <2>2. \A i \in Ids, st \in Stages :
             /\ Follows(table[i], st) \in HotTasks /\ Follows(table[i], st) # None
             /\ table[i] # None => Follows(table[i], st).ver >= table[i].ver
      BY <1>2, <1>5, FollowsIs, NoIndexIsNone
    <2>3. CASE ~pass.funnel
      <3> DEFINE merged == "pr" \in pass.seen /\ pass.remote.pr = "merged"
                 fresh == [stage |-> "open", ver |-> 0, upd |-> clock, held |-> FALSE]
                 after == [i \in Ids |->
                    IF i \in pass.seen THEN Follows(table[i], pass.remote[i])
                    ELSE IF i = "commit" /\ merged /\ ~pass.commit /\ table[i] = None
                    THEN fresh ELSE table[i]]
      <3>1. new = [s EXCEPT !.tasks = after]
        BY <2>3, <1>10 DEF PassInventory, Reconciled
      <3>2. fresh \in HotTasks /\ fresh.stage = "open"
        BY <1>2 DEF HotTasks, Stages, StateTyped
      <3> HIDE DEF fresh, merged
      <3>3. after \in [Ids -> HotTasks \cup {None}]
        BY <1>5, <2>1, <2>2, <3>2
      <3>4. \A i \in Ids :
              /\ i \in pass.seen => after[i] = Follows(table[i], pass.remote[i])
              /\ i \notin pass.seen => \/ after[i] = table[i]
                                       \/ i = "commit" /\ ~pass.commit /\ table[i] = None /\ after[i] = fresh
        OBVIOUS
      <3> HIDE DEF after, new
      <3>5. new \in Memories /\ new.tasks = after /\ new.archived = s.archived /\ new.created = s.created
        BY <1>10, <3>1, <3>3 DEF Memories
      <3>6. CommitStage(after["commit"])
        BY <1>11, <2>1, <3>2, <3>4 DEF CommitStage, Ids
      <3>7. \A i \in Ids : table[i] # None => after[i] # None /\ after[i].ver >= table[i].ver
        BY <1>12, <2>1, <2>2, <3>4
      <3>8. \A i \in Ids : table[i] = None /\ after[i] # None => Entry(index, i) = None
        BY <1>1, <1>4, <1>7, <3>4, NoIndexIsNone DEF Hot
      <3>. QED  BY <3>5, <3>6, <3>7, <3>8
    <2>4. CASE pass.funnel
      <3> DEFINE old == s.tasks["issue"]
                 shown == Follows(old, IF old = None THEN "open" ELSE old.stage)
                 bound == Bound(shown)
                 after == [s.tasks EXCEPT !["issue"] = bound]
      <3>1. new = [s EXCEPT !.tasks = after]
        BY <2>4 DEF PassInventory, FunnelReconciled
      <3>0. s.tasks = table /\ old = table["issue"]
        BY <1>10
      <3> HIDE DEF old
      <3>2. (IF old = None THEN "open" ELSE old.stage) \in Stages
        BY <1>12, <3>0 DEF HotTasks, Stages, Ids
      <3>3. shown \in HotTasks /\ (old # None => shown.ver >= old.ver) /\ "issue" \in Ids
        BY <2>2, <3>0, <3>2 DEF Ids
      <3> HIDE DEF shown
      <3>4. bound \in HotTasks /\ bound.ver >= shown.ver /\ shown.ver \in Nat /\ bound # None
        <4>1. /\ shown.held \in BOOLEAN /\ shown.ver \in Nat /\ shown.ver >= shown.ver
              /\ ChangedTask(shown, clock, TRUE, shown.stage) \in HotTasks
              /\ ChangedTask(shown, clock, TRUE, shown.stage).ver >= shown.ver
          BY <1>2, <3>3 DEF HotTasks, ChangedTask, StateTyped
        <4>2. bound \in {shown, ChangedTask(shown, clock, TRUE, shown.stage)}
          BY DEF Bound
        <4> HIDE DEF bound
        <4>. QED  BY <3>3, <4>1, <4>2, NoIndexIsNone
      <3> HIDE DEF bound
      <3>5. after \in [Ids -> HotTasks \cup {None}] /\ after["issue"] = bound
            /\ \A i \in Ids : i # "issue" => after[i] = table[i]
        BY <1>5, <3>0, <3>3, <3>4
      <3> HIDE DEF after, new
      <3>6. new \in Memories /\ new.tasks = after /\ new.archived = s.archived /\ new.created = s.created
        BY <1>10, <3>1, <3>5 DEF Memories
      <3>7. CommitStage(after["commit"])
        BY <1>11, <3>5 DEF Ids
      <3>8. \A i \in Ids : table[i] # None => after[i] # None /\ after[i].ver >= table[i].ver
        <4> SUFFICES ASSUME NEW i \in Ids, table[i] # None PROVE after[i] # None /\ after[i].ver >= table[i].ver
          OBVIOUS
        <4>1. table[i].ver \in Nat /\ bound.ver \in Nat
          BY <1>12, <3>4 DEF HotTasks
        <4>. QED  BY <3>0, <3>3, <3>4, <3>5, <4>1
      <3>9. \A i \in Ids : table[i] = None /\ after[i] # None => Entry(index, i) = None
        BY <1>1, <1>4, <1>7, <2>4, <3>5, NoIndexIsNone DEF Hot
      <3>. QED  BY <3>6, <3>7, <3>8, <3>9
    <2>. QED  BY <1>1, <2>3, <2>4
  <1> HIDE DEF new
  <1>14. \A i \in Ids : Hot(mem, i) => Hot(new, i) /\ new.tasks[i].ver >= mem.tasks[i].ver
    BY <1>1, <1>7, <1>13 DEF Hot
  <1>15. \A i \in CB : /\ ~Hot(mem, i) /\ Entry(index, i) # None
                       /\ Hot(new, i) /\ new.tasks[i].ver >= Entry(index, i).ver
    BY <1>1, <1>7, <1>13 DEF Hot
  <1>16. \A i \in Ids : Hot(mem, i) \/ i \in CB \/ ~Hot(new, i) \/ Entry(index, i) = None
    BY <1>7, <1>13 DEF Hot
  <1>17. Sound(new)
    BY <1>1, <1>2, <1>10, <1>13, <1>14, <1>15, <1>16, SoundBack
  <1>. QED  BY <1>17 DEF new, s, back

LEMMA PassCommitsHolds ==
    ASSUME StateInv, PassCommits
    PROVE  StateInv'
  <1> DEFINE new == PassInventory(RestoreHistory(mem, pass.back))
  <1>1. /\ pass.pc = "commit" /\ UNCHANGED <<remote, clock, index>>
        /\ \/ Saved(new) /\ pass' \in {Idle, [pc |-> "objects"]}
           \/ (NotSynced(new) \/ NotSaved) /\ pass' = Idle
    BY DEF PassCommits
  <1>2. Sound(new)
    BY <1>1, InventoryIs
  <1> HIDE DEF new
  <1>3. /\ StateTyped' /\ StatesSound' /\ ShippedOnly'
        /\ Saved(new) => mem' = new /\ file'.state.kept = {new}
    BY <1>1, <1>2, WriteKeeps DEF StateInv
  <1>4. PassHolds'
    <2>1. CASE pass' = Idle
      BY <2>1 DEF Idle, PassHolds
    <2>2. CASE pass' = [pc |-> "objects"]
      <3>1. pass'.pc = "objects"
        BY <2>2
      <3>2. Saved(new) \/ pass' = Idle
        BY <1>1
      <3>3. Saved(new)
        BY <3>1, <3>2 DEF Idle
      <3>4. \A s \in file'.state.kept : s = mem'
        BY <1>3, <3>3
      <3>. QED  BY <3>1, <3>4 DEF PassHolds, Hot
    <2>. QED  BY <1>1, <2>1, <2>2
  <1>. QED  BY <1>3, <1>4 DEF StateInv

\* Objects only arrive.
LEMMA ObjectsArrive ==
    ASSUME StateTyped, StatesSound, ShippedOnly, UNCHANGED <<remote, clock, mem, index, acked>>,
           NEW objects \in [now : SUBSET (Ids \X HotTasks), safe : SUBSET (Ids \X HotTasks)],
           file' = [file EXCEPT !.objects = objects], file.objects.safe \subseteq objects.safe
    PROVE  /\ StateTyped' /\ StatesSound' /\ ShippedOnly'
           /\ file'.state = file.state /\ file'.index = file.index /\ file'.objects = objects
  <1>1. file' \in Files /\ file'.state = file.state /\ file'.index = file.index /\ file'.objects = objects
    BY DEF StateTyped, Files
  <1>2. ASSUME NEW s \in file.state.kept, NEW x \in file.index.kept, NEW i \in Ids
        PROVE  Recorded(s, x, i)' >= acked'[i]
    <2>1. Recorded(s, x, i) >= acked[i] /\ acked[i] \in Int /\ s \in Memories /\ x \in Archives
      BY DEF StatesSound, Sound, Covers, StateTyped, Files
    <2>2. CASE Hot(s, i)
      BY <2>1, <2>2 DEF Recorded, Hot
    <2>3. CASE ~Hot(s, i) /\ Entry(x, i) = None
      BY <2>1, <2>3 DEF Recorded, Hot
    <2>4. CASE ~Hot(s, i) /\ Entry(x, i) # None
      <3>1. Entry(x, i) \in HotTasks /\ Entry(x, i).ver \in Nat
        BY <2>1, <2>4, EntryIs DEF HotTasks
      <3>2. Recorded(s, x, i) \in {-1, Entry(x, i).ver}
            /\ (Recorded(s, x, i)' = Entry(x, i).ver \/ Recorded(s, x, i)' = Recorded(s, x, i))
        BY <1>1, <2>4 DEF Recorded, Hot
      <3>. QED  BY <2>1, <3>1, <3>2
    <2>. QED  BY <2>2, <2>3, <2>4
  <1>3. StatesSound'
    BY <1>1, <1>2 DEF StatesSound, Sound, IndexesAgree, CountedIn, Covers
  <1>. QED  BY <1>1, <1>3 DEF StateTyped, ShippedOnly

LEMMA ObjectsHold ==
    ASSUME StateInv, ArchiveObjects
    PROVE  StateInv'
  <1> DEFINE S    == IF mem.busy THEN {} ELSE Selected(mem, index)
             objs == {<<i, mem.tasks[i]>> : i \in S}
  <1>1. /\ pass.pc = "objects" /\ UNCHANGED <<remote, clock, mem, index, acked>>
        /\ \/ pass' = Idle /\ UNCHANGED file
           \/ /\ file' = [file EXCEPT !.objects = [now |-> file.objects.now \cup objs,
                                                   safe |-> file.objects.safe \cup objs]]
              /\ pass' = [pc |-> "index", entries |-> [i \in S |-> mem.tasks[i]]]
           \/ /\ pass' = Idle
              /\ \E some \in SUBSET objs :
                    file' = [file EXCEPT !.objects.now = @ \cup some]
    BY DEF ArchiveObjects
  <1>2. /\ StateTyped /\ StatesSound /\ ShippedOnly /\ mem \in Memories
        /\ CommitStage(mem.tasks["commit"])
        /\ file.objects \in [now : SUBSET (Ids \X HotTasks), safe : SUBSET (Ids \X HotTasks)]
        /\ \A s \in file.state.kept : \A i \in Ids : Hot(s, i) <=> Hot(mem, i)
    BY <1>1 DEF StateInv, StateTyped, StatesSound, Sound, PassHolds, Files
  <1>3. S \subseteq Ids /\ \A i \in S : Hot(mem, i) /\ mem.tasks[i].stage \in Terminal
    BY DEF Selected, Candidate
  <1>4. \A i \in S : mem.tasks[i] \in HotTasks
    BY <1>2, <1>3, HotIs
  <1>5. objs \subseteq Ids \X HotTasks /\ \A i \in S : <<i, mem.tasks[i]>> \in objs
    BY <1>3, <1>4
  <1> HIDE DEF S, objs
  <1>6. CASE pass' = Idle /\ UNCHANGED file
    BY <1>1, <1>2, <1>6 DEF Idle, StateInv, StateTyped, StatesSound, Sound, IndexesAgree, CountedIn,
       Covers, ColdOf, Recorded, ShippedOnly, PassHolds
  <1>7. CASE /\ file' = [file EXCEPT !.objects = [now |-> file.objects.now \cup objs,
                                                  safe |-> file.objects.safe \cup objs]]
             /\ pass' = [pc |-> "index", entries |-> [i \in S |-> mem.tasks[i]]]
    <2> DEFINE objects == [now |-> file.objects.now \cup objs, safe |-> file.objects.safe \cup objs]
               entries == [i \in S |-> mem.tasks[i]]
    <2>1. /\ objects \in [now : SUBSET (Ids \X HotTasks), safe : SUBSET (Ids \X HotTasks)]
          /\ file.objects.safe \subseteq objects.safe /\ objs \subseteq objects.safe
      BY <1>2, <1>5
    <2>2. file' = [file EXCEPT !.objects = objects]
      BY <1>7
    <2>3. pass'.pc = "index" /\ pass'.entries = entries
      BY <1>7
    <2>4. DOMAIN entries = S /\ \A i \in S : entries[i] = mem.tasks[i]
      OBVIOUS
    <2> HIDE DEF objects, entries
    <2>5. /\ StateTyped' /\ StatesSound' /\ ShippedOnly'
          /\ file'.state = file.state /\ file'.objects = objects
      BY <1>1, <1>2, <2>1, <2>2, ObjectsArrive
    <2>6. \A i \in DOMAIN entries :
               /\ Hot(mem, i) /\ entries[i] \in HotTasks
               /\ <<i, entries[i]>> \in objects.safe
               /\ i = "commit" => entries[i].stage = "shipped"
      BY <1>2, <1>3, <1>4, <1>5, <2>1, <2>4, NoIndexIsNone DEF CommitStage, Terminal
    <2>7. PassHolds'
      BY <1>1, <1>2, <1>3, <2>3, <2>4, <2>5, <2>6 DEF PassHolds, Hot
    <2>. QED  BY <2>5, <2>7 DEF StateInv
  <1>8. CASE /\ pass' = Idle
             /\ \E some \in SUBSET objs :
                    file' = [file EXCEPT !.objects.now = @ \cup some]
    <2>1. PICK some \in SUBSET objs : file' = [file EXCEPT !.objects.now = @ \cup some]
      BY <1>8
    <2> DEFINE objects == [file.objects EXCEPT !.now = file.objects.now \cup some]
    <2>2. /\ objects \in [now : SUBSET (Ids \X HotTasks), safe : SUBSET (Ids \X HotTasks)]
          /\ file.objects.safe \subseteq objects.safe
      BY <1>2, <1>5
    <2>3. file' = [file EXCEPT !.objects = objects]
      BY <2>1
    <2> HIDE DEF objects
    <2>4. StateTyped' /\ StatesSound' /\ ShippedOnly'
      BY <1>1, <1>2, <2>2, <2>3, ObjectsArrive
    <2>. QED  BY <1>8, <2>4 DEF StateInv, PassHolds, Idle
  <1>. QED  BY <1>1, <1>6, <1>7, <1>8

\* An index that differs only where every state found is hot is as good.
LEMMA IndexArrives ==
    ASSUME StateTyped, StatesSound, ShippedOnly, UNCHANGED <<remote, clock, mem, acked>>,
           NEW new \in Archives, new # NoIndex, index' \in {index, new},
           NEW kept, kept \subseteq file.index.kept \cup {new}, index' \in kept, new \in kept,
           file' = [file EXCEPT !.index = [now |-> new, kept |-> kept]],
           \A s \in file.state.kept : \A i \in Ids : Entry(new, i) = Entry(index, i) \/ Hot(s, i),
           Entry(new, "commit") = None \/ Entry(new, "commit").stage = "shipped"
    PROVE  /\ StateTyped' /\ StatesSound' /\ ShippedOnly'
           /\ file'.state = file.state /\ file'.index.kept = kept /\ file'.objects = file.objects
  <1>1. /\ file' \in Files /\ file'.state = file.state /\ file'.objects = file.objects
        /\ file'.index = [now |-> new, kept |-> kept]
    <2> DEFINE both == [now |-> new, kept |-> kept]
    <2>1. both \in [now : Archives, kept : SUBSET Archives]
      BY DEF StateTyped, Files
    <2> HIDE DEF both
    <2>2. file' = [file EXCEPT !.index = both]
      BY DEF both
    <2>3. file' \in Files /\ file'.state = file.state /\ file'.objects = file.objects
          /\ file'.index = both
      BY <2>1, <2>2 DEF StateTyped, Files
    <2>. QED  BY <2>3 DEF both
  <1>2. file'.index.now = new /\ file'.index.kept = kept
    BY <1>1
  <1>3. StateTyped'
    BY <1>1, <1>2 DEF StateTyped
  <1>4. ASSUME NEW s \in file.state.kept
        PROVE  Sound(s)'
    <2>1. Sound(s) /\ index \in file.index.kept
      BY DEF StatesSound, StateTyped
    <2>2. \A x \in kept : \A i \in Ids : Entry(x, i) = Entry(index, i) \/ Hot(s, i)
      BY <2>1 DEF Sound, IndexesAgree
    <2>3. ASSUME NEW x \in kept
          PROVE  CountedIn(s, x)' /\ Covers(s, x)'
      <3>1. CountedIn(s, index) /\ Covers(s, index) /\ (s.created => x # NoIndex)
        BY <2>1 DEF Sound, CountedIn
      <3>2. ColdOf(s, x) = ColdOf(s, index)
        BY <2>2 DEF ColdOf
      <3>3. \A i \in Ids : Recorded(s, x, i)' = Recorded(s, index, i)
        BY <1>1, <2>2 DEF Recorded
      <3>. QED  BY <3>1, <3>2, <3>3 DEF CountedIn, Covers, ColdOf
    <2>4. IndexesAgree(s)'
      BY <1>2, <2>2 DEF IndexesAgree
    <2>. QED  BY <1>2, <2>1, <2>3, <2>4 DEF Sound
  <1>5. StatesSound'
    BY <1>1, <1>4 DEF StatesSound
  <1>6. ShippedOnly'
    BY <1>2 DEF ShippedOnly
  <1>. QED  BY <1>1, <1>2, <1>3, <1>5, <1>6

LEMMA IndexesHold ==
    ASSUME StateInv, ArchiveIndexes
    PROVE  StateInv'
  <1> DEFINE entries == pass.entries
             new == Extended(index, entries)
  <1>1. /\ pass.pc = "index" /\ UNCHANGED <<remote, clock, mem, acked>>
        /\ \/ /\ file' = [file EXCEPT !.index = Synced(Renamed(@, new))]
              /\ index' = new /\ pass' = [pc |-> "remove", entries |-> pass.entries]
           \/ /\ pass' = Idle /\ UNCHANGED index
              /\ \/ file' = [file EXCEPT !.index = Renamed(@, new)]
                 \/ UNCHANGED file
    BY DEF ArchiveIndexes
  <1>2. /\ StateTyped /\ StatesSound /\ ShippedOnly /\ index \in Archives /\ index \in file.index.kept
        /\ DOMAIN entries \subseteq Ids
        /\ \A i \in DOMAIN entries :
               /\ Hot(mem, i) /\ entries[i] \in HotTasks
               /\ <<i, entries[i]>> \in file.objects.safe
               /\ i = "commit" => entries[i].stage = "shipped"
        /\ \A s \in file.state.kept : \A i \in Ids : Hot(s, i) <=> Hot(mem, i)
        /\ file \in Files
    BY <1>1 DEF StateInv, StateTyped, PassHolds
  <1> HIDE DEF entries
  <1>3. new \in [Ids -> HotTasks \cup {None}]
    BY <1>2, EntryIs DEF Extended
  <1>4. new \in Archives /\ new # NoIndex
    BY <1>3, NoIndexIsNone DEF Archives
  <1>5. \A i \in Ids : Entry(new, i) = new[i]
                       /\ new[i] = IF i \in DOMAIN entries THEN entries[i] ELSE Entry(index, i)
    BY <1>3, <1>4 DEF Extended, Entry
  <1> HIDE DEF new
  <1>6. \A s \in file.state.kept : \A i \in Ids : Entry(new, i) = Entry(index, i) \/ Hot(s, i)
    BY <1>2, <1>5
  <1>7. Entry(new, "commit") = None \/ Entry(new, "commit").stage = "shipped"
    BY <1>2, <1>5 DEF ShippedOnly, Ids
  <1>8. Renamed(file.index, new) = [now |-> new, kept |-> file.index.kept \cup {new}]
        /\ Synced(Renamed(file.index, new)) = [now |-> new, kept |-> {new}]
    BY <1>2 DEF Renamed, Synced, Files
  <1>9. CASE /\ file' = [file EXCEPT !.index = Synced(Renamed(@, new))]
             /\ index' = new /\ pass' = [pc |-> "remove", entries |-> pass.entries]
    <2>1. file' = [file EXCEPT !.index = [now |-> new, kept |-> {new}]]
      BY <1>8, <1>9
    <2>2. /\ StateTyped' /\ StatesSound' /\ ShippedOnly'
          /\ file'.state = file.state /\ file'.index.kept = {new} /\ file'.objects = file.objects
      BY <1>1, <1>2, <1>4, <1>6, <1>7, <1>9, <2>1, IndexArrives
    <2>3. pass'.pc = "remove" /\ pass'.entries = entries
      BY <1>9 DEF entries
    <2>4. PassHolds'
      BY <1>1, <1>2, <1>4, <1>5, <1>9, <2>2, <2>3 DEF PassHolds, Hot
    <2>. QED  BY <2>2, <2>4 DEF StateInv
  <1>10. CASE pass' = Idle /\ UNCHANGED index /\ file' = [file EXCEPT !.index = Renamed(@, new)]
    <2>1. file' = [file EXCEPT !.index = [now |-> new, kept |-> file.index.kept \cup {new}]]
      BY <1>8, <1>10
    <2> DEFINE kept == file.index.kept \cup {new}
    <2>3. /\ kept \subseteq file.index.kept \cup {new} /\ index' \in kept /\ new \in kept
          /\ file' = [file EXCEPT !.index = [now |-> new, kept |-> kept]]
      BY <1>2, <1>10, <2>1
    <2> HIDE DEF kept
    <2>2. StateTyped' /\ StatesSound' /\ ShippedOnly'
      BY <1>1, <1>2, <1>4, <1>6, <1>7, <1>10, <2>3, IndexArrives
    <2>. QED  BY <1>10, <2>2 DEF StateInv, PassHolds, Idle
  <1>11. CASE pass' = Idle /\ UNCHANGED index /\ UNCHANGED file
    BY <1>1, <1>2, <1>11, Unmoved DEF StateInv, PassHolds, Idle
  <1>. QED  BY <1>1, <1>9, <1>10, <1>11

\* What is removed is in the index and in a synced object, as it was.
LEMMA SoundRemoved ==
    ASSUME StateInv, pass.pc = "remove"
    PROVE  Sound(Removed(mem))
  <1> DEFINE left == [i \in Ids |-> IF Removable(mem, i) THEN None ELSE mem.tasks[i]]
             new  == Removed(mem)
  <1>1. /\ StateTyped /\ Sound(mem) /\ mem \in Memories
        /\ file.index.kept = {index} /\ index # NoIndex
        /\ \A i \in DOMAIN pass.entries :
               /\ <<i, pass.entries[i]>> \in file.objects.safe /\ pass.entries[i] \in HotTasks
               /\ index[i] = pass.entries[i]
    BY DEF StateInv, StateTyped, StatesSound, PassHolds
  <1>2. left \in [Ids -> HotTasks \cup {None}]
    BY <1>1 DEF Memories
  <1>3. \A i \in Ids : left[i] = mem.tasks[i] \/ (left[i] = None /\ Removable(mem, i))
    OBVIOUS
  <1>4. ColdIn(left) \subseteq Ids /\ Cardinality(ColdIn(left)) \in Nat
    BY IdsAreFinite, FS_Subset, FS_CardinalityType DEF ColdIn
  <1>5. /\ new \in Memories /\ new.tasks = left /\ new.archived = Cardinality(ColdIn(left))
    <2> DEFINE count == Cardinality(ColdIn(left))
    <2>1. new = [mem EXCEPT !.tasks = left, !.archived = count, !.created = TRUE]
      BY DEF Removed
    <2>2. count \in Int
      BY <1>4
    <2> HIDE DEF left, count, new
    <2>3. new \in Memories /\ new.tasks = left /\ new.archived = count
      BY <1>1, <1>2, <2>1, <2>2 DEF Memories
    <2>. QED  BY <2>3 DEF count
  <1> HIDE DEF left, new
  <1>6. \A i \in Ids : Entry(index, i) = index[i]
    BY <1>1 DEF Entry
  <1>7. CountedIn(new, index)
    <2>1. ColdOf(new, index) = ColdIn(left)
      BY <1>5, <1>6 DEF ColdOf, ColdIn, Hot
    <2>. QED  BY <1>1, <1>5, <2>1 DEF CountedIn
  <1>8. ASSUME NEW i \in Ids
        PROVE  Recorded(new, index, i) >= acked[i]
    <2>1. Recorded(mem, index, i) >= acked[i]
      BY <1>1 DEF Sound, Covers
    <2>2. CASE left[i] = mem.tasks[i]
      BY <1>5, <2>1, <2>2 DEF Recorded, Hot
    <2>3. CASE left[i] = None /\ Removable(mem, i)
      <3>1. /\ i \in DOMAIN pass.entries /\ mem.tasks[i] = pass.entries[i] /\ Hot(mem, i)
            /\ pass.entries[i] # None
        BY <1>1, <2>3, NoIndexIsNone DEF Removable, Candidate
      <3>2. Recorded(mem, index, i) = mem.tasks[i].ver
        BY <3>1 DEF Recorded
      <3>3. Recorded(new, index, i) = index[i].ver
        BY <1>1, <1>5, <1>6, <2>3, <3>1 DEF Recorded, Hot
      <3>. QED  BY <1>1, <2>1, <3>1, <3>2, <3>3
    <2>. QED  BY <1>3, <2>2, <2>3
  <1>9. IndexesAgree(new) /\ CommitStage(new.tasks["commit"])
    BY <1>1, <1>3, <1>5 DEF IndexesAgree, CommitStage, Sound, Ids
  <1>10. Sound(new)
    BY <1>1, <1>5, <1>7, <1>8, <1>9 DEF Sound, Covers
  <1>. QED  BY <1>10 DEF new

LEMMA RemovesHold ==
    ASSUME StateInv, ArchiveRemoves
    PROVE  StateInv'
  <1> DEFINE new == IF mem.busy THEN mem ELSE Removed(mem)
  <1>1. /\ pass.pc = "remove" /\ pass' = Idle /\ UNCHANGED <<remote, clock, index>>
        /\ Saved(new) \/ NotSynced(new) \/ NotSaved
    BY DEF ArchiveRemoves
  <1>2. Sound(mem) /\ StateTyped /\ StatesSound /\ ShippedOnly
    BY DEF StateInv, StateTyped, StatesSound
  <1>3. Sound(new)
    BY <1>1, <1>2, SoundRemoved
  <1> HIDE DEF new
  <1>4. StateTyped' /\ StatesSound' /\ ShippedOnly'
    BY <1>1, <1>2, <1>3, WriteKeeps
  <1>. QED  BY <1>1, <1>4 DEF StateInv, PassHolds, Idle

LEMMA RestartHolds ==
    ASSUME StateInv, Restart
    PROVE  StateInv'
  <1>1. /\ mem' = mem /\ index' = file.index.now /\ pass' = Idle
        /\ UNCHANGED <<remote, clock, acked, file>>
    BY DEF Restart, Opens, StateInv, StateTyped
  <1>. QED
    BY <1>1 DEF Idle, StateInv, StateTyped, Files, StatesSound, Sound, IndexesAgree, CountedIn, Covers,
       ColdOf, Recorded, ShippedOnly, PassHolds

LEMMA PowerLossHolds ==
    ASSUME StateInv, PowerLoss
    PROVE  StateInv'
  <1>1. PICK s \in file.state.kept, x \in file.index.kept,
             some \in SUBSET (file.objects.now \ file.objects.safe) :
          LET o == file.objects.safe \cup some
          IN  /\ Opens(s, x)
              /\ file' = [state |-> [now |-> s, kept |-> {s}],
                          index |-> [now |-> x, kept |-> {x}],
                          objects |-> [now |-> o, safe |-> o]]
    BY DEF PowerLoss
  <1> DEFINE o == file.objects.safe \cup some
  <1>2. /\ mem' = s /\ index' = x /\ pass' = Idle /\ UNCHANGED <<remote, clock, acked>>
        /\ file'.state.now = s /\ file'.state.kept = {s} /\ file'.index.now = x
        /\ file'.index.kept = {x} /\ file'.objects.safe = o
    BY <1>1 DEF Opens
  <1>3. StateTyped /\ Sound(s) /\ s \in Memories /\ x \in Archives /\ file \in Files
    BY DEF StateInv, StateTyped, StatesSound, Files
  <1>4. file' \in Files
    <2>1. o \subseteq Ids \X HotTasks
      BY <1>3 DEF Files
    <2> DEFINE st == [now |-> s, kept |-> {s}]
               ix == [now |-> x, kept |-> {x}]
               ob == [now |-> o, safe |-> o]
    <2>2. /\ st \in [now : Memories, kept : SUBSET Memories]
          /\ ix \in [now : Archives, kept : SUBSET Archives]
          /\ ob \in [now : SUBSET (Ids \X HotTasks), safe : SUBSET (Ids \X HotTasks)]
      BY <1>3, <2>1
    <2>3. file' = [state |-> st, index |-> ix, objects |-> ob]
      BY <1>1
    <2> HIDE DEF st, ix, ob
    <2>. QED  BY <2>2, <2>3 DEF Files
  <1>5. StateTyped'
    BY <1>2, <1>3, <1>4 DEF StateTyped
  <1>6. ASSUME NEW i \in Ids
        PROVE  Recorded(s, x, i)' >= acked[i]
    <2>1. Recorded(s, x, i) >= acked[i] /\ acked[i] \in Int
      BY <1>3 DEF Sound, Covers, StateTyped
    <2>2. CASE Hot(s, i) \/ Entry(x, i) = None
      BY <2>1, <2>2 DEF Recorded
    <2>3. CASE ~Hot(s, i) /\ Entry(x, i) # None
      <3>1. Entry(x, i) \in HotTasks /\ Entry(x, i).ver \in Nat
        BY <1>3, <2>3, EntryIs DEF HotTasks
      <3>2. Recorded(s, x, i) \in {-1, Entry(x, i).ver}
            /\ (Recorded(s, x, i)' = Entry(x, i).ver \/ Recorded(s, x, i)' = Recorded(s, x, i))
        BY <1>2, <2>3 DEF Recorded
      <3>. QED  BY <2>1, <3>1, <3>2
    <2>. QED  BY <2>2, <2>3
  <1>7. StatesSound'
    BY <1>2, <1>3, <1>6 DEF StatesSound, Sound, IndexesAgree, CountedIn, Covers
  <1>8. ShippedOnly'
    BY <1>2 DEF StateInv, ShippedOnly
  <1>. QED  BY <1>2, <1>5, <1>7, <1>8 DEF StateInv, PassHolds, Idle

LEMMA StateInvariant == StateSpec => []StateInv
  <1>1. StateInv /\ [StateNext]_stateVars => StateInv'
    <2>1. CASE UNCHANGED stateVars
      <3>1. UNCHANGED <<remote, clock, mem, index, file, pass, acked>>
        BY <2>1 DEF stateVars
      <3>2. StateInv => StateInv'
        BY <3>1, Unmoved DEF StateInv, PassHolds, Hot
      <3>. QED  BY <3>2
    <2>. QED
      BY <2>1, OutsideHolds, BesideHolds, PrepareHolds, PassCommitsHolds, ObjectsHold, IndexesHold,
         RemovesHold, RestartHolds, PowerLossHolds DEF StateNext
  <1>. QED  BY <1>1, StateStarts, PTL DEF StateSpec

\* Whatever a power loss leaves of the state file and of the archive's index,
\* in whatever step of archiving or restoring it comes, the two agree and
\* Town starts; and what was reported saved is in one of them, in the hot
\* state or in an object that can be read.
THEOREM NothingIsForgotten == StateSpec => []NothingForgotten
  <1>1. StateInv => NothingForgotten
    <2> SUFFICES ASSUME StateInv PROVE NothingForgotten
      OBVIOUS
    <2>1. ASSUME NEW s \in file.state.kept, NEW x \in file.index.kept
          PROVE  Matches(s, x) /\ Covers(s, x)
      <3>1. CountedIn(s, x) /\ Covers(s, x)
        BY DEF StateInv, StatesSound, Sound
      <3>2. x # NoIndex => ColdOf(s, x) = {i \in Ids : x[i] # None /\ s.tasks[i] = None}
        BY DEF ColdOf, Entry, Hot
      <3>. QED  BY <3>1, <3>2 DEF CountedIn, Matches
    <2>2. mem \in file.state.kept /\ index \in file.index.kept
      BY DEF StateInv, StateTyped
    <2>. QED  BY <2>1, <2>2 DEF HistoryMatches, NothingForgotten, ChangesKept, Covers
  <1>. QED  BY <1>1, StateInvariant, PTL

-----------------------------------------------------------------------------
(***************************************************************************)
(* Funnels: what writing a transition back does to the provider.           *)
(***************************************************************************)
SrcRecs   == [rev : Nat, over : BOOLEAN, marks : SUBSET Actions, replies : [Actions -> Nat]]
CallRecs  == [pc : CallPlaces, id : IntentIds, loaded : SUBSET Actions,
              result : IntentStatuses, writable : BOOLEAN]
ItemRecs  == [id : Items, rev : Revs, status : Statuses]
PageHolds ==
    discovery.pc = "commit" =>
        /\ discovery.page.items \subseteq ItemRecs /\ discovery.page.complete \in BOOLEAN
        /\ discovery.at = "slack" /\ discovery.page.outcome = "complete" =>
             \A i \in Slack : \E o \in discovery.page.items : o.id = i

\* A call that has not written yet may still make one revision.
Unwritten == {c \in Callers : caller[c].pc \in {"save", "apply", "load", "put"}}
FunnelTyped ==
    /\ src \in [Items -> SrcRecs] /\ tasks \in [Items -> FunnelTasks]
    /\ DOMAIN sync = Sources /\ intents \in [IntentIds -> IntentStatuses]
    /\ caller \in [Callers -> CallRecs \cup {NoCall}]
    /\ puts \in [IntentIds -> Nat]
    /\ requests \in 0..MaxRequests /\ edits \in 0..MaxEdits
RevsBounded == \A i \in Items : src[i].rev + Cardinality(Unwritten) <= edits + requests

\* Of the calls with one intent, one at most is on its way to the provider, and
\* the intent is saved and not applied yet.
Writing(c) == caller[c].pc \in {"apply", "load", "put"}
IntentsHold ==
    /\ \A c \in Callers : Writing(c) =>
         puts[caller[c].id] = 0 /\ intents[caller[c].id] # "none"
    /\ \A c \in Callers, e \in Callers :
         Writing(c) /\ Writing(e) /\ caller[c].id = caller[e].id => c = e
    /\ \A c \in Callers : caller[c].pc = "settle" => caller[c].result # "none"
    /\ \A d \in IntentIds : puts[d] <= 1 /\ (intents[d] = "none" => puts[d] = 0)

\* Who added the reaction of an action replies, and only to the one it added.
Replying(c, i, a) == caller[c].pc = "reply" /\ caller[c].id[1] = i /\ caller[c].id[2] = a
RepliesHold ==
    \A i \in Slack, a \in Actions :
        /\ src[i].replies[a] <= 1
        /\ a \notin src[i].marks => src[i].replies[a] = 0
        /\ \A c \in Callers : Replying(c, i, a) => a \in src[i].marks /\ src[i].replies[a] = 0
        /\ \A c \in Callers, e \in Callers : Replying(c, i, a) /\ Replying(e, i, a) => c = e
SlackReplies == \A c \in Callers : caller[c].pc = "reply" => caller[c].id[1] \in Slack
FunnelInv == FunnelTyped /\ RevsBounded /\ IntentsHold /\ RepliesHold /\ SlackReplies
             /\ PageHolds /\ CoveredIsKnown

LEMMA CallsAre ==
    ASSUME FunnelTyped, NEW c \in Callers
    PROVE  /\ caller[c].pc = "idle" <=> caller[c] = NoCall
           /\ caller[c].pc # "idle" => caller[c] \in CallRecs
           /\ caller[c].pc \in CallPlaces \cup {"idle"}
  BY DEF FunnelTyped, CallRecs, NoCall, CallPlaces

LEMMA IdsAre ==
    ASSUME NEW d \in IntentIds
    PROVE  d = <<d[1], d[2], d[3]>> /\ d[1] \in Items /\ d[2] \in Actions /\ d[3] \in Revs
  BY DEF IntentIds

LEMMA GoesDoes ==
    ASSUME FunnelTyped, NEW c \in Callers, caller[c].pc # "idle", NEW pc \in CallPlaces, Goes(c, pc)
    PROVE  /\ caller' \in [Callers -> CallRecs \cup {NoCall}]
           /\ caller'[c].pc = pc /\ caller'[c].id = caller[c].id
           /\ caller'[c].result = caller[c].result
           /\ \A e \in Callers : e # c => caller'[e] = caller[e]
  <1> DEFINE new == [caller[c] EXCEPT !.pc = pc]
  <1>1. caller[c] \in CallRecs
    BY CallsAre
  <1>2. new \in CallRecs /\ new.pc = pc /\ new.id = caller[c].id /\ new.result = caller[c].result
    BY <1>1 DEF CallRecs
  <1>3. caller' = [caller EXCEPT ![c] = new]
    BY DEF Goes
  <1> HIDE DEF new
  <1>. QED  BY <1>2, <1>3 DEF FunnelTyped

LEMMA SettlesDoes ==
    ASSUME FunnelTyped, NEW c \in Callers, caller[c].pc # "idle", NEW result \in IntentStatuses,
           Settles(c, result)
    PROVE  /\ caller' \in [Callers -> CallRecs \cup {NoCall}]
           /\ caller'[c].pc = "settle" /\ caller'[c].id = caller[c].id
           /\ caller'[c].result = result
           /\ \A e \in Callers : e # c => caller'[e] = caller[e]
  <1> DEFINE new == [caller[c] EXCEPT !.pc = "settle", !.result = result]
  <1>1. caller[c] \in CallRecs
    BY CallsAre
  <1>2. new \in CallRecs /\ new.pc = "settle" /\ new.id = caller[c].id /\ new.result = result
    BY <1>1 DEF CallRecs, CallPlaces
  <1>3. caller' = [caller EXCEPT ![c] = new]
    BY DEF Settles
  <1> HIDE DEF new
  <1>. QED  BY <1>2, <1>3 DEF FunnelTyped

LEMMA MarkedIs ==
    ASSUME FunnelTyped, NEW i \in Items, NEW marks \in SUBSET Actions
    PROVE  /\ Marked(i, marks) \in SrcRecs /\ Marked(i, marks).marks = marks
           /\ Marked(i, marks).replies = src[i].replies
           /\ Marked(i, marks).rev <= src[i].rev + 1
  <1> DEFINE new == [rev |-> src[i].rev + 1, over |-> src[i].over, marks |-> marks,
                     replies |-> src[i].replies]
  <1>1. src[i] \in SrcRecs
    BY DEF FunnelTyped
  <1>2. /\ new \in SrcRecs /\ new.marks = marks /\ new.replies = src[i].replies
        /\ new.rev = src[i].rev + 1 /\ src[i].rev \in Nat
    BY <1>1 DEF SrcRecs
  <1>3. Marked(i, marks) = IF marks = src[i].marks THEN src[i] ELSE new
    BY DEF Marked
  <1> HIDE DEF new
  <1>. QED  BY <1>1, <1>2, <1>3

LEMMA OneMore ==
    ASSUME NEW S, NEW x, IsFiniteSet(S)
    PROVE  IsFiniteSet(S \cup {x}) /\ Cardinality(S \cup {x}) <= Cardinality(S) + 1
  BY FS_CardinalityType, FS_AddElement

LEMMA BeforeIsFinite ==
    ASSUME FunnelConstants
    PROVE  /\ \A S \in SUBSET Callers : IsFiniteSet(S) /\ Cardinality(S) \in Nat
           /\ Unwritten \subseteq Callers /\ Unwritten' \subseteq Callers
  BY FS_Subset, FS_CardinalityType DEF FunnelConstants, Unwritten

\* One call enters the calls before their write, leaves them, or stays.
LEMMA BeforeMoves ==
    ASSUME FunnelConstants, NEW c \in Callers, \A e \in Callers : e # c => caller'[e] = caller[e]
    PROVE  /\ Cardinality(Unwritten) \in Nat /\ Cardinality(Unwritten') \in Nat
           /\ (c \in Unwritten' => c \in Unwritten) => Cardinality(Unwritten') <= Cardinality(Unwritten)
           /\ c \in Unwritten /\ c \notin Unwritten' => Cardinality(Unwritten') = Cardinality(Unwritten) - 1
           /\ Cardinality(Unwritten') <= Cardinality(Unwritten) + 1
  <1>1. Cardinality(Unwritten) \in Nat /\ Cardinality(Unwritten') \in Nat
        /\ IsFiniteSet(Unwritten) /\ IsFiniteSet(Unwritten') /\ Unwritten \subseteq Callers
        /\ Unwritten' \subseteq Callers
    BY BeforeIsFinite
  <1>2. \A e \in Callers : e # c => (e \in Unwritten' <=> e \in Unwritten)
    BY DEF Unwritten
  <1>3. Unwritten' \subseteq Unwritten \cup {c}
    BY <1>1, <1>2
  <1>4. Cardinality(Unwritten') <= Cardinality(Unwritten) + 1
    <2>1. IsFiniteSet(Unwritten \cup {c})
          /\ Cardinality(Unwritten \cup {c}) <= Cardinality(Unwritten) + 1
      BY <1>1, OneMore
    <2>2. Cardinality(Unwritten') <= Cardinality(Unwritten \cup {c})
          /\ Cardinality(Unwritten \cup {c}) \in Nat
      BY <1>3, <2>1, FS_Subset, FS_CardinalityType
    <2>. QED  BY <1>1, <2>1, <2>2
  <1>5. ASSUME c \in Unwritten' => c \in Unwritten
        PROVE  Cardinality(Unwritten') <= Cardinality(Unwritten)
    <2>1. Unwritten' \subseteq Unwritten
      BY <1>1, <1>2, <1>5
    <2>. QED  BY <1>1, <2>1, FS_Subset
  <1>6. ASSUME c \in Unwritten, c \notin Unwritten'
        PROVE  Cardinality(Unwritten') = Cardinality(Unwritten) - 1
    <2>1. Unwritten' = Unwritten \ {c}
      BY <1>1, <1>2, <1>6
    <2>. QED  BY <1>1, <1>6, <2>1, FS_RemoveElement
  <1>. QED  BY <1>1, <1>4, <1>5, <1>6

\* A call goes on, or ends, without a write at the provider.
LEMMA MovesHold ==
    ASSUME FunnelConstants, FunnelInv, NEW c \in Callers, UNCHANGED <<src, tasks, sync, discovery, requests, edits, puts>>,
           caller' \in [Callers -> CallRecs \cup {NoCall}],
           \A e \in Callers : e # c => caller'[e] = caller[e],
           caller'[c] = NoCall \/ caller'[c].id = caller[c].id,
           caller'[c].pc # "reply",
           caller'[c].pc = "settle" => caller'[c].result # "none",
           c \in Unwritten' => c \in Unwritten,
           intents' \in [IntentIds -> IntentStatuses],
           \A d \in IntentIds : intents[d] # "none" => intents'[d] # "none",
           caller'[c].pc \in {"apply", "load", "put"} =>
              Writing(c) \/ (intents[caller[c].id] = "none" /\ intents'[caller[c].id] # "none"
                             /\ caller[c].id \in IntentIds)
    PROVE  FunnelInv'
  <1>1. FunnelTyped'
    BY DEF FunnelInv, FunnelTyped
  <1>2. RevsBounded'
    <2>1. Cardinality(Unwritten') <= Cardinality(Unwritten)
          /\ Cardinality(Unwritten) \in Nat /\ Cardinality(Unwritten') \in Nat
      BY BeforeMoves
    <2>. QED  BY <2>1 DEF FunnelInv, RevsBounded, FunnelTyped, SrcRecs
  <1>3. NoCall.pc = "idle"
    BY DEF NoCall
  <1>4. IntentsHold'
    <2>1. \A e \in Callers : Writing(e) => caller[e].id \in IntentIds
      BY CallsAre DEF FunnelInv, Writing, CallRecs
    <2>2. ASSUME NEW e \in Callers, Writing(e)'
          PROVE  puts'[caller'[e].id] = 0 /\ intents'[caller'[e].id] # "none"
      BY <1>3, <2>1, <2>2 DEF FunnelInv, IntentsHold, Writing
    <2>3. ASSUME NEW e \in Callers, NEW f \in Callers, Writing(e)', Writing(f)',
                 caller'[e].id = caller'[f].id
          PROVE  e = f
      BY <1>3, <2>1, <2>3 DEF FunnelInv, IntentsHold, Writing
    <2>4. \A e \in Callers : caller'[e].pc = "settle" => caller'[e].result # "none"
      BY DEF FunnelInv, IntentsHold
    <2>5. \A d \in IntentIds : puts'[d] <= 1 /\ (intents'[d] = "none" => puts'[d] = 0)
      BY DEF FunnelInv, IntentsHold
    <2>. QED  BY <2>2, <2>3, <2>4, <2>5 DEF IntentsHold
  <1>5. \A e \in Callers : caller'[e].pc = "reply" => caller'[e] = caller[e]
    OBVIOUS
  <1>6. RepliesHold'
    <2>1. \A e \in Callers : \A i, a : Replying(e, i, a)' => Replying(e, i, a)
      BY <1>5 DEF Replying
    <2>. QED  BY <2>1 DEF FunnelInv, RepliesHold
  <1>7. SlackReplies'
    BY <1>5 DEF FunnelInv, SlackReplies
  <1>8. PageHolds' /\ CoveredIsKnown'
    BY DEF FunnelInv, PageHolds, CoveredIsKnown
  <1>. QED  BY <1>1, <1>2, <1>4, <1>6, <1>7, <1>8 DEF FunnelInv

\* The calls that do not write.
LEMMA QuietCallsHold ==
    ASSUME FunnelConstants, FunnelInv, NEW c \in Callers,
           \/ SavesIntent(c) \/ Applies(c) \/ LoadsLabels(c) \/ ConfirmsLabels(c)
           \/ SettlesIntent(c) \/ Reconciles(c)
    PROVE  FunnelInv'
  <1>1. FunnelTyped /\ caller[c].pc # "idle" /\ caller[c] \in CallRecs
    <2>1. FunnelTyped /\ caller[c].pc # "idle"
      BY DEF FunnelInv, SavesIntent, Applies, LoadsLabels, ConfirmsLabels, SettlesIntent, Reconciles
    <2>. QED  BY <2>1, CallsAre
  <1>2. UNCHANGED <<src, tasks, sync, discovery, requests, edits, puts>>
    BY DEF SavesIntent, Applies, LoadsLabels, ConfirmsLabels, SettlesIntent, Reconciles, callOnly
  <1>3. caller[c].id \in IntentIds /\ intents \in [IntentIds -> IntentStatuses]
    BY <1>1 DEF CallRecs, FunnelTyped
  <1>4. \A pc : c \in Unwritten <=> caller[c].pc \in {"save", "apply", "load", "put"}
    BY DEF Unwritten
  <1>5. (c \in Unwritten') <=> caller'[c].pc \in {"save", "apply", "load", "put"}
    BY DEF Unwritten
  <1>6. NoCall.pc = "idle"
    BY DEF NoCall
  <1>7. CASE caller' = [caller EXCEPT ![c] = NoCall]
    <2>1. /\ caller' \in [Callers -> CallRecs \cup {NoCall}] /\ caller'[c] = NoCall
          /\ \A e \in Callers : e # c => caller'[e] = caller[e]
      BY <1>1, <1>7 DEF FunnelTyped
    <2>2. /\ intents' \in [IntentIds -> IntentStatuses]
          /\ \A d \in IntentIds : intents[d] # "none" => intents'[d] # "none"
      <3>1. CASE intents' = intents
        BY <1>3, <3>1
      <3>2. CASE intents' = [intents EXCEPT ![caller[c].id] = caller[c].result] /\ caller[c].pc = "settle"
        <4>1. caller[c].result \in IntentStatuses /\ caller[c].result # "none"
          BY <1>1, <3>2 DEF CallRecs, FunnelInv, IntentsHold
        <4>. QED  BY <1>3, <3>2, <4>1
      <3>3. CASE intents' = [intents EXCEPT ![caller[c].id] = "pending"]
        BY <1>3, <3>3 DEF IntentStatuses
      <3>. QED
        BY <3>1, <3>2, <3>3
           DEF SavesIntent, Applies, LoadsLabels, ConfirmsLabels, SettlesIntent, Reconciles
    <2>. QED  BY <1>2, <1>4, <1>5, <1>6, <2>1, <2>2, MovesHold
  <1>8. CASE \E result \in {"confirmed", "uncertain", "rejected"} :
                Settles(c, result) /\ intents' = intents
    <2>1. PICK result \in {"confirmed", "uncertain", "rejected"} :
                Settles(c, result) /\ intents' = intents
      BY <1>8
    <2>2. result \in IntentStatuses /\ result # "none"
      BY DEF IntentStatuses
    <2>3. /\ caller' \in [Callers -> CallRecs \cup {NoCall}]
          /\ caller'[c].pc = "settle" /\ caller'[c].id = caller[c].id
          /\ caller'[c].result = result
          /\ \A e \in Callers : e # c => caller'[e] = caller[e]
      BY <1>1, <2>1, <2>2, SettlesDoes
    <2>. QED  BY <1>2, <1>3, <1>4, <1>5, <2>1, <2>2, <2>3, MovesHold
  <1>9. CASE \E pc \in {"load", "put"} : Goes(c, pc) /\ intents' = intents /\ caller[c].pc = "apply"
    <2>1. PICK pc \in {"load", "put"} : Goes(c, pc) /\ intents' = intents /\ caller[c].pc = "apply"
      BY <1>9
    <2>2. pc \in CallPlaces
      BY DEF CallPlaces
    <2>3. /\ caller' \in [Callers -> CallRecs \cup {NoCall}]
          /\ caller'[c].pc = pc /\ caller'[c].id = caller[c].id
          /\ \A e \in Callers : e # c => caller'[e] = caller[e]
      BY <1>1, <2>1, <2>2, GoesDoes
    <2>4. Writing(c)
      BY <2>1 DEF Writing
    <2>. QED  BY <1>2, <1>3, <1>4, <1>5, <2>1, <2>3, <2>4, MovesHold
  <1>10. CASE SavesIntent(c) /\ Goes(c, "apply")
    <2>1. /\ intents[caller[c].id] = "none" /\ caller[c].pc = "save"
          /\ intents' = [intents EXCEPT ![caller[c].id] = "pending"]
      <3>1. caller[c].pc = "save" /\ caller' # [caller EXCEPT ![c] = NoCall]
        <4>1. "apply" \in CallPlaces
          BY DEF CallPlaces
        <4>2. caller'[c].pc = "apply"
          BY <1>1, <1>10, <4>1, GoesDoes
        <4>. QED  BY <1>1, <1>6, <1>10, <4>2 DEF SavesIntent, FunnelTyped
      <3>. QED  BY <1>10, <3>1 DEF SavesIntent, MaySave
    <2>2. /\ intents' \in [IntentIds -> IntentStatuses] /\ intents'[caller[c].id] # "none"
          /\ \A d \in IntentIds : intents[d] # "none" => intents'[d] # "none"
      BY <1>3, <2>1 DEF IntentStatuses
    <2>3. /\ caller' \in [Callers -> CallRecs \cup {NoCall}]
          /\ caller'[c].pc = "apply" /\ caller'[c].id = caller[c].id
          /\ \A e \in Callers : e # c => caller'[e] = caller[e]
      <3>1. "apply" \in CallPlaces
        BY DEF CallPlaces
      <3>. QED  BY <1>1, <1>10, <3>1, GoesDoes
    <2>. QED  BY <1>2, <1>3, <1>4, <1>5, <2>1, <2>2, <2>3, MovesHold
  <1>11. CASE LoadsLabels(c) /\ caller' = [caller EXCEPT ![c].pc = "put",
                                                ![c].loaded = src[caller[c].id[1]].marks]
    <2> DEFINE new == [caller[c] EXCEPT !.pc = "put", !.loaded = src[caller[c].id[1]].marks]
    <2>1. src[caller[c].id[1]].marks \in SUBSET Actions
      BY <1>1, <1>3, IdsAre DEF FunnelTyped, SrcRecs
    <2>2. new \in CallRecs /\ new.pc = "put" /\ new.id = caller[c].id
      BY <1>1, <2>1 DEF CallRecs, CallPlaces
    <2>3. caller' = [caller EXCEPT ![c] = new]
      BY <1>11
    <2> HIDE DEF new
    <2>4. /\ caller' \in [Callers -> CallRecs \cup {NoCall}] /\ caller'[c] = new
          /\ \A e \in Callers : e # c => caller'[e] = caller[e]
      BY <1>1, <2>2, <2>3 DEF FunnelTyped
    <2>5. Writing(c) /\ intents' = intents /\ c \in Unwritten
      BY <1>4, <1>11 DEF Writing, LoadsLabels
    <2>6. caller'[c].pc = "put" /\ caller'[c].id = caller[c].id
      BY <2>2, <2>4
    <2>. QED  BY <1>2, <1>3, <2>4, <2>5, <2>6, MovesHold
  <1>. QED
    <2>1. CASE SavesIntent(c)
      BY <2>1, <1>7, <1>10 DEF SavesIntent
    <2>2. CASE Applies(c)
      BY <2>2, <1>8, <1>9 DEF Applies
    <2>3. CASE LoadsLabels(c)
      BY <2>3, <1>8, <1>11 DEF LoadsLabels
    <2>4. CASE ConfirmsLabels(c)
      BY <2>4, <1>8 DEF ConfirmsLabels
    <2>5. CASE SettlesIntent(c)
      BY <2>5, <1>7 DEF SettlesIntent
    <2>6. CASE Reconciles(c)
      BY <2>6, <1>8 DEF Reconciles
    <2>. QED  BY <2>1, <2>2, <2>3, <2>4, <2>5, <2>6

\* A call that begins: to write, or only to look.
LEMMA BeginsHold ==
    ASSUME FunnelConstants, FunnelInv, NEW c \in Callers, Request(c) \/ Probe(c)
    PROVE  FunnelInv'
  <1>1. /\ caller[c] = NoCall /\ requests < MaxRequests /\ requests' = requests + 1
        /\ UNCHANGED <<src, tasks, sync, intents, discovery, edits, puts>>
    BY DEF Request, Probe, durable
  <1>2. PICK d \in IntentIds, pc \in {"save", "probe"}, w \in BOOLEAN :
           caller' = [caller EXCEPT ![c] =
              [pc |-> pc, id |-> d, loaded |-> {}, result |-> "none", writable |-> w]]
    <2>1. CASE Request(c)
      <3>1. PICK i \in Items : \E a \in tasks[i].caps :
               caller' = [caller EXCEPT ![c] =
                  [pc |-> "save", id |-> <<i, a, tasks[i].rev>>, loaded |-> {}, result |-> "none",
                   writable |-> SourceOf(i) \in writable]]
        BY <2>1 DEF Request
      <3>2. PICK a \in tasks[i].caps :
               caller' = [caller EXCEPT ![c] =
                  [pc |-> "save", id |-> <<i, a, tasks[i].rev>>, loaded |-> {}, result |-> "none",
                   writable |-> SourceOf(i) \in writable]]
        BY <3>1
      <3>3. <<i, a, tasks[i].rev>> \in IntentIds
        BY DEF FunnelInv, FunnelTyped, FunnelTasks, IntentIds
      <3>4. (SourceOf(i) \in writable) \in BOOLEAN
        OBVIOUS
      <3> DEFINE sd == <<i, a, tasks[i].rev>>
                 sw == SourceOf(i) \in writable
      <3>5. /\ sd \in IntentIds /\ sw \in BOOLEAN
            /\ caller' = [caller EXCEPT ![c] =
                  [pc |-> "save", id |-> sd, loaded |-> {}, result |-> "none", writable |-> sw]]
        BY <3>2, <3>3, <3>4, Zenon
      <3> HIDE DEF sd, sw
      <3>. QED  BY <3>5
    <2>2. CASE Probe(c)
      BY <2>2 DEF Probe
    <2>. QED  BY <2>1, <2>2
  <1> DEFINE new == [pc |-> pc, id |-> d, loaded |-> {}, result |-> "none", writable |-> w]
  <1>3. new \in CallRecs /\ new.pc = pc /\ new.id = d
    BY DEF CallRecs, CallPlaces, IntentStatuses
  <1>4. caller' = [caller EXCEPT ![c] = new]
    BY <1>2
  <1> HIDE DEF new
  <1>5. /\ caller' \in [Callers -> CallRecs \cup {NoCall}] /\ caller'[c] = new
        /\ \A e \in Callers : e # c => caller'[e] = caller[e]
    BY <1>3, <1>4 DEF FunnelInv, FunnelTyped
  <1>6. caller'[c].pc \in {"save", "probe"}
    BY <1>3, <1>5
  <1>7. FunnelTyped'
    BY <1>1, <1>5 DEF FunnelInv, FunnelTyped, FunnelConstants
  <1>8. RevsBounded'
    <2>1. Cardinality(Unwritten') <= Cardinality(Unwritten) + 1
          /\ Cardinality(Unwritten) \in Nat /\ Cardinality(Unwritten') \in Nat
      BY <1>5, BeforeMoves
    <2>. QED  BY <1>1, <2>1 DEF FunnelInv, RevsBounded, FunnelTyped, SrcRecs
  <1>9. IntentsHold'
    <2>1. \A e \in Callers : Writing(e)' => e # c
      BY <1>6 DEF Writing
    <2>. QED  BY <1>1, <1>5, <1>6, <2>1 DEF FunnelInv, IntentsHold, Writing
  <1>10. \A e \in Callers : caller'[e].pc = "reply" => caller'[e] = caller[e]
    BY <1>5, <1>6
  <1>11. RepliesHold'
    <2>1. \A e \in Callers : \A i, a : Replying(e, i, a)' => Replying(e, i, a)
      BY <1>10 DEF Replying
    <2>. QED  BY <1>1, <2>1 DEF FunnelInv, RepliesHold
  <1>12. SlackReplies' /\ PageHolds' /\ CoveredIsKnown'
    BY <1>1, <1>10 DEF FunnelInv, SlackReplies, PageHolds, CoveredIsKnown
  <1>. QED  BY <1>7, <1>8, <1>9, <1>11, <1>12 DEF FunnelInv

\* A call that wrote has left the calls before their write, so that the new
\* revision is within the bound, and its intent is applied for good.
LEMMA WritesHold ==
    ASSUME FunnelConstants, FunnelInv, NEW c \in Callers, Writing(c),
           UNCHANGED <<tasks, sync, intents, discovery, requests, edits>>,
           caller' \in [Callers -> CallRecs \cup {NoCall}],
           \A e \in Callers : e # c => caller'[e] = caller[e],
           caller'[c].pc \in {"confirm", "settle", "reply"}, caller'[c].id = caller[c].id,
           caller'[c].pc = "settle" => caller'[c].result # "none",
           src' \in [Items -> SrcRecs],
           \A i \in Items : src'[i].rev <= src[i].rev + 1,
           puts' = puts \/ puts' = [puts EXCEPT ![caller[c].id] = @ + 1],
           RepliesHold', SlackReplies'
    PROVE  FunnelInv'
  <1>1. caller[c].id \in IntentIds
    BY CallsAre DEF FunnelInv, Writing, CallRecs
  <1>2. puts' \in [IntentIds -> Nat] /\ \A d \in IntentIds : d # caller[c].id => puts'[d] = puts[d]
    BY <1>1 DEF FunnelInv, FunnelTyped
  <1>3. puts'[caller[c].id] <= 1
    BY <1>1 DEF FunnelInv, FunnelTyped, IntentsHold
  <1>4. FunnelTyped'
    BY <1>2 DEF FunnelInv, FunnelTyped
  <1>5. RevsBounded'
    <2>1. c \in Unwritten /\ c \notin Unwritten'
      BY DEF Unwritten, Writing
    <2>2. Cardinality(Unwritten') = Cardinality(Unwritten) - 1
          /\ Cardinality(Unwritten) \in Nat /\ Cardinality(Unwritten') \in Nat
      BY <2>1, BeforeMoves
    <2>. QED  BY <2>2 DEF FunnelInv, RevsBounded, FunnelTyped, SrcRecs
  <1>6. IntentsHold'
    <2>1. \A e \in Callers : Writing(e)' => e # c /\ Writing(e) /\ caller'[e] = caller[e]
      BY DEF Writing
    <2>2. \A e \in Callers : Writing(e) => caller[e].id \in IntentIds
      BY CallsAre DEF FunnelInv, Writing, CallRecs
    <2>3. \A e \in Callers : Writing(e)' =>
             puts'[caller'[e].id] = 0 /\ intents'[caller'[e].id] # "none"
      BY <1>2, <2>1, <2>2 DEF FunnelInv, IntentsHold
    <2>4. \A e \in Callers, f \in Callers :
             Writing(e)' /\ Writing(f)' /\ caller'[e].id = caller'[f].id => e = f
      BY <2>1 DEF FunnelInv, IntentsHold
    <2>5. \A e \in Callers : caller'[e].pc = "settle" => caller'[e].result # "none"
      BY DEF FunnelInv, IntentsHold
    <2>6. \A d \in IntentIds : puts'[d] <= 1 /\ (intents'[d] = "none" => puts'[d] = 0)
      BY <1>2, <1>3 DEF FunnelInv, IntentsHold
    <2>. QED  BY <2>3, <2>4, <2>5, <2>6 DEF IntentsHold
  <1>7. PageHolds' /\ CoveredIsKnown'
    BY DEF FunnelInv, PageHolds, CoveredIsKnown
  <1>. QED  BY <1>4, <1>5, <1>6, <1>7 DEF FunnelInv

LEMMA PutsLabelsHolds ==
    ASSUME FunnelConstants, FunnelInv, NEW c \in Callers, PutsLabels(c)
    PROVE  FunnelInv'
  <1> DEFINE i == caller[c].id[1]
             a == caller[c].id[2]
             marks == LabelsAfter(caller[c].loaded, a)
             labelled == Marked(i, marks)
  <1>1. FunnelTyped /\ caller[c].pc = "put" /\ caller[c] \in CallRecs /\ i \in GitHub
    <2>1. FunnelTyped /\ caller[c].pc = "put" /\ i \in GitHub
      BY DEF FunnelInv, PutsLabels
    <2>. QED  BY <2>1, CallsAre
  <1>2. caller[c].id \in IntentIds /\ i \in Items /\ i \notin Slack /\ a \in Actions
    BY <1>1, IdsAre DEF CallRecs, FunnelConstants
  <1>3. marks \in SUBSET Actions
    BY <1>1, <1>2 DEF CallRecs, LabelsAfter
  <1>4. labelled \in SrcRecs /\ labelled.rev <= src[i].rev + 1
    BY <1>1, <1>2, <1>3, MarkedIs
  <1>5. UNCHANGED <<tasks, sync, intents, discovery, requests, edits>>
    BY DEF PutsLabels, callOnly
  <1>6. src' = src \/ src' = [src EXCEPT ![i] = labelled]
    BY DEF PutsLabels
  <1>7. puts' = puts \/ puts' = [puts EXCEPT ![caller[c].id] = @ + 1]
    BY DEF PutsLabels
  <1>8. Goes(c, "confirm") \/ Settles(c, "uncertain")
    BY DEF PutsLabels
  <1> HIDE DEF labelled, marks
  <1>9. /\ src' \in [Items -> SrcRecs]
        /\ \A j \in Items : src'[j].rev <= src[j].rev + 1
        /\ \A j \in Slack : src'[j] = src[j]
    <2>1. \A j \in Items : src[j].rev \in Nat
      BY <1>1 DEF FunnelTyped, SrcRecs
    <2>2. \A j \in Slack : j \in Items /\ j # i
      BY <1>2 DEF Items
    <2>3. CASE src' = src
      BY <1>1, <2>1, <2>3 DEF FunnelTyped
    <2>4. CASE src' = [src EXCEPT ![i] = labelled]
      BY <1>1, <1>2, <1>4, <2>1, <2>2, <2>4 DEF FunnelTyped
    <2>. QED  BY <1>6, <2>3, <2>4
  <1>10. /\ caller' \in [Callers -> CallRecs \cup {NoCall}]
         /\ caller'[c].pc \in {"confirm", "settle"} /\ caller'[c].id = caller[c].id
         /\ caller'[c].pc = "settle" => caller'[c].result # "none"
         /\ \A e \in Callers : e # c => caller'[e] = caller[e]
    <2>1. CASE Goes(c, "confirm")
      <3>1. "confirm" \in CallPlaces
        BY DEF CallPlaces
      <3>. QED  BY <1>1, <2>1, <3>1, GoesDoes
    <2>2. CASE Settles(c, "uncertain")
      <3>1. "uncertain" \in IntentStatuses
        BY DEF IntentStatuses
      <3>2. /\ caller' \in [Callers -> CallRecs \cup {NoCall}]
            /\ caller'[c].pc = "settle" /\ caller'[c].id = caller[c].id
            /\ caller'[c].result = "uncertain"
            /\ \A e \in Callers : e # c => caller'[e] = caller[e]
        BY <1>1, <2>2, <3>1, SettlesDoes
      <3>. QED  BY <3>2
    <2>. QED  BY <1>8, <2>1, <2>2
  <1>11. Writing(c)
    BY <1>1 DEF Writing
  <1>12. \A e \in Callers : caller'[e].pc = "reply" => caller'[e] = caller[e]
    BY <1>10
  <1>13. RepliesHold' /\ SlackReplies'
    <2>1. \A e \in Callers : \A j, b : Replying(e, j, b)' => Replying(e, j, b)
      BY <1>12 DEF Replying
    <2>2. RepliesHold'
      BY <1>9, <2>1 DEF FunnelInv, RepliesHold
    <2>. QED  BY <1>12, <2>2 DEF FunnelInv, SlackReplies
  <1>. QED  BY <1>5, <1>7, <1>9, <1>10, <1>11, <1>13, WritesHold

\* The reaction is added where it was missing, and then its call replies.
LEMMA ReactsHolds ==
    ASSUME FunnelConstants, FunnelInv, NEW c \in Callers, Reacts(c)
    PROVE  FunnelInv'
  <1> DEFINE i == caller[c].id[1]
             a == caller[c].id[2]
             marks == src[i].marks \cup {a}
             reacted == Marked(i, marks)
             after == AfterReaction(c, a \notin src[i].marks)
  <1>1. FunnelTyped /\ caller[c].pc = "put" /\ caller[c] \in CallRecs /\ i \in Slack
    <2>1. FunnelTyped /\ caller[c].pc = "put" /\ i \in Slack
      BY DEF FunnelInv, Reacts
    <2>. QED  BY <2>1, CallsAre
  <1>2. caller[c].id \in IntentIds /\ i \in Items /\ a \in Actions
    BY <1>1, IdsAre DEF CallRecs
  <1>3. src[i] \in SrcRecs /\ marks \in SUBSET Actions
    BY <1>1, <1>2 DEF FunnelTyped, SrcRecs
  <1>4. /\ reacted \in SrcRecs /\ reacted.rev <= src[i].rev + 1
        /\ reacted.marks = marks /\ reacted.replies = src[i].replies
    BY <1>1, <1>2, <1>3, MarkedIs
  <1>5. UNCHANGED <<tasks, sync, intents, discovery, requests, edits>>
    BY DEF Reacts, callOnly
  <1>6. puts' = puts \/ puts' = [puts EXCEPT ![caller[c].id] = @ + 1]
    <2>1. CASE puts' = [puts EXCEPT ![caller[c].id] = IF a \notin src[i].marks THEN @ + 1 ELSE @]
      <3>1. CASE a \notin src[i].marks
        BY <2>1, <3>1
      <3>2. CASE a \in src[i].marks
        BY <1>1, <1>2, <2>1, <3>2 DEF FunnelTyped
      <3>. QED  BY <3>1, <3>2
    <2>. QED  BY <2>1 DEF Reacts
  <1>7. \/ /\ src' = [src EXCEPT ![i] = reacted]
           /\ caller' = [caller EXCEPT ![c].pc = after, ![c].result = "uncertain"]
        \/ Settles(c, "uncertain") /\ (src' = src \/ src' = [src EXCEPT ![i] = reacted])
    BY DEF Reacts
  <1>8. after \in {"reply", "settle"} /\ (after = "reply" => a \notin src[i].marks)
    BY DEF AfterReaction
  <1> HIDE DEF reacted, after
  <1> DEFINE new == [caller[c] EXCEPT !.pc = after, !.result = "uncertain"]
  <1>9. new \in CallRecs /\ new.pc = after /\ new.id = caller[c].id /\ new.result = "uncertain"
    BY <1>1, <1>8 DEF CallRecs, CallPlaces, IntentStatuses
  <1>10. /\ caller' \in [Callers -> CallRecs \cup {NoCall}]
         /\ caller'[c].pc \in {"settle", "reply"} /\ caller'[c].id = caller[c].id
         /\ caller'[c].result = "uncertain"
         /\ caller'[c].pc = "reply" =>
               a \notin src[i].marks /\ src' = [src EXCEPT ![i] = reacted]
         /\ \A e \in Callers : e # c => caller'[e] = caller[e]
    <2>1. CASE caller' = [caller EXCEPT ![c].pc = after, ![c].result = "uncertain"]
               /\ src' = [src EXCEPT ![i] = reacted]
      <3>1. caller' = [caller EXCEPT ![c] = new]
        BY <2>1
      <3> HIDE DEF new
      <3>. QED  BY <1>1, <1>8, <1>9, <2>1, <3>1 DEF FunnelTyped
    <2>2. CASE Settles(c, "uncertain")
      <3>1. "uncertain" \in IntentStatuses
        BY DEF IntentStatuses
      <3>2. /\ caller' \in [Callers -> CallRecs \cup {NoCall}]
            /\ caller'[c].pc = "settle" /\ caller'[c].id = caller[c].id
            /\ caller'[c].result = "uncertain"
            /\ \A e \in Callers : e # c => caller'[e] = caller[e]
        BY <1>1, <2>2, <3>1, SettlesDoes
      <3>. QED  BY <3>2
    <2>. QED  BY <1>7, <2>1, <2>2
  <1>11. /\ src' \in [Items -> SrcRecs]
         /\ \A j \in Items : /\ src'[j].rev <= src[j].rev + 1 /\ src'[j].replies = src[j].replies
                             /\ src[j].marks \subseteq src'[j].marks
         /\ src' = [src EXCEPT ![i] = reacted] => a \in src'[i].marks
    <2>1. \A j \in Items : src[j].rev \in Nat
      BY <1>1 DEF FunnelTyped, SrcRecs
    <2>2. CASE src' = src /\ ~(src' = [src EXCEPT ![i] = reacted])
      BY <1>1, <2>1, <2>2 DEF FunnelTyped
    <2>3. CASE src' = [src EXCEPT ![i] = reacted]
      BY <1>1, <1>2, <1>4, <2>1, <2>3 DEF FunnelTyped
    <2>. QED  BY <1>7, <2>2, <2>3
  <1>12. Writing(c)
    BY <1>1 DEF Writing
  <1>13. RepliesHold' /\ SlackReplies'
    <2>1. ASSUME NEW e \in Callers, NEW j \in Slack, NEW b \in Actions, Replying(e, j, b)'
          PROVE  \/ Replying(e, j, b)
                 \/ e = c /\ j = i /\ b = a /\ a \notin src[i].marks /\ a \in src'[i].marks
      BY <1>10, <1>11, <2>1 DEF Replying
    <2>2. \A j \in Slack : j \in Items
      BY DEF Items
    <2>3. ASSUME NEW j \in Slack, NEW b \in Actions
          PROVE  /\ src'[j].replies[b] <= 1
                 /\ b \notin src'[j].marks => src'[j].replies[b] = 0
                 /\ \A e \in Callers : Replying(e, j, b)' => b \in src'[j].marks /\ src'[j].replies[b] = 0
                 /\ \A e \in Callers, f \in Callers : Replying(e, j, b)' /\ Replying(f, j, b)' => e = f
      BY <1>11, <2>1, <2>2 DEF FunnelInv, RepliesHold
    <2>4. RepliesHold'
      BY <2>3 DEF RepliesHold
    <2>5. SlackReplies'
      BY <1>1, <1>10 DEF FunnelInv, SlackReplies
    <2>. QED  BY <2>4, <2>5
  <1>. QED  BY <1>5, <1>6, <1>10, <1>11, <1>12, <1>13, WritesHold

\* The call that added the reaction is the only one that replies for it.
LEMMA RepliesHolds ==
    ASSUME FunnelConstants, FunnelInv, NEW c \in Callers, Replies(c)
    PROVE  FunnelInv'
  <1> DEFINE i == caller[c].id[1]
             a == caller[c].id[2]
             counted == [src[i].replies EXCEPT ![a] = @ + 1]
             new == [src[i] EXCEPT !.replies = counted]
  <1>1. FunnelTyped /\ caller[c].pc = "reply" /\ caller[c] \in CallRecs /\ i \in Slack
    <2>1. FunnelTyped /\ caller[c].pc = "reply" /\ i \in Slack
      BY DEF FunnelInv, Replies, SlackReplies
    <2>. QED  BY <2>1, CallsAre
  <1>2. caller[c].id \in IntentIds /\ i \in Items /\ a \in Actions
    BY <1>1, IdsAre DEF CallRecs
  <1>3. UNCHANGED <<tasks, sync, intents, discovery, requests, edits, puts>>
    BY DEF Replies, callOnly
  <1>4. src[i] \in SrcRecs /\ src[i].replies \in [Actions -> Nat]
    BY <1>1, <1>2 DEF FunnelTyped, SrcRecs
  <1>5. /\ counted \in [Actions -> Nat] /\ counted[a] = src[i].replies[a] + 1
        /\ \A b \in Actions : b # a => counted[b] = src[i].replies[b]
    BY <1>2, <1>4
  <1>6. src' = src \/ src' = [src EXCEPT ![i] = new]
    BY DEF Replies
  <1> HIDE DEF counted
  <1>7. new \in SrcRecs /\ new.rev = src[i].rev /\ new.marks = src[i].marks /\ new.replies = counted
    BY <1>4, <1>5 DEF SrcRecs
  <1> HIDE DEF new
  <1>8. /\ src' \in [Items -> SrcRecs]
        /\ \A j \in Items : /\ src'[j].rev = src[j].rev /\ src'[j].marks = src[j].marks
                            /\ j # i => src'[j].replies = src[j].replies
        /\ src'[i].replies = src[i].replies \/ src'[i].replies = counted
    <2>1. CASE src' = src
      BY <1>1, <2>1 DEF FunnelTyped
    <2>2. CASE src' = [src EXCEPT ![i] = new]
      BY <1>1, <1>2, <1>7, <2>2 DEF FunnelTyped
    <2>. QED  BY <1>6, <2>1, <2>2
  <1>9. /\ caller' \in [Callers -> CallRecs \cup {NoCall}]
        /\ caller'[c].pc = "settle" /\ caller'[c].id = caller[c].id
        /\ caller'[c].result # "none"
        /\ \A e \in Callers : e # c => caller'[e] = caller[e]
    <2>1. PICK result \in {"confirmed", "uncertain"} : Settles(c, result)
      BY DEF Replies
    <2>2. result \in IntentStatuses /\ result # "none"
      BY DEF IntentStatuses
    <2>3. /\ caller' \in [Callers -> CallRecs \cup {NoCall}]
          /\ caller'[c].pc = "settle" /\ caller'[c].id = caller[c].id
          /\ caller'[c].result = result
          /\ \A e \in Callers : e # c => caller'[e] = caller[e]
      BY <1>1, <2>1, <2>2, SettlesDoes
    <2>. QED  BY <2>2, <2>3
  <1>10. FunnelTyped'
    BY <1>3, <1>8, <1>9 DEF FunnelInv, FunnelTyped
  <1>11. RevsBounded'
    <2>1. Cardinality(Unwritten') <= Cardinality(Unwritten)
          /\ Cardinality(Unwritten) \in Nat /\ Cardinality(Unwritten') \in Nat
      <3>1. c \notin Unwritten'
        BY <1>9 DEF Unwritten
      <3>. QED  BY <1>9, <3>1, BeforeMoves
    <2>. QED  BY <1>3, <1>8, <2>1 DEF FunnelInv, RevsBounded, FunnelTyped, SrcRecs
  <1>12. IntentsHold'
    <2>1. \A e \in Callers : Writing(e)' => e # c
      BY <1>9 DEF Writing
    <2>. QED  BY <1>3, <1>9, <2>1 DEF FunnelInv, IntentsHold, Writing
  <1>13. RepliesHold'
    <2>1. Replying(c, i, a)
      BY <1>1 DEF Replying
    <2>2. \A e \in Callers, j \in Slack, b \in Actions :
             Replying(e, j, b)' => Replying(e, j, b) /\ ~(j = i /\ b = a)
      BY <1>1, <1>2, <1>9, <2>1 DEF Replying, FunnelInv, RepliesHold
    <2>3. src[i].replies[a] = 0 /\ a \in src[i].marks
      BY <1>1, <1>2, <2>1 DEF FunnelInv, RepliesHold
    <2>4. \A j \in Slack : j \in Items
      BY DEF Items
    <2>5. ASSUME NEW j \in Slack, NEW b \in Actions
          PROVE  /\ src'[j].replies[b] <= 1
                 /\ b \notin src'[j].marks => src'[j].replies[b] = 0
                 /\ \A e \in Callers : Replying(e, j, b)' => b \in src'[j].marks /\ src'[j].replies[b] = 0
                 /\ \A e \in Callers, f \in Callers : Replying(e, j, b)' /\ Replying(f, j, b)' => e = f
      <3>1. CASE j = i /\ b = a
        <4>1. \A e \in Callers : ~Replying(e, j, b)'
          BY <2>2, <3>1
        <4>2. src'[j].replies[b] <= 1 /\ b \in src'[j].marks
          BY <1>1, <1>2, <1>5, <1>8, <2>3, <3>1
        <4>. QED  BY <4>1, <4>2
      <3>2. CASE ~(j = i /\ b = a)
        <4>1. src'[j].replies[b] = src[j].replies[b] /\ src'[j].marks = src[j].marks
          BY <1>1, <1>5, <1>8, <2>4, <3>2
        <4>. QED  BY <2>2, <4>1 DEF FunnelInv, RepliesHold
      <3>. QED  BY <3>1, <3>2
    <2>. QED  BY <2>5 DEF RepliesHold
  <1>14. SlackReplies' /\ PageHolds' /\ CoveredIsKnown'
    BY <1>3, <1>9 DEF FunnelInv, SlackReplies, PageHolds, CoveredIsKnown
  <1>. QED  BY <1>10, <1>11, <1>12, <1>13, <1>14 DEF FunnelInv

\* No call moves, no intent, no reply: what people change and passes read.
LEMMA AroundHolds ==
    ASSUME FunnelConstants, FunnelInv, UNCHANGED <<intents, caller, requests, puts>>,
           src' \in [Items -> SrcRecs],
           \A i \in Items : /\ src'[i].marks = src[i].marks /\ src'[i].replies = src[i].replies
                            /\ src'[i].rev <= src[i].rev + (edits' - edits),
           edits' \in edits..MaxEdits, tasks' \in [Items -> FunnelTasks], DOMAIN sync' = Sources,
           PageHolds', CoveredIsKnown'
    PROVE  FunnelInv'
  <1>1. FunnelTyped'
    BY DEF FunnelInv, FunnelTyped
  <1>2. RevsBounded'
    <2>1. Unwritten' = Unwritten /\ Cardinality(Unwritten) \in Nat
      BY BeforeMoves, BeforeIsFinite, FS_CardinalityType DEF Unwritten
    <2>. QED  BY <2>1 DEF FunnelInv, RevsBounded, FunnelTyped, SrcRecs
  <1>3. IntentsHold'
    BY DEF FunnelInv, IntentsHold, Writing
  <1>4. \A i \in Slack : i \in Items
    BY DEF Items
  <1>5. RepliesHold'
    BY <1>4 DEF FunnelInv, RepliesHold, Replying
  <1>6. SlackReplies'
    BY DEF FunnelInv, SlackReplies
  <1>. QED  BY <1>1, <1>2, <1>3, <1>5, <1>6 DEF FunnelInv

LEMMA PeopleHold ==
    ASSUME FunnelConstants, FunnelInv, PeopleEdit \/ Reconfigure
    PROVE  FunnelInv'
  <1>1. edits \in 0..MaxEdits /\ edits' = edits + 1 /\ edits' \in edits..MaxEdits
        /\ UNCHANGED <<durable, caller, discovery, requests, puts>>
    <2>1. edits \in 0..MaxEdits /\ MaxEdits \in Nat
      BY DEF FunnelInv, FunnelTyped, FunnelConstants
    <2>2. edits < MaxEdits /\ edits' = edits + 1
      BY DEF PeopleEdit, Reconfigure, Edit
    <2>3. UNCHANGED <<durable, caller, discovery, requests, puts>>
      BY DEF PeopleEdit, Reconfigure
    <2>. QED  BY <2>1, <2>2, <2>3
  <1>2. /\ src' \in [Items -> SrcRecs]
        /\ \A i \in Items : /\ src'[i].marks = src[i].marks /\ src'[i].replies = src[i].replies
                            /\ src'[i].rev <= src[i].rev + 1
    <2>1. \A i \in Items : src[i] \in SrcRecs /\ src[i].rev \in Nat
      BY DEF FunnelInv, FunnelTyped, SrcRecs
    <2>2. CASE PeopleEdit
      <3>1. PICK i \in Items, over \in {FALSE, TRUE} : src' = [src EXCEPT ![i] = Edited(i, over)]
        BY <2>2 DEF PeopleEdit
      <3>2. /\ Edited(i, over) \in SrcRecs /\ Edited(i, over).rev = src[i].rev + 1
            /\ Edited(i, over).marks = src[i].marks /\ Edited(i, over).replies = src[i].replies
        <4>1. over \in BOOLEAN /\ src[i] \in SrcRecs
          BY <2>1
        <4>2. src[i].rev + 1 \in Nat
          BY <2>1
        <4>. QED  BY <4>1, <4>2 DEF Edited, SrcRecs
      <3>. QED  BY <2>1, <3>1, <3>2 DEF FunnelInv, FunnelTyped
    <2>3. CASE Reconfigure
      BY <2>1, <2>3 DEF Reconfigure, FunnelInv, FunnelTyped
    <2>. QED  BY <2>2, <2>3
  <1>3. PageHolds' /\ CoveredIsKnown' /\ tasks' \in [Items -> FunnelTasks] /\ DOMAIN sync' = Sources
    BY <1>1 DEF FunnelInv, FunnelTyped, PageHolds, CoveredIsKnown, durable
  <1>4. edits' - edits = 1 /\ UNCHANGED <<intents, caller, requests, puts>>
    BY <1>1 DEF durable
  <1>. QED  BY <1>1, <1>2, <1>3, <1>4, AroundHolds

\* What a pass reads is as the provider has it, and a full read of the channel
\* has every message of it.
LEMMA PageIsRead ==
    ASSUME FunnelConstants, FunnelInv, NEW S \in SUBSET Items, NEW complete \in BOOLEAN, NEW outcome, NEW next,
           PageOf(S, [complete |-> complete, outcome |-> outcome, next |-> next]),
           discovery.at = "slack" /\ outcome = "complete" => S = Slack
    PROVE  PageHolds'
  <1>1. PICK os \in SUBSET Observed(S) :
           /\ OnePerItem(os, S)
           /\ discovery' = [pc |-> "commit", at |-> discovery.at, cursor |-> discovery.cursor,
                             writable |-> discovery.writable,
                             page |-> [items |-> os, complete |-> complete,
                                       outcome |-> outcome, next |-> next]]
    BY DEF PageOf
  <1>2. \A i \in Items : src[i].rev \in Revs
    <2>1. Cardinality(Unwritten) \in Nat
      BY BeforeIsFinite
    <2>. QED
      BY <2>1 DEF FunnelInv, FunnelTyped, RevsBounded, SrcRecs, Revs, MaxRev, FunnelConstants
  <1>3. Observed(S) \subseteq ItemRecs
    BY <1>2 DEF Observed, Seen, ItemRecs
  <1>4. discovery'.page.items = os /\ discovery'.at = discovery.at
        /\ discovery'.page.outcome = outcome /\ discovery'.page.complete = complete
    BY <1>1
  <1>5. S = Slack => \A i \in Slack : \E o \in os : o.id = i
    BY <1>1 DEF OnePerItem
  <1>. QED  BY <1>1, <1>3, <1>4, <1>5 DEF PageHolds

LEMMA ReadsHold ==
    ASSUME FunnelConstants, FunnelInv, PassStarts \/ PassReads
    PROVE  FunnelInv'
  <1>1. UNCHANGED <<src, tasks, sync, intents, caller, requests, edits, puts>>
    BY DEF PassStarts, PassReads, durable, bounds
  <1>2. PageHolds'
    <2>1. CASE PassStarts
      BY <2>1 DEF PassStarts, PageHolds, ReadsFrom
    <2>2. CASE PassReads
      <3>1. Slack \in SUBSET Items /\ {} \in SUBSET Items /\ SUBSET GitHub \subseteq SUBSET Items
            /\ SUBSET Slack \subseteq SUBSET Items
        BY DEF Items
      <3>2. CASE discovery.at = "github" /\ GitHubRead
        <4>1. PICK S \in SUBSET GitHub, complete \in BOOLEAN, outcome \in Outcomes :
                 PageOf(S, [complete |-> complete, outcome |-> outcome, next |-> NextPage(S)])
          BY <3>2 DEF GitHubRead, Outcomes
        <4>. QED  BY <3>1, <3>2, <4>1, PageIsRead
      <3>3. CASE discovery.at = "slack" /\ SlackRead
        <4>1. CASE PageOf(Slack, [complete |-> TRUE, outcome |-> "complete", next |-> 0])
          <5>1. TRUE \in BOOLEAN
            OBVIOUS
          <5>. QED  BY <3>1, <4>1, <5>1, PageIsRead
        <4>2. CASE \E S \in SUBSET Slack : PageOf(S, SlackPrefix)
          <5>1. PICK S \in SUBSET Slack : PageOf(S, SlackPrefix)
            BY <4>2
          <5>2. PageOf(S, [complete |-> FALSE, outcome |-> "failed", next |-> 0])
            BY <5>1 DEF SlackPrefix
          <5>3. S \in SUBSET Items /\ FALSE \in BOOLEAN /\ "failed" # "complete"
            BY <3>1
          <5>. QED  BY <5>2, <5>3, PageIsRead
        <4>. QED  BY <3>3, <4>1, <4>2 DEF SlackRead
      <3>4. CASE ReadFails
        <4>1. PageOf({}, [complete |-> FALSE, outcome |-> "failed", next |-> 0])
          BY <3>4 DEF ReadFails
        <4>2. FALSE \in BOOLEAN /\ "failed" # "complete"
          OBVIOUS
        <4>. QED  BY <3>1, <4>1, <4>2, PageIsRead
      <3>. QED  BY <2>2, <3>2, <3>3, <3>4 DEF PassReads
    <2>. QED  BY <2>1, <2>2
  <1>3. /\ src' \in [Items -> SrcRecs] /\ tasks' \in [Items -> FunnelTasks] /\ DOMAIN sync' = Sources
        /\ CoveredIsKnown' /\ edits' \in edits..MaxEdits
        /\ \A i \in Items : /\ src'[i].marks = src[i].marks /\ src'[i].replies = src[i].replies
                            /\ src'[i].rev <= src[i].rev + (edits' - edits)
    BY <1>1 DEF FunnelInv, FunnelTyped, SrcRecs, CoveredIsKnown, FunnelConstants
  <1>. QED  BY <1>1, <1>2, <1>3, AroundHolds

LEMMA CommitHolds ==
    ASSUME FunnelConstants, FunnelInv, DiscoveryCommits
    PROVE  FunnelInv'
  <1>1. UNCHANGED <<src, intents, caller, requests, edits, puts>> /\ discovery.pc = "commit"
    BY DEF DiscoveryCommits
  <1>2. PageHolds'
    <2>1. discovery' = NoPass \/ discovery' = ReadsFrom("slack", discovery.writable)
      BY DEF DiscoveryCommits
    <2>2. discovery'.pc # "commit"
      BY <2>1 DEF NoPass, ReadsFrom
    <2>. QED  BY <2>2 DEF PageHolds
  <1> DEFINE read == [i \in Items |-> ReconciledTask(i)]
  <1>3. \A i \in Items : /\ read[i] \in FunnelTasks
                         /\ tasks[i].known => read[i].known
                         /\ (\E o \in discovery.page.items : o.id = i) => read[i].known
    <2> SUFFICES ASSUME NEW i \in Items
                 PROVE  /\ read[i] \in FunnelTasks
                        /\ tasks[i].known => read[i].known
                        /\ (\E o \in discovery.page.items : o.id = i) => read[i].known
      OBVIOUS
    <2> DEFINE os == {o \in discovery.page.items : o.id = i}
               o == CHOOSE p \in os : TRUE
               new == [known |-> TRUE, rev |-> o.rev, status |-> o.status,
                       blocked |-> ~discovery.page.complete,
                       caps |-> Capabilities(discovery.at, discovery.writable)]
    <2>1. read[i] = IF os = {} THEN tasks[i] ELSE new
      BY DEF ReconciledTask
    <2>2. os # {} => new \in FunnelTasks /\ new.known
      <3>1. os # {} => o \in ItemRecs
        BY <1>1 DEF FunnelInv, PageHolds
      <3>2. Capabilities(discovery.at, discovery.writable) \in SUBSET Actions
        BY DEF Capabilities
      <3>3. discovery.page.complete \in BOOLEAN
        BY <1>1 DEF FunnelInv, PageHolds
      <3> HIDE DEF o, os
      <3>. QED  BY <3>1, <3>2, <3>3 DEF ItemRecs, FunnelTasks
    <2>3. tasks[i] \in FunnelTasks
      BY DEF FunnelInv, FunnelTyped
    <2>4. (\E p \in discovery.page.items : p.id = i) => os # {}
      OBVIOUS
    <2> HIDE DEF new, o, os, read
    <2>. QED  BY <2>1, <2>2, <2>3, <2>4
  <1> HIDE DEF read
  <1>4. CASE UNCHANGED <<tasks, sync>>
    <2>1. /\ src' \in [Items -> SrcRecs] /\ tasks' \in [Items -> FunnelTasks] /\ DOMAIN sync' = Sources
          /\ CoveredIsKnown' /\ edits' \in edits..MaxEdits
          /\ \A i \in Items : /\ src'[i].marks = src[i].marks /\ src'[i].replies = src[i].replies
                              /\ src'[i].rev <= src[i].rev + (edits' - edits)
      BY <1>1, <1>4 DEF FunnelInv, FunnelTyped, SrcRecs, CoveredIsKnown, FunnelConstants
    <2>. QED  BY <1>1, <1>2, <2>1, AroundHolds
  <1>5. CASE /\ tasks' = read
             /\ sync' = [sync EXCEPT ![discovery.at] =
                           [cursor |-> discovery.page.next, outcome |-> discovery.page.outcome]]
    <2>1. tasks' \in [Items -> FunnelTasks] /\ DOMAIN sync' = Sources
      <3>1. tasks' \in [Items -> FunnelTasks]
        <4>1. read \in [DOMAIN read -> FunnelTasks] /\ DOMAIN read = Items
          BY <1>3 DEF read
        <4>. QED  BY <1>5, <4>1
      <3>2. DOMAIN sync' = DOMAIN sync
        BY <1>5
      <3>. QED  BY <3>1, <3>2 DEF FunnelInv, FunnelTyped
    <2>2. CoveredIsKnown'
      <3>1. \A i \in Slack : i \in Items
        BY DEF Items
      <3>2. "slack" \in DOMAIN sync
        BY DEF FunnelInv, FunnelTyped, Sources
      <3>3. CASE discovery.at = "slack"
        <4>1. sync'["slack"].outcome = discovery.page.outcome
          BY <1>5, <3>2, <3>3
        <4>2. \A i \in Slack : tasks'[i] = read[i]
          BY <1>5, <3>1
        <4>3. discovery.page.outcome = "complete" =>
                \A i \in Slack : \E o \in discovery.page.items : o.id = i
          BY <1>1, <3>3 DEF FunnelInv, PageHolds
        <4>4. discovery.page.outcome = "complete" => \A i \in Slack : read[i].known
          BY <1>3, <3>1, <4>3, Zenon
        <4>. QED  BY <4>1, <4>2, <4>4, Zenon DEF CoveredIsKnown
      <3>4. CASE discovery.at # "slack"
        <4>1. sync'["slack"] = sync["slack"]
          BY <1>5, <3>2, <3>4
        <4>2. \A i \in Slack : tasks'[i] = read[i]
          BY <1>5, <3>1
        <4>3. \A i \in Slack : tasks[i].known => read[i].known
          BY <1>3, <3>1, Zenon
        <4>4. CoveredIsKnown
          BY DEF FunnelInv
        <4>. QED  BY <4>1, <4>2, <4>3, <4>4, Zenon DEF CoveredIsKnown
      <3>. QED  BY <3>3, <3>4
    <2>3. /\ src' \in [Items -> SrcRecs] /\ edits' \in edits..MaxEdits
          /\ \A i \in Items : /\ src'[i].marks = src[i].marks /\ src'[i].replies = src[i].replies
                              /\ src'[i].rev <= src[i].rev + (edits' - edits)
      BY <1>1 DEF FunnelInv, FunnelTyped, SrcRecs, FunnelConstants
    <2>. QED  BY <1>1, <1>2, <2>1, <2>2, <2>3, AroundHolds
  <1>. QED  BY <1>4, <1>5 DEF DiscoveryCommits, read

LEMMA CrashHolds ==
    ASSUME FunnelConstants, FunnelInv, FunnelCrash
    PROVE  FunnelInv'
  <1>1. /\ UNCHANGED <<src, tasks, sync, intents, requests, edits, puts>>
        /\ caller' = [c \in Callers |-> NoCall] /\ discovery' = NoPass
    BY DEF FunnelCrash, durable
  <1>2. \A c \in Callers : caller'[c].pc = "idle"
    BY <1>1 DEF NoCall
  <1>3. FunnelTyped'
    BY <1>1 DEF FunnelInv, FunnelTyped
  <1>4. RevsBounded'
    <2>1. Unwritten' = {}
      BY <1>2 DEF Unwritten
    <2>2. Cardinality(Unwritten') = 0 /\ Cardinality(Unwritten) \in Nat
      BY <2>1, FS_EmptySet, BeforeIsFinite
    <2>. QED  BY <1>1, <2>2 DEF FunnelInv, FunnelTyped, SrcRecs, RevsBounded
  <1>5. IntentsHold' /\ RepliesHold' /\ SlackReplies'
    BY <1>1, <1>2 DEF FunnelInv, IntentsHold, RepliesHold, SlackReplies, Writing, Replying
  <1>6. PageHolds' /\ CoveredIsKnown'
    BY <1>1 DEF FunnelInv, PageHolds, CoveredIsKnown, NoPass
  <1>. QED  BY <1>3, <1>4, <1>5, <1>6 DEF FunnelInv

LEMMA FunnelStarts ==
    ASSUME FunnelConstants, FunnelInit
    PROVE  FunnelInv
  <1>1. \A c \in Callers : caller[c].pc = "idle"
    BY DEF FunnelInit, NoCall
  <1>2. FunnelTyped
    <2>1. NoTask \in FunnelTasks
      BY DEF NoTask, FunnelTasks, Revs, MaxRev, Statuses, FunnelConstants
    <2>2. [rev |-> 0, over |-> FALSE, marks |-> {}, replies |-> [a \in Actions |-> 0]] \in SrcRecs
      BY DEF SrcRecs
    <2>. QED
      BY <2>1, <2>2 DEF FunnelInit, FunnelTyped, IntentStatuses, FunnelConstants
  <1>3. RevsBounded
    <2>1. Unwritten = {}
      BY <1>1 DEF Unwritten
    <2>2. Cardinality(Unwritten) = 0
      BY <2>1, FS_EmptySet
    <2>. QED  BY <2>2 DEF FunnelInit, RevsBounded
  <1>4. IntentsHold /\ RepliesHold /\ SlackReplies
    <2>1. \A i \in Slack : i \in Items
      BY DEF Items
    <2>. QED
      BY <1>1, <2>1 DEF FunnelInit, IntentsHold, RepliesHold, SlackReplies, Writing, Replying
  <1>5. PageHolds /\ CoveredIsKnown
    BY DEF FunnelInit, PageHolds, CoveredIsKnown, NoPass, Sources
  <1>. QED  BY <1>2, <1>3, <1>4, <1>5 DEF FunnelInv

LEMMA FunnelInvariant ==
    ASSUME FunnelConstants
    PROVE  FunnelSpec => []FunnelInv
  <1>1. FunnelInit => FunnelInv
    BY FunnelStarts
  <1>2. FunnelInv /\ [FunnelNext]_funnelVars => FunnelInv'
    <2> SUFFICES ASSUME FunnelInv, [FunnelNext]_funnelVars
                 PROVE  FunnelInv'
      OBVIOUS
    <2>1. CASE PeopleEdit \/ Reconfigure
      BY <2>1, PeopleHold
    <2>2. CASE PassStarts \/ PassReads
      BY <2>2, ReadsHold
    <2>3. CASE DiscoveryCommits
      BY <2>3, CommitHolds
    <2>4. CASE FunnelCrash
      BY <2>4, CrashHolds
    <2>5. CASE \E c \in Callers : Call(c)
      <3>1. PICK c \in Callers : Call(c)
        BY <2>5
      <3>2. CASE Request(c) \/ Probe(c)
        BY <3>2, BeginsHold
      <3>3. CASE \/ SavesIntent(c) \/ Applies(c) \/ LoadsLabels(c) \/ ConfirmsLabels(c)
                 \/ SettlesIntent(c) \/ Reconciles(c)
        BY <3>3, QuietCallsHold
      <3>4. CASE PutsLabels(c)
        BY <3>4, PutsLabelsHolds
      <3>5. CASE Reacts(c)
        BY <3>5, ReactsHolds
      <3>6. CASE Replies(c)
        BY <3>6, RepliesHolds
      <3>. QED  BY <3>1, <3>2, <3>3, <3>4, <3>5, <3>6 DEF Call
    <2>6. CASE UNCHANGED funnelVars
      <3>1. UNCHANGED <<src, tasks, sync, intents, caller, discovery, requests, edits, puts>>
        BY <2>6 DEF funnelVars, durable, bounds
      <3>2. /\ src' \in [Items -> SrcRecs] /\ tasks' \in [Items -> FunnelTasks] /\ DOMAIN sync' = Sources
            /\ PageHolds' /\ CoveredIsKnown' /\ edits' \in edits..MaxEdits
            /\ \A i \in Items : /\ src'[i].marks = src[i].marks /\ src'[i].replies = src[i].replies
                                /\ src'[i].rev <= src[i].rev + (edits' - edits)
        BY <3>1 DEF FunnelInv, FunnelTyped, SrcRecs, PageHolds, CoveredIsKnown, FunnelConstants
      <3>. QED  BY <3>1, <3>2, AroundHolds
    <2>. QED  BY <2>1, <2>2, <2>3, <2>4, <2>5, <2>6 DEF FunnelNext
  <1>. QED  BY <1>1, <1>2, PTL DEF FunnelSpec

\* For any items, actions and number of callers: an intent changes the provider
\* at most once, whichever calls overlap, whatever answers are lost and wherever
\* Town dies (SaveWriteIntent, ExecuteLifecycle); a Slack message gets one reply
\* for an action (ApplyLifecycle); and a pass that covered the channel left a
\* task for every message of it (history, genericDiscovery).
THEOREM FunnelsAreHeld == FunnelSpec => []FunnelsHold
  <1>1. FunnelInv => FunnelsHold
    <2>1. FunnelInv => OneMutation
      BY DEF FunnelInv, IntentsHold, OneMutation
    <2>2. FunnelInv => OneReply
      BY DEF FunnelInv, RepliesHold, OneReply
    <2>. QED  BY <2>1, <2>2 DEF FunnelInv, FunnelsHold
  <1>2. FunnelSpec => []FunnelInv
    BY FunnelConstantsHold, FunnelInvariant
  <1>. QED  BY <1>1, <1>2, PTL

-----------------------------------------------------------------------------
\* Settings: what a run takes with it.

\* The records that runs and houses are.
HouseWorkers == [phase : {"", "execution"}, live : {FALSE}] \cup
    [phase : {"", "execution"}, live : {TRUE}, agent : AgentProfiles, place : Places]
Pins         == Runtimes \cup {Unpinned}
Waiting      == [pc : {"dispatched"}, life : Nat, agent : AgentProfiles, place : Places, pin : Pins]
Working      == [pc : {"running"}, life : Nat, agent : AgentProfiles, place : Places, pin : Pins,
                 with : Versions \cup Pins]
Findings     == [read : {TRUE}, owner : Owners, place : Profiles, runtime : Runtimes]

SettingsTyped ==
    /\ catalog \in Versions
    /\ town \in [deleted : BOOLEAN, life : Nat] /\ town.life <= choices + restarts
    /\ worker \in [Houses -> HouseWorkers]
    /\ run \in [Houses -> {NoRun} \cup Waiting \cup Working]
    /\ \A h \in Houses : run[h] # NoRun => run[h].life <= town.life
    /\ discovered \in {Nothing} \cup Findings
    /\ choices \in 0..MaxChoices /\ dispatches \in 0..MaxDispatches /\ restarts \in 0..MaxRestarts

\* A town has a profile and a placement of its own.
Whole(c) == c \in Configs /\ c.own["town"] # Inherits /\ c.place["town"] # "inherit"

SettingsInv ==
    /\ SettingsTyped /\ Whole(config)
    /\ ChoicesKept /\ RunsAsCaptured /\ NoLocalFallback /\ OneLife

LEMMA InheritsIsNoProfile == \A p \in AgentProfiles : p # Inherits
  <1> SUFFICES ASSUME NEW p \in AgentProfiles, p = Inherits PROVE FALSE
    OBVIOUS
  <1>1. "def" \in DOMAIN p
    BY DEF AgentProfiles
  <1>2. "def" \notin DOMAIN Inherits
    BY DEF Inherits
  <1> QED BY <1>1, <1>2

LEMMA PlainIsProfile == \A h \in Harnesses : Plain(h) \in AgentProfiles /\ Plain(h).harness = h
  BY DEF Plain, AgentProfiles, Models


LEMMA ConfigParts ==
    ASSUME NEW c, Whole(c)
    PROVE  /\ c.own \in [Owners -> AgentProfiles \cup {Inherits}]
           /\ c.place \in [Owners -> Places \cup {"inherit"}]
           /\ c.pins \in [Profiles -> Pins]
           /\ c = [own |-> c.own, place |-> c.place, pins |-> c.pins]
           /\ c.own["town"] \in AgentProfiles /\ c.place["town"] \in Places
           /\ \A o \in Owners : PlaceOf(c, o) \in Places /\ ProfileOf(c, o) \in AgentProfiles
  <1>1. /\ c.own \in [Owners -> AgentProfiles \cup {Inherits}]
        /\ c.place \in [Owners -> Places \cup {"inherit"}]
        /\ c.pins \in [Profiles -> Pins]
        /\ c = [own |-> c.own, place |-> c.place, pins |-> c.pins]
    BY DEF Whole, Configs, Pins
  <1>2. "town" \in Owners
    BY DEF Owners
  <1>3. c.own["town"] \in AgentProfiles /\ c.place["town"] \in Places
    BY <1>1, <1>2 DEF Whole
  <1>4. ASSUME NEW o \in Owners PROVE PlaceOf(c, o) \in Places /\ ProfileOf(c, o) \in AgentProfiles
    BY <1>1, <1>3 DEF PlaceOf, ProfileOf
  <1> QED BY <1>1, <1>3, <1>4

LEMMA WholeIs ==
    ASSUME NEW own \in [Owners -> AgentProfiles \cup {Inherits}],
           NEW place \in [Owners -> Places \cup {"inherit"}], NEW pins \in [Profiles -> Pins],
           own["town"] # Inherits, place["town"] # "inherit"
    PROVE  Whole([own |-> own, place |-> place, pins |-> pins])
  BY DEF Whole, Configs, Pins

\* What is prepared is a profile, and without a request only its version is new.
LEMMA AppliedIsProfile ==
    ASSUME NEW p \in AgentProfiles, NEW place \in Places, NEW ask \in Asks
    PROVE  Applied(p, place, ask) \in AgentProfiles
  <1> DEFINE q == IF ask.harness \in {"keep", p.harness} THEN p ELSE Plain(ask.harness)
  <1>1. q \in AgentProfiles
    BY PlainIsProfile DEF Asks
  <1>2. q.harness \in Harnesses /\ (Managed(place) => place \in Models) /\ q.harness \in Models
    BY <1>1 DEF AgentProfiles, Models, Managed, Places
  <1>3. Applied(p, place, ask) =
           IF ask.model THEN [q EXCEPT !.model = IF Managed(place) THEN place ELSE q.harness] ELSE q
    BY DEF Applied
  <1> HIDE DEF q
  <1>4. \A m \in Models : [q EXCEPT !.model = m] \in AgentProfiles
    BY <1>1 DEF AgentProfiles
  <1> QED BY <1>1, <1>2, <1>3, <1>4

LEMMA PreparedIsProfile ==
    ASSUME NEW p \in AgentProfiles, NEW place \in Places, NEW ask \in Asks, catalog \in Versions
    PROVE  Prepared(p, place, ask) \in AgentProfiles
  <1> DEFINE q == Applied(p, place, ask)
  <1>1. q \in AgentProfiles
    BY AppliedIsProfile
  <1>2. Prepared(p, place, ask) = IF NeedsPin(q, place, ask) THEN [q EXCEPT !.def = catalog] ELSE q
    BY DEF Prepared
  <1> HIDE DEF q
  <1>3. [q EXCEPT !.def = catalog] \in AgentProfiles
    BY <1>1 DEF AgentProfiles
  <1> QED BY <1>1, <1>2, <1>3

LEMMA NoAskAsks == NoAsk \in Asks
  BY DEF NoAsk, Asks

LEMMA PinnedOnly ==
    ASSUME NEW p \in AgentProfiles, NEW place \in Places, catalog \in Versions
    PROVE  Pinned(p, Prepared(p, place, NoAsk)) = Prepared(p, place, NoAsk)
  <1>1. Applied(p, place, NoAsk) = p
    BY DEF Applied, NoAsk
  <1>2. Prepared(p, place, NoAsk) = IF NeedsPin(p, place, NoAsk) THEN [p EXCEPT !.def = catalog] ELSE p
    BY <1>1 DEF Prepared
  <1>3. NeedsPin(p, place, NoAsk) => p.def = Unpinned
    BY DEF NeedsPin, NoAsk
  <1>4. p # Inherits /\ Prepared(p, place, NoAsk) # Inherits
    BY InheritsIsNoProfile, PreparedIsProfile, NoAskAsks
  <1>5. CASE NeedsPin(p, place, NoAsk)
    <2>1. p.def = Unpinned /\ Prepared(p, place, NoAsk) = [p EXCEPT !.def = catalog]
      BY <1>2, <1>3, <1>5
    <2>2. [p EXCEPT !.def = catalog].def = catalog
      BY DEF AgentProfiles
    <2> QED BY <1>4, <2>1, <2>2 DEF Pinned
  <1>6. CASE ~NeedsPin(p, place, NoAsk)
    <2>1. Prepared(p, place, NoAsk) = p
      BY <1>2, <1>6
    <2>2. p.def = Unpinned => [p EXCEPT !.def = p.def] = p
      BY DEF AgentProfiles
    <2> QED BY <1>4, <2>1, <2>2 DEF Pinned
  <1> QED BY <1>5, <1>6

\* Preparing a town keeps placements and pins, and gives each bot's own profile
\* at most the version that it lacked.
LEMMA TownPreparedIs ==
    ASSUME NEW c, Whole(c), NEW ask \in Asks, catalog \in Versions
    PROVE  /\ Whole(TownPrepared(c, ask))
           /\ TownPrepared(c, ask).place = c.place /\ TownPrepared(c, ask).pins = c.pins
           /\ \A h \in Houses : Pinned(c.own[h], TownPrepared(c, ask).own[h]) = TownPrepared(c, ask).own[h]
           /\ ask = NoAsk =>
                 Pinned(c.own["town"], TownPrepared(c, ask).own["town"]) = TownPrepared(c, ask).own["town"]
  <1> DEFINE own == [o \in Owners |->
                 IF o = "town" THEN Prepared(c.own[o], c.place[o], ask)
                 ELSE IF o \in Others(c) THEN Prepared(c.own[o], PlaceOf(c, o), NoAsk)
                 ELSE Inherits]
  <1>1. /\ c.own \in [Owners -> AgentProfiles \cup {Inherits}]
        /\ c.place \in [Owners -> Places \cup {"inherit"}] /\ c.pins \in [Profiles -> Pins]
        /\ c = [own |-> c.own, place |-> c.place, pins |-> c.pins]
        /\ c.own["town"] \in AgentProfiles /\ c.place["town"] \in Places
        /\ \A o \in Owners : PlaceOf(c, o) \in Places
    BY ConfigParts
  <1>2. "town" \in Owners /\ Houses \subseteq Owners /\ "town" \notin Houses
    BY SettingsConstants DEF Owners
  <1>3. own["town"] = Prepared(c.own["town"], c.place["town"], ask)
    BY <1>2
  <1>4. ASSUME NEW h \in Houses, c.own[h] # Inherits
        PROVE  /\ own[h] = Prepared(c.own[h], PlaceOf(c, h), NoAsk)
               /\ c.own[h] \in AgentProfiles
    BY <1>1, <1>2, <1>4 DEF Others
  <1>5. ASSUME NEW h \in Houses, c.own[h] = Inherits PROVE own[h] = Inherits
    BY <1>2, <1>5 DEF Others
  <1>6. own["town"] \in AgentProfiles
    BY <1>1, <1>3, PreparedIsProfile
  <1>7. ASSUME NEW h \in Houses PROVE own[h] \in AgentProfiles \cup {Inherits}
    BY <1>1, <1>2, <1>4, <1>5, PreparedIsProfile, NoAskAsks
  <1>8. own \in [Owners -> AgentProfiles \cup {Inherits}]
    BY <1>6, <1>7 DEF Owners
  <1>9. TownPrepared(c, ask) = [own |-> own, place |-> c.place, pins |-> c.pins]
    BY <1>1 DEF TownPrepared
  <1> HIDE DEF own
  <1>10. Whole(TownPrepared(c, ask))
    BY <1>1, <1>6, <1>8, <1>9, WholeIs, InheritsIsNoProfile DEF Whole
  <1>11. ASSUME NEW h \in Houses PROVE Pinned(c.own[h], own[h]) = own[h]
    <2>1. CASE c.own[h] = Inherits
      BY <2>1, <1>5 DEF Pinned
    <2>2. CASE c.own[h] # Inherits
      BY <2>2, <1>1, <1>2, <1>4, PinnedOnly
    <2> QED BY <2>1, <2>2
  <1>12. ask = NoAsk => Pinned(c.own["town"], own["town"]) = own["town"]
    BY <1>1, <1>3, PinnedOnly
  <1> QED BY <1>9, <1>10, <1>11, <1>12

LEMMA ConfigSets ==
    ASSUME NEW c, Whole(c)
    PROVE  /\ \A h \in Houses : \A p \in AgentProfiles \cup {Inherits} :
                 /\ Whole([c EXCEPT !.own[h] = p])
                 /\ [c EXCEPT !.own[h] = p].own = [c.own EXCEPT ![h] = p]
           /\ \A o \in Owners : \A p \in Places \cup {"inherit"} : (o = "town" => p # "inherit") =>
                 /\ Whole([c EXCEPT !.place[o] = p])
                 /\ [c EXCEPT !.place[o] = p].own = c.own
           /\ \A x \in Profiles : \A v \in Pins :
                 /\ Whole([c EXCEPT !.pins[x] = v])
                 /\ [c EXCEPT !.pins[x] = v].own = c.own
  <1>1. /\ c.own \in [Owners -> AgentProfiles \cup {Inherits}]
        /\ c.place \in [Owners -> Places \cup {"inherit"}] /\ c.pins \in [Profiles -> Pins]
        /\ c = [own |-> c.own, place |-> c.place, pins |-> c.pins]
    BY ConfigParts
  <1>2. c.own["town"] # Inherits /\ c.place["town"] # "inherit" /\ "town" \notin Houses
    BY SettingsConstants DEF Whole
  <1>3. ASSUME NEW h \in Houses, NEW p \in AgentProfiles \cup {Inherits}
        PROVE  /\ Whole([c EXCEPT !.own[h] = p])
               /\ [c EXCEPT !.own[h] = p].own = [c.own EXCEPT ![h] = p]
    <2> DEFINE own == [c.own EXCEPT ![h] = p]
    <2>1. own \in [Owners -> AgentProfiles \cup {Inherits}] /\ own["town"] # Inherits
      BY <1>1, <1>2 DEF Owners
    <2>2. [c EXCEPT !.own[h] = p] = [own |-> own, place |-> c.place, pins |-> c.pins]
      BY <1>1
    <2> HIDE DEF own
    <2>3. Whole([own |-> own, place |-> c.place, pins |-> c.pins])
      BY <1>1, <1>2, <2>1, WholeIs
    <2> QED BY <2>2, <2>3 DEF own
  <1>4. ASSUME NEW o \in Owners, NEW p \in Places \cup {"inherit"}, o = "town" => p # "inherit"
        PROVE  /\ Whole([c EXCEPT !.place[o] = p])
               /\ [c EXCEPT !.place[o] = p].own = c.own
    <2> DEFINE place == [c.place EXCEPT ![o] = p]
    <2>1. place \in [Owners -> Places \cup {"inherit"}] /\ place["town"] # "inherit"
      BY <1>1, <1>2, <1>4 DEF Owners
    <2>2. [c EXCEPT !.place[o] = p] = [own |-> c.own, place |-> place, pins |-> c.pins]
      BY <1>1
    <2> HIDE DEF place
    <2>3. Whole([own |-> c.own, place |-> place, pins |-> c.pins])
      BY <1>1, <1>2, <2>1, WholeIs
    <2> QED BY <2>2, <2>3
  <1>5. ASSUME NEW x \in Profiles, NEW v \in Pins
        PROVE  /\ Whole([c EXCEPT !.pins[x] = v])
               /\ [c EXCEPT !.pins[x] = v].own = c.own
    <2> DEFINE pins == [c.pins EXCEPT ![x] = v]
    <2>1. pins \in [Profiles -> Pins]
      BY <1>1
    <2>2. [c EXCEPT !.pins[x] = v] = [own |-> c.own, place |-> c.place, pins |-> pins]
      BY <1>1
    <2> HIDE DEF pins
    <2>3. Whole([own |-> c.own, place |-> c.place, pins |-> pins])
      BY <1>1, <1>2, <2>1, WholeIs
    <2> QED BY <2>2, <2>3
  <1> QED BY <1>3, <1>4, <1>5

LEMMA FileConfigsAreWhole == \A c \in FileConfigs : Whole(c)
  <1> SUFFICES ASSUME NEW h \in Registered, NEW p \in Places
               PROVE  Whole([own |-> [o \in Owners |-> IF o = "town" THEN Plain(h) ELSE Inherits],
                             place |-> [o \in Owners |-> IF o = "town" THEN p ELSE "inherit"],
                             pins |-> [x \in Profiles |-> Unpinned]])
    BY DEF FileConfigs
  <1> DEFINE own == [o \in Owners |-> IF o = "town" THEN Plain(h) ELSE Inherits]
             place == [o \in Owners |-> IF o = "town" THEN p ELSE "inherit"]
             pins == [x \in Profiles |-> Unpinned]
  <1>1. Plain(h) \in AgentProfiles /\ Plain(h) # Inherits
    BY PlainIsProfile, InheritsIsNoProfile DEF Harnesses
  <1>2. "inherit" \notin Places
    BY SettingsConstants DEF Places
  <1>3. own \in [Owners -> AgentProfiles \cup {Inherits}] /\ own["town"] # Inherits
    BY <1>1 DEF Owners
  <1>4. place \in [Owners -> Places \cup {"inherit"}] /\ place["town"] # "inherit"
    BY <1>2 DEF Owners
  <1>5. pins \in [Profiles -> Pins]
    BY DEF Pins
  <1> HIDE DEF own, place, pins
  <1>6. Whole([own |-> own, place |-> place, pins |-> pins])
    BY <1>3, <1>4, <1>5, WholeIs
  <1> QED BY <1>6 DEF own, place, pins

LEMMA SettingsStart == SettingsInit => SettingsInv
  <1> SUFFICES ASSUME SettingsInit PROVE SettingsInv
    OBVIOUS
  <1>1. SettingsTyped
    <2>1. 0 \in Versions /\ 0 \in 0..MaxChoices /\ 0 \in 0..MaxDispatches /\ 0 \in 0..MaxRestarts
      BY SettingsConstants DEF SettingsConstants, Versions
    <2>2. Resting \in HouseWorkers
      BY DEF Resting, HouseWorkers
    <2>3. town \in [deleted : BOOLEAN, life : Nat] /\ town.life <= choices + restarts
      BY DEF SettingsInit
    <2> QED BY <2>1, <2>2, <2>3 DEF SettingsInit, SettingsTyped
  <1>2. Whole(config) /\ ChoicesKept
    BY FileConfigsAreWhole DEF SettingsInit, ChoicesKept
  <1>3. \A h \in Houses : run[h] = NoRun /\ ~worker[h].live
    BY DEF SettingsInit, Resting
  <1> QED BY <1>1, <1>2, <1>3 DEF SettingsInv, RunsAsCaptured, NoLocalFallback, OneLife

\* A step that leaves runs and captures alone, and restores no town that has runs.
LEMMA SettingsChange ==
    ASSUME SettingsInv, UNCHANGED <<worker, run>>,
           catalog' \in Versions, discovered' \in {Nothing} \cup Findings,
           choices' \in 0..MaxChoices, dispatches' = dispatches, restarts' = restarts,
           town' \in [deleted : BOOLEAN, life : Nat], town'.life <= choices' + restarts,
           \/ town'.life = town.life /\ (town.deleted => town'.deleted)
           \/ Stopped /\ town'.life >= town.life,
           Whole(config'), ChoicesKept'
    PROVE  SettingsInv'
  <1>1. SettingsTyped'
    <2>1. \A h \in Houses : run'[h] # NoRun => run'[h].life <= town'.life
      BY DEF SettingsInv, SettingsTyped, Stopped
    <2> QED BY <2>1 DEF SettingsInv, SettingsTyped
  <1>2. RunsAsCaptured' /\ NoLocalFallback'
    BY DEF SettingsInv, RunsAsCaptured, NoLocalFallback
  <1>3. OneLife'
    BY DEF SettingsInv, SettingsTyped, OneLife, Stopped
  <1> QED BY <1>1, <1>2, <1>3 DEF SettingsInv

\* The operator's edits of a town's profile, also as it is restored.
LEMMA TownEdited ==
    ASSUME SettingsInv, NEW ask \in Asks, config' = TownPrepared(config, ask),
           chosen' = [Completed(config') EXCEPT !["town"] = config'.own["town"]]
    PROVE  Whole(config') /\ ChoicesKept'
  <1>1. Whole(config) /\ chosen = config.own /\ catalog \in Versions
    BY DEF SettingsInv, SettingsTyped, ChoicesKept
  <1>2. /\ Whole(config')
        /\ \A h \in Houses : Pinned(config.own[h], config'.own[h]) = config'.own[h]
    BY <1>1, TownPreparedIs
  <1>3. config'.own \in [Owners -> AgentProfiles \cup {Inherits}]
    BY <1>2, ConfigParts
  <1> DEFINE d == config'
  <1>4. Completed(d) = [o \in Owners |-> Pinned(config.own[o], d.own[o])]
    BY <1>1 DEF Completed
  <1> DEFINE e == [Completed(d) EXCEPT !["town"] = d.own["town"]]
  <1>5. e \in [Owners -> {e[o] : o \in Owners}] /\ \A o \in Owners : e[o] = d.own[o]
    BY <1>2, <1>4 DEF Owners
  <1>6. e = d.own
    BY <1>3, <1>5
  <1> QED BY <1>2, <1>6 DEF ChoicesKept

LEMMA EditTownKeeps == SettingsInv /\ EditTown => SettingsInv'
  <1> SUFFICES ASSUME SettingsInv, EditTown PROVE SettingsInv'
    OBVIOUS
  <1>1. Whole(config') /\ ChoicesKept'
    BY TownEdited DEF EditTown
  <1>2. choices' = choices + 1 /\ choices' \in 0..MaxChoices
    BY SettingsConstants DEF EditTown, Operator, SettingsInv, SettingsTyped
  <1> QED BY <1>1, <1>2, SettingsChange DEF EditTown, Operator, SettingsInv, SettingsTyped

LEMMA RestoreTownKeeps == SettingsInv /\ RestoreTown => SettingsInv'
  <1> SUFFICES ASSUME SettingsInv, RestoreTown PROVE SettingsInv'
    OBVIOUS
  <1>1. Whole(config') /\ ChoicesKept'
    BY TownEdited DEF RestoreTown
  <1>2. choices' = choices + 1 /\ choices' \in 0..MaxChoices
    BY SettingsConstants DEF RestoreTown, Operator, SettingsInv, SettingsTyped
  <1>3. town'.life = town.life + 1 /\ town' \in [deleted : BOOLEAN, life : Nat] /\ Stopped
    BY DEF RestoreTown, SettingsInv, SettingsTyped
  <1> QED BY <1>1, <1>2, <1>3, SettingsChange DEF RestoreTown, Operator, SettingsInv, SettingsTyped

LEMMA EditBotKeeps == SettingsInv /\ EditBot => SettingsInv'
  <1> SUFFICES ASSUME SettingsInv, EditBot PROVE SettingsInv'
    OBVIOUS
  <1>1. Whole(config) /\ chosen = config.own /\ catalog \in Versions
    BY DEF SettingsInv, SettingsTyped, ChoicesKept
  <1>2. PICK h \in Houses :
           /\ \/ \E ask \in Asks :
                   config' = [config EXCEPT !.own[h] = Prepared(ProfileOf(config, h), PlaceOf(config, h), ask)]
              \/ config' = [config EXCEPT !.own[h] = Inherits]
           /\ chosen' = [chosen EXCEPT ![h] = config'.own[h]]
    BY DEF EditBot
  <1>3. PICK p \in AgentProfiles \cup {Inherits} : config' = [config EXCEPT !.own[h] = p]
    <2>1. \A ask \in Asks : Prepared(ProfileOf(config, h), PlaceOf(config, h), ask) \in AgentProfiles
      BY <1>1, ConfigParts, PreparedIsProfile DEF Owners
    <2> QED BY <1>2, <2>1
  <1>4. Whole(config') /\ config'.own = [config.own EXCEPT ![h] = p]
    BY <1>1, <1>3, ConfigSets
  <1>5. config.own \in [Owners -> AgentProfiles \cup {Inherits}] /\ h \in Owners
    BY <1>1, ConfigParts DEF Owners
  <1>6. ChoicesKept'
    BY <1>1, <1>2, <1>4, <1>5 DEF ChoicesKept
  <1>7. choices' = choices + 1 /\ choices' \in 0..MaxChoices
    BY SettingsConstants DEF EditBot, Operator, SettingsInv, SettingsTyped
  <1> QED BY <1>4, <1>6, <1>7, SettingsChange DEF EditBot, Operator, SettingsInv, SettingsTyped

LEMMA DiscoversKeeps == SettingsInv /\ Discovers => SettingsInv'
  <1> SUFFICES ASSUME SettingsInv, Discovers PROVE SettingsInv'
    OBVIOUS
  <1>1. Whole(config)
    BY DEF SettingsInv
  <1>2. PICK o \in Owners, v \in Runtimes :
           /\ Managed(PlaceOf(config, o))
           /\ discovered' = [read |-> TRUE, owner |-> o, place |-> PlaceOf(config, o), runtime |-> v]
    BY DEF Discovers
  <1>3. PlaceOf(config, o) \in Profiles
    BY <1>1, <1>2, ConfigParts DEF Managed, Places
  <1>4. discovered' \in Findings
    BY <1>2, <1>3 DEF Findings
  <1>5. choices' = choices + 1 /\ choices' \in 0..MaxChoices
    BY SettingsConstants DEF Discovers, Operator, SettingsInv, SettingsTyped
  <1> QED BY <1>1, <1>4, <1>5, SettingsChange DEF Discovers, Operator, SettingsInv, SettingsTyped, ChoicesKept

LEMMA PinsRuntimeKeeps == SettingsInv /\ PinsRuntime => SettingsInv'
  <1> SUFFICES ASSUME SettingsInv, PinsRuntime PROVE SettingsInv'
    OBVIOUS
  <1>1. Whole(config) /\ chosen = config.own /\ discovered \in Findings
    BY DEF SettingsInv, SettingsTyped, PinsRuntime, ChoicesKept
  <1>2. discovered.place \in Profiles /\ discovered.runtime \in Pins
    BY <1>1 DEF Findings, Pins
  <1>3. \/ config' = [config EXCEPT !.pins[discovered.place] = discovered.runtime]
        \/ config' = config
    BY DEF PinsRuntime
  <1>4. Whole(config') /\ config'.own = config.own
    <2>1. \A x \in Profiles, v \in Pins : /\ Whole([config EXCEPT !.pins[x] = v])
                                         /\ [config EXCEPT !.pins[x] = v].own = config.own
      BY <1>1, ConfigSets
    <2>2. ASSUME NEW x \in Profiles, NEW v \in Pins, config' = [config EXCEPT !.pins[x] = v]
          PROVE  Whole(config') /\ config'.own = config.own
      BY <2>1, <2>2
    <2> QED BY <1>1, <1>2, <1>3, <2>2
  <1>5. UNCHANGED <<catalog, town, worker, run, choices, dispatches, restarts, chosen>>
        /\ discovered' = Nothing
    BY DEF PinsRuntime, limits
  <1> QED BY <1>1, <1>4, <1>5, SettingsChange DEF SettingsInv, SettingsTyped, ChoicesKept

LEMMA DeleteTownKeeps == SettingsInv /\ DeleteTown => SettingsInv'
  <1> SUFFICES ASSUME SettingsInv, DeleteTown PROVE SettingsInv'
    OBVIOUS
  <1>1. choices' = choices + 1 /\ choices' \in 0..MaxChoices
    BY SettingsConstants DEF DeleteTown, Operator, SettingsInv, SettingsTyped
  <1>2. town' \in [deleted : BOOLEAN, life : Nat] /\ town'.life = town.life /\ town'.deleted
    BY DEF DeleteTown, SettingsInv, SettingsTyped
  <1> QED BY <1>1, <1>2, SettingsChange DEF DeleteTown, Operator, SettingsInv, SettingsTyped, ChoicesKept

LEMMA RegistryRefreshesKeeps == SettingsInv /\ RegistryRefreshes => SettingsInv'
  <1> SUFFICES ASSUME SettingsInv, RegistryRefreshes PROVE SettingsInv'
    OBVIOUS
  <1>1. catalog' \in Versions
    BY SettingsConstants DEF RegistryRefreshes, SettingsInv, SettingsTyped, Versions
  <1> QED BY <1>1, SettingsChange DEF RegistryRefreshes, limits, SettingsInv, SettingsTyped, ChoicesKept

\* What a house holds of its run outlives a change of its phase.
LEMMA PhaseGoes ==
    ASSUME NEW w \in HouseWorkers, NEW p \in {"", "execution"}
    PROVE  /\ [w EXCEPT !.phase = p] \in HouseWorkers /\ [w EXCEPT !.phase = p].live = w.live
           /\ w.live => [w EXCEPT !.phase = p].agent = w.agent /\ [w EXCEPT !.phase = p].place = w.place
           /\ w.phase \in {"", "execution"} /\ w.live \in BOOLEAN
  <1>1. CASE w \in [phase : {"", "execution"}, live : {FALSE}]
    BY <1>1 DEF HouseWorkers
  <1>2. CASE w \in [phase : {"", "execution"}, live : {TRUE}, agent : AgentProfiles, place : Places]
    BY <1>2 DEF HouseWorkers
  <1> QED BY <1>1, <1>2 DEF HouseWorkers

LEMMA EditPlaceKeeps == SettingsInv /\ EditPlace => SettingsInv'
  <1> SUFFICES ASSUME SettingsInv, EditPlace PROVE SettingsInv'
    OBVIOUS
  <1>1. Whole(config) /\ chosen = config.own
    BY DEF SettingsInv, SettingsTyped, ChoicesKept
  <1>2. Whole(config') /\ config'.own = config.own
    <2>1. PICK o \in Owners, p \in Places \cup {"inherit"} :
             (o = "town" => p # "inherit") /\ config' = [config EXCEPT !.place[o] = p]
      BY DEF EditPlace
    <2> QED BY <1>1, <2>1, ConfigSets
  <1>3. choices' = choices + 1 /\ choices' \in 0..MaxChoices
    <2>1. choices < MaxChoices /\ choices' = choices + 1
      BY DEF EditPlace, Operator
    <2> QED BY <2>1, SettingsConstants DEF SettingsInv, SettingsTyped
  <1>4. worker' \in [Houses -> HouseWorkers]
        /\ \A h \in Houses : worker'[h] \in {worker[h], [worker[h] EXCEPT !.phase = ""]}
    <2>1. worker \in [Houses -> HouseWorkers]
      BY DEF SettingsInv, SettingsTyped
    <2> QED BY <2>1, PhaseGoes DEF EditPlace
  <1>5. \A h \in Houses : worker'[h].live = worker[h].live /\ (worker[h].live =>
           worker'[h].agent = worker[h].agent /\ worker'[h].place = worker[h].place)
    BY <1>4, PhaseGoes DEF SettingsInv, SettingsTyped
  <1>6. RunsAsCaptured' /\ NoLocalFallback' /\ OneLife'
    BY <1>5 DEF EditPlace, SettingsInv, RunsAsCaptured, NoLocalFallback, OneLife
  <1>7. UNCHANGED <<catalog, town, run, discovered, chosen, dispatches, restarts>>
    BY DEF EditPlace, Operator
  <1>8. SettingsTyped'
    <2>1. town'.life <= choices' + restarts'
      BY <1>3, <1>7 DEF SettingsInv, SettingsTyped
    <2> QED BY <1>3, <1>4, <1>7, <2>1 DEF SettingsInv, SettingsTyped
  <1> QED BY <1>1, <1>2, <1>6, <1>7, <1>8 DEF SettingsInv, ChoicesKept

LEMMA HoldsKeeps == ASSUME NEW h \in Houses PROVE SettingsInv /\ Holds(h) => SettingsInv'
  <1> SUFFICES ASSUME SettingsInv, Holds(h) PROVE SettingsInv'
    OBVIOUS
  <1>1. worker \in [Houses -> HouseWorkers] /\ run[h] = NoRun
    BY DEF SettingsInv, SettingsTyped, Holds
  <1>2. worker' = [worker EXCEPT ![h] = [worker[h] EXCEPT !.phase = "execution"]]
    BY <1>1 DEF Holds
  <1> DEFINE w == [worker[h] EXCEPT !.phase = "execution"]
  <1>3. w \in HouseWorkers /\ w.live = worker[h].live
    BY <1>1, PhaseGoes
  <1> HIDE DEF w
  <1>4. worker' \in [Houses -> HouseWorkers] /\ worker'[h].live = worker[h].live
        /\ \A g \in Houses \ {h} : worker'[g] = worker[g]
    BY <1>1, <1>2, <1>3 DEF w
  <1>5. UNCHANGED <<catalog, town, config, run, discovered, choices, dispatches, restarts, chosen>>
    BY DEF Holds, limits
  <1>6. RunsAsCaptured'
    BY <1>1, <1>4, <1>5 DEF SettingsInv, RunsAsCaptured
  <1> QED BY <1>4, <1>5, <1>6 DEF SettingsInv, SettingsTyped, Whole, ChoicesKept, NoLocalFallback, OneLife

LEMMA DispatchesKeeps == ASSUME NEW h \in Houses PROVE SettingsInv /\ Dispatches(h) => SettingsInv'
  <1> SUFFICES ASSUME SettingsInv, Dispatches(h) PROVE SettingsInv'
    OBVIOUS
  <1>1. /\ Whole(config) /\ chosen = config.own /\ catalog \in Versions /\ h \in Owners
        /\ "town" \in Owners
    BY DEF SettingsInv, SettingsTyped, ChoicesKept, Owners
  <1>2. /\ Whole(config') /\ config'.place = config.place /\ config'.pins = config.pins
        /\ \A o \in Owners : Pinned(config.own[o], config'.own[o]) = config'.own[o]
    <2>1. config' = AtDispatch
      BY DEF Dispatches
    <2>2. CASE config' = TownPrepared(config, NoAsk)
      BY <1>1, <2>2, TownPreparedIs, NoAskAsks DEF Owners
    <2>3. CASE config' = config
      <3>1. \A p \in AgentProfiles : p.def = Unpinned => [p EXCEPT !.def = p.def] = p
        BY DEF AgentProfiles
      <3>2. config.own \in [Owners -> AgentProfiles \cup {Inherits}]
        BY <1>1, ConfigParts
      <3>3. \A o \in Owners : Pinned(config.own[o], config.own[o]) = config.own[o]
        BY <3>1, <3>2 DEF Pinned
      <3> QED BY <1>1, <2>3, <3>3
    <2> QED BY <2>1, <2>2, <2>3 DEF AtDispatch
  <1> DEFINE d == config'
             agent == ProfileOf(d, h)
             place == PlaceOf(d, h)
             pin == IF Managed(place) THEN d.pins[place] ELSE Unpinned
  <1>3. ChoicesKept'
    <2>1. chosen' = [o \in Owners |-> Pinned(config.own[o], d.own[o])]
      BY <1>1 DEF Dispatches, Completed
    <2>2. d.own \in [Owners -> AgentProfiles \cup {Inherits}]
      BY <1>2, ConfigParts
    <2> QED BY <1>2, <2>1, <2>2 DEF ChoicesKept
  <1>4. agent \in AgentProfiles /\ place \in Places /\ pin \in Pins
    <2>1. agent \in AgentProfiles /\ place \in Places /\ d.pins \in [Profiles -> Pins]
      BY <1>1, <1>2, ConfigParts
    <2>2. Managed(place) => place \in Profiles
      BY <2>1 DEF Managed, Places
    <2> QED BY <2>1, <2>2 DEF Pins
  <1>5. Managed(place) => h \in Remote /\ pin # Unpinned
    <2>1. place = PlaceOf(config, h)
      BY <1>2 DEF PlaceOf
    <2> QED BY <1>2, <2>1 DEF Dispatches, Held
  <1>6. /\ run[h] = NoRun /\ ~town.deleted /\ town \in [deleted : BOOLEAN, life : Nat]
        /\ worker[h].phase \in {"", "execution"}
        /\ worker \in [Houses -> HouseWorkers] /\ run \in [Houses -> {NoRun} \cup Waiting \cup Working]
    <2>1. worker \in [Houses -> HouseWorkers]
      BY DEF SettingsInv, SettingsTyped
    <2> QED BY <2>1, PhaseGoes DEF Dispatches, SettingsInv, SettingsTyped
  <1> DEFINE w == [phase |-> worker[h].phase, live |-> TRUE, agent |-> agent, place |-> place]
             r == [pc |-> "dispatched", life |-> town.life, agent |-> agent, place |-> place, pin |-> pin]
  <1>7. worker' = [worker EXCEPT ![h] = w] /\ run' = [run EXCEPT ![h] = r]
        /\ UNCHANGED <<catalog, town, discovered, choices, restarts>>
    BY DEF Dispatches
  <1>8. w \in HouseWorkers /\ w.live /\ w.agent = agent /\ w.place = place
    BY <1>4, <1>6 DEF HouseWorkers
  <1>9. r \in Waiting /\ r.life = town.life /\ r.agent = agent /\ r.place = place /\ r.pin = pin
    BY <1>4, <1>6 DEF Waiting
  <1>10. r # NoRun
    BY DEF NoRun
  <1>11. dispatches' \in 0..MaxDispatches
    BY SettingsConstants DEF Dispatches, SettingsInv, SettingsTyped
  <1> HIDE DEF agent, place, pin, w, r
  <1>12. /\ worker' \in [Houses -> HouseWorkers] /\ run' \in [Houses -> {NoRun} \cup Waiting \cup Working]
         /\ worker'[h] = w /\ run'[h] = r
         /\ \A g \in Houses \ {h} : worker'[g] = worker[g] /\ run'[g] = run[g]
    BY <1>6, <1>7, <1>8, <1>9
  <1>13. RunsAsCaptured' /\ NoLocalFallback'
    BY <1>5, <1>8, <1>9, <1>10, <1>12 DEF SettingsInv, RunsAsCaptured, NoLocalFallback
  <1>14. OneLife' /\ \A g \in Houses : run'[g] # NoRun => run'[g].life <= town.life
    <2>1. ASSUME NEW g \in Houses \ {h}, run[g] # NoRun PROVE run'[g].life = town.life
      BY <1>6, <1>12, <2>1 DEF SettingsInv, OneLife
    <2>2. run'[h].life = town.life /\ town' = town /\ town.life \in Nat
      BY <1>6, <1>7, <1>9, <1>12
    <2>3. ASSUME NEW g \in Houses, run'[g] # NoRun PROVE run'[g].life = town.life
      <3>1. CASE g = h
        BY <2>2, <3>1
      <3>2. CASE g # h
        BY <1>12, <2>1, <2>3, <3>2
      <3> QED BY <3>1, <3>2
    <2>4. OneLife'
      BY <2>2, <2>3 DEF OneLife
    <2> QED BY <2>2, <2>3, <2>4
  <1> QED BY <1>2, <1>3, <1>7, <1>11, <1>12, <1>13, <1>14 DEF SettingsInv, SettingsTyped

LEMMA AgentStartsKeeps == ASSUME NEW h \in Houses PROVE SettingsInv /\ AgentStarts(h) => SettingsInv'
  <1> SUFFICES ASSUME SettingsInv, AgentStarts(h) PROVE SettingsInv'
    OBVIOUS
  <1> DEFINE r == run[h]
             v == IF Managed(r.place) THEN r.pin
                  ELSE IF r.agent.harness = "custom" \/ r.agent.def # Unpinned THEN r.agent.def
                  ELSE catalog
             to == [pc |-> "running", life |-> r.life, agent |-> r.agent, place |-> r.place,
                    pin |-> r.pin, with |-> v]
  <1>1. /\ run' = [run EXCEPT ![h] = to] /\ r.pc = "dispatched"
        /\ UNCHANGED <<catalog, town, config, worker, discovered, choices, dispatches, restarts, chosen>>
    BY DEF AgentStarts, limits
  <1>2. run \in [Houses -> {NoRun} \cup Waiting \cup Working] /\ catalog \in Versions
    BY DEF SettingsInv, SettingsTyped
  <1>3. r \in Waiting
    BY <1>1, <1>2 DEF NoRun, Working
  <1>4. v \in Versions \cup Pins
    BY <1>2, <1>3 DEF Waiting, AgentProfiles, Pins
  <1> HIDE DEF v
  <1>5. to \in Working /\ to.life = r.life /\ to.agent = r.agent /\ to.place = r.place /\ to.pin = r.pin
    BY <1>3, <1>4 DEF Waiting, Working
  <1>6. to # NoRun /\ r # NoRun
    BY <1>1 DEF NoRun
  <1> HIDE DEF to
  <1>7. /\ run' \in [Houses -> {NoRun} \cup Waiting \cup Working] /\ run'[h] = to
        /\ \A g \in Houses \ {h} : run'[g] = run[g]
    BY <1>1, <1>2, <1>5
  <1>8. RunsAsCaptured' /\ NoLocalFallback' /\ OneLife'
    BY <1>1, <1>5, <1>6, <1>7 DEF SettingsInv, RunsAsCaptured, NoLocalFallback, OneLife
  <1>9. SettingsTyped'
    <2>1. \A g \in Houses : run'[g] # NoRun => run'[g].life <= town.life
      BY <1>5, <1>6, <1>7 DEF SettingsInv, SettingsTyped
    <2> QED BY <1>1, <1>7, <2>1 DEF SettingsInv, SettingsTyped
  <1> QED BY <1>1, <1>8, <1>9 DEF SettingsInv, Whole, ChoicesKept

LEMMA EndsKeeps == ASSUME NEW h \in Houses PROVE SettingsInv /\ Ends(h) => SettingsInv'
  <1> SUFFICES ASSUME SettingsInv, Ends(h) PROVE SettingsInv'
    OBVIOUS
  <1> DEFINE w == [phase |-> worker[h].phase, live |-> FALSE]
  <1>1. worker' = [worker EXCEPT ![h] = w] /\ run' = [run EXCEPT ![h] = NoRun]
        /\ UNCHANGED <<catalog, town, config, discovered, choices, dispatches, restarts, chosen>>
    BY DEF Ends, limits
  <1>2. worker \in [Houses -> HouseWorkers] /\ run \in [Houses -> {NoRun} \cup Waiting \cup Working]
    BY DEF SettingsInv, SettingsTyped
  <1>3. w \in HouseWorkers /\ ~w.live
    BY <1>2, PhaseGoes DEF HouseWorkers
  <1> HIDE DEF w
  <1>4. /\ worker' \in [Houses -> HouseWorkers] /\ run' \in [Houses -> {NoRun} \cup Waiting \cup Working]
        /\ worker'[h] = w /\ run'[h] = NoRun
        /\ \A g \in Houses \ {h} : worker'[g] = worker[g] /\ run'[g] = run[g]
    BY <1>1, <1>2, <1>3
  <1>5. RunsAsCaptured' /\ NoLocalFallback' /\ OneLife'
    BY <1>1, <1>3, <1>4 DEF SettingsInv, RunsAsCaptured, NoLocalFallback, OneLife
  <1>6. SettingsTyped'
    BY <1>1, <1>4 DEF SettingsInv, SettingsTyped
  <1> QED BY <1>1, <1>5, <1>6 DEF SettingsInv, Whole, ChoicesKept

LEMMA RestartsKeeps == SettingsInv /\ Restarts => SettingsInv'
  <1> SUFFICES ASSUME SettingsInv, Restarts PROVE SettingsInv'
    OBVIOUS
  <1>1. run' = [h \in Houses |-> NoRun] /\ discovered' = Nothing
        /\ worker' = [h \in Houses |-> [phase |-> worker[h].phase, live |-> FALSE]]
        /\ restarts' = restarts + 1 /\ restarts' \in 0..MaxRestarts
        /\ UNCHANGED <<catalog, choices, dispatches>>
    BY SettingsConstants DEF Restarts, SettingsInv, SettingsTyped
  <1>2. Whole(config') /\ ChoicesKept'
    BY FileConfigsAreWhole DEF Restarts, SettingsInv, Whole, ChoicesKept
  <1>3. town' \in [deleted : BOOLEAN, life : Nat] /\ town'.life <= choices + restarts'
    <2>1. town' = town \/ town' = [deleted |-> FALSE, life |-> town.life + 1]
      BY DEF Restarts
    <2>2. /\ town \in [deleted : BOOLEAN, life : Nat] /\ town.life <= choices + restarts
          /\ choices \in Nat /\ restarts \in Nat
      BY DEF SettingsInv, SettingsTyped
    <2>3. CASE town' = town
      BY <1>1, <2>2, <2>3
    <2>4. CASE town' = [deleted |-> FALSE, life |-> town.life + 1]
      <3>1. town.life + 1 \in Nat /\ town.life + 1 <= choices + restarts'
        BY <1>1, <2>2
      <3> QED BY <2>4, <3>1
    <2> QED BY <2>1, <2>3, <2>4
  <1>4. worker' \in [Houses -> HouseWorkers] /\ \A h \in Houses : ~worker'[h].live
    <2>1. \A h \in Houses : worker[h].phase \in {"", "execution"}
      BY PhaseGoes DEF SettingsInv, SettingsTyped
    <2> QED BY <1>1, <2>1 DEF HouseWorkers
  <1>5. SettingsTyped'
    BY <1>1, <1>3, <1>4 DEF SettingsInv, SettingsTyped
  <1>6. RunsAsCaptured' /\ NoLocalFallback' /\ OneLife'
    BY <1>1, <1>4 DEF RunsAsCaptured, NoLocalFallback, OneLife
  <1> QED BY <1>2, <1>5, <1>6 DEF SettingsInv

LEMMA SettingsStep == SettingsInv /\ [SettingsNext]_settings => SettingsInv'
  <1> SUFFICES ASSUME SettingsInv, [SettingsNext]_settings PROVE SettingsInv'
    OBVIOUS
  <1>1. CASE UNCHANGED settings
    BY <1>1 DEF settings, limits, SettingsInv, SettingsTyped, Whole, ChoicesKept, RunsAsCaptured,
                NoLocalFallback, OneLife
  <1>2. CASE \E h \in Houses : Holds(h) \/ Dispatches(h) \/ AgentStarts(h) \/ Ends(h)
    BY <1>2, HoldsKeeps, DispatchesKeeps, AgentStartsKeeps, EndsKeeps
  <1>3. CASE RegistryRefreshes \/ EditTown \/ EditBot \/ EditPlace \/ Discovers \/ PinsRuntime
    BY <1>3, RegistryRefreshesKeeps, EditTownKeeps, EditBotKeeps, EditPlaceKeeps, DiscoversKeeps,
       PinsRuntimeKeeps
  <1>4. CASE DeleteTown \/ RestoreTown \/ Restarts
    BY <1>4, DeleteTownKeeps, RestoreTownKeeps, RestartsKeeps
  <1> QED BY <1>1, <1>2, <1>3, <1>4 DEF SettingsNext

\* A town comes back only by a command or a restart, which bounds its lives.
LEMMA SettingsInvHolds == SettingsInv => SettingsHold
  <1> SUFFICES ASSUME SettingsInv PROVE SettingsHold
    OBVIOUS
  <1>1. town \in [deleted : BOOLEAN, life : 0..MaxChoices + MaxRestarts]
    BY SettingsConstants DEF SettingsInv, SettingsTyped
  <1>2. ASSUME NEW h \in Houses, run[h] # NoRun
        PROVE  /\ run[h].pc \in {"dispatched", "running"} /\ run[h].life \in 0..town.life
               /\ run[h].agent \in AgentProfiles /\ run[h].place \in Places
               /\ run[h].pin \in Runtimes \cup {Unpinned}
               /\ run[h].pc = "running" => run[h].with \in Versions \cup Runtimes \cup {Unpinned}
    <2>1. run[h].life <= town.life /\ town.life \in Nat /\ run[h] \in Waiting \cup Working
      BY <1>2 DEF SettingsInv, SettingsTyped
    <2>2. CASE run[h] \in Waiting
      BY <2>1, <2>2 DEF Waiting, Pins
    <2>3. CASE run[h] \in Working
      BY <2>1, <2>3 DEF Working, Pins
    <2> QED BY <2>1, <2>2, <2>3
  <1>3. SettingsTypeOK
    BY <1>1, <1>2 DEF SettingsInv, SettingsTyped, SettingsTypeOK, Whole, HouseWorkers, Findings
  <1> QED BY <1>3 DEF SettingsInv, SettingsHold

\* Whatever is edited, refreshed, deleted, restored or restarted, and however
\* many runs there are: the operator's choices stay as they were made, a run and
\* what its house shows are what was captured at its dispatch, work placed on
\* Mjolnir is never run elsewhere, and no run outlives its town (Prepare,
\* execute, executionHold, add).
THEOREM SettingsAreKept == SettingsSpec => []SettingsHold
  BY SettingsStart, SettingsStep, SettingsInvHolds, PTL DEF SettingsSpec
=============================================================================
