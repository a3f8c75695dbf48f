------------------------------ MODULE Funnels ------------------------------
(***************************************************************************)
(* Source funnels: how Town learns of work in GitHub issues and Slack       *)
(* messages, and the durable protocol by which it writes a lifecycle        *)
(* transition back (funnels.go, funnel_runtime.go, github_funnel.go,        *)
(* slack_funnel.go). There is one funnel of each provider.                  *)
(*                                                                          *)
(* A discovery pass reads a funnel and commits the page, funnel after       *)
(* funnel. A caller of ApplySourceLifecycle takes the task's revision from  *)
(* a snapshot, saves an intent named by item, action and revision, applies  *)
(* it once at the provider and records the result; a caller of              *)
(* ReconcileLifecycle only reads the provider. A step ends where the code   *)
(* calls the provider or the store.                                         *)
(*                                                                          *)
(* Abstractions: a revision is the number of changes that the provider's    *)
(* digest covers; a label or a reaction is the action it stands for; the    *)
(* marker of a reply is the intent. Every read that is not complete is one  *)
(* outcome. The map of pending writes in SlackFunnel is left out, since     *)
(* every call builds an adapter of its own, and so is Slack's cursor, which *)
(* is stored and never read.                                                *)
(***************************************************************************)
EXTENDS Integers, FiniteSets

CONSTANTS
    GitHub, Slack,   \* the items of the two sources
    Actions,         \* lifecycle actions with a configured transition
    Callers,         \* concurrent calls of the lifecycle protocol
    PageSize,        \* items in a page of GitHub's search
    MaxRequests,     \* bound: lifecycle calls
    MaxEdits,        \* bound: what people and the operator change
    MaxFunnelFaults  \* bound: failed calls, failed saves and crashes

Items   == GitHub \cup Slack
Sources == {"github", "slack"}
MaxRev  == MaxEdits + MaxRequests
Revs    == 0..MaxRev

\* What the constants must be.
FunnelConstants ==
    /\ GitHub \cap Slack = {} /\ IsFiniteSet(Items) /\ IsFiniteSet(Callers)
    /\ Actions \subseteq {"claim", "report_blocked", "request_human", "report_complete"}
    /\ PageSize \in Nat \ {0}
    /\ MaxRequests \in Nat /\ MaxEdits \in Nat /\ MaxFunnelFaults \in Nat
ASSUME FunnelConstantsHold == FunnelConstants

VARIABLES
    src,        \* the providers: each item, its labels or reactions, its replies
    writable,   \* the operator's configuration: sources that are not read-only
    tasks,      \* state.json: the task of each item
    sync,       \* state.json: FunnelSyncs
    intents,    \* state.json: FunnelIntents
    caller,     \* lifecycle calls in progress
    discovery,  \* the discovery pass
    requests, edits, funnelfaults,
    puts        \* read by no action: mutations sent for each intent

durable    == <<tasks, sync, intents>>
bounds     == <<requests, edits, funnelfaults>>
funnelVars == <<src, writable, durable, caller, discovery, bounds, puts>>

SourceOf(i) == IF i \in GitHub THEN "github" ELSE "slack"
OfSource(f) == IF f = "github" THEN GitHub ELSE Slack

Statuses == {"queued", "working", "blocked", "needs_human", "complete", "closed"}
TerminalStatus == {"complete", "closed"}
Outcomes == {"none", "complete", "failed"}
IntentStatuses == {"none", "pending", "uncertain", "confirmed", "rejected"}
IntentIds == Items \X Actions \X Revs
SrcItems == [rev : Revs, over : BOOLEAN, marks : SUBSET Actions,
             replies : [Actions -> 0..MaxRequests]]
FunnelTasks == [known : BOOLEAN, rev : Revs, status : Statuses, blocked : BOOLEAN,
          caps : SUBSET Actions]
Pages == [items : SUBSET Items, complete : BOOLEAN, outcome : Outcomes, next : Nat]

NoTask   == [known |-> FALSE, rev |-> 0, status |-> "queued", blocked |-> FALSE, caps |-> {}]
NoCall   == [pc |-> "idle"]
NoPass   == [pc |-> "idle"]

CallPlaces == {"save", "apply", "load", "put", "reply", "confirm", "settle", "probe"}
FunnelTypeOK ==
    /\ src \in [Items -> SrcItems]
    /\ writable \subseteq Sources
    /\ tasks \in [Items -> FunnelTasks]
    /\ sync \in [Sources -> [cursor : Nat, outcome : Outcomes]]
    /\ intents \in [IntentIds -> IntentStatuses]
    /\ \A c \in Callers : caller[c] = NoCall \/
          /\ caller[c].pc \in CallPlaces /\ caller[c].id \in IntentIds
          /\ caller[c].loaded \subseteq Actions /\ caller[c].writable \in BOOLEAN
          /\ caller[c].result \in IntentStatuses
    /\ discovery = NoPass \/
          /\ discovery.pc \in {"read", "commit"} /\ discovery.at \in Sources
          /\ discovery.cursor \in Nat /\ discovery.writable \subseteq Sources
    /\ requests \in 0..MaxRequests /\ edits \in 0..MaxEdits /\ funnelfaults \in 0..MaxFunnelFaults

FunnelInit ==
    /\ src = [i \in Items |-> [rev |-> 0, over |-> FALSE, marks |-> {},
                               replies |-> [a \in Actions |-> 0]]]
    /\ writable = Sources
    /\ tasks = [i \in Items |-> NoTask]
    /\ sync = [f \in Sources |-> [cursor |-> 0, outcome |-> "none"]]
    /\ intents = [d \in IntentIds |-> "none"]
    /\ caller = [c \in Callers |-> NoCall] /\ discovery = NoPass
    /\ requests = 0 /\ edits = 0 /\ funnelfaults = 0
    /\ puts = [d \in IntentIds |-> 0]

FunnelFault == funnelfaults < MaxFunnelFaults /\ funnelfaults' = funnelfaults + 1
Edit  == edits < MaxEdits /\ edits' = edits + 1

-----------------------------------------------------------------------------
(***************************************************************************)
(* The providers, and what people do there.                                 *)
(***************************************************************************)

\* Labels or reactions of an action; a change of them is a new revision.
Marked(i, marks) ==
    IF marks = src[i].marks THEN src[i]
    ELSE [rev |-> src[i].rev + 1, over |-> src[i].over, marks |-> marks,
          replies |-> src[i].replies]

\* A configured label transition: to report a block takes the claim back.
LabelsRemoved(a) == IF a = "report_blocked" THEN {"claim"} ELSE {}
LabelsAfter(labels, a) == (labels \ LabelsRemoved(a)) \cup {a}
LabelsSatisfy(labels, a) == a \in labels /\ labels \cap LabelsRemoved(a) = {}

\* A completed reaction wins over every other; of the others the first counts.
SlackStatus(s) ==
    IF s.over \/ "report_complete" \in s.marks THEN {"complete"}
    ELSE IF s.marks = {} THEN {"queued"}
    ELSE {CASE a = "claim" -> "working" [] a = "report_blocked" -> "blocked"
            [] OTHER -> "needs_human" : a \in s.marks}
ItemStatus(i) ==
    IF i \in Slack THEN SlackStatus(src[i])
    ELSE {IF src[i].over THEN "closed" ELSE "queued"}

\* People edit the item, close it or mark it done.
Edited(i, over) ==
    [rev |-> src[i].rev + 1, over |-> over, marks |-> src[i].marks, replies |-> src[i].replies]
PeopleEdit ==
    /\ Edit
    /\ \E i \in Items : \E over \in {FALSE, TRUE} : src' = [src EXCEPT ![i] = Edited(i, over)]
    /\ UNCHANGED <<writable, durable, caller, discovery, requests, funnelfaults, puts>>

\* The operator makes a source read-only, or writable again.
Reconfigure ==
    /\ Edit
    /\ \E f \in Sources :
          writable' = IF f \in writable THEN writable \ {f} ELSE writable \cup {f}
    /\ UNCHANGED <<src, durable, caller, discovery, requests, funnelfaults, puts>>

-----------------------------------------------------------------------------
(***************************************************************************)
(* Discovery: reconcileFunnels.                                             *)
(***************************************************************************)

\* Both providers advertise every action with a configured transition.
Capabilities(f, writables) == IF f \in writables THEN Actions ELSE {}

\* A pass takes the sources in the order of their names; a source's cursor is
\* read from the state the previous page left.
ReadsFrom(f, w) ==
    [pc |-> "read", at |-> f, cursor |-> sync[f].cursor, writable |-> w]
PassStarts ==
    /\ discovery = NoPass /\ discovery' = ReadsFrom("github", writable)
    /\ UNCHANGED <<src, writable, durable, caller, bounds, puts>>

\* What the adapter returns: the items as they are at this moment.
Seen(S) == {[id |-> i, rev |-> src[i].rev, status |-> st] : i \in S, st \in Statuses}
Observed(S) == {o \in Seen(S) : o.status \in ItemStatus(o.id)}
OnePerItem(os, S) == Cardinality(os) = Cardinality(S) /\ {o.id : o \in os} = S
PageOf(S, page) ==
    \E os \in SUBSET Observed(S) :
        /\ OnePerItem(os, S)
        /\ discovery' = [pc |-> "commit", at |-> discovery.at, cursor |-> discovery.cursor,
                          writable |-> discovery.writable,
                          page |-> [items |-> os, complete |-> page.complete,
                                    outcome |-> page.outcome, next |-> page.next]]

\* A search that succeeds claims full coverage, whatever pages remain.
NextPage(S) ==
    LET at == IF discovery.cursor = 0 THEN 1 ELSE discovery.cursor
    IN  IF Cardinality(S) = PageSize /\ at * PageSize < Cardinality(GitHub) THEN at + 1 ELSE 0
GitHubRead ==
    \E S \in {T \in SUBSET GitHub : Cardinality(T) <= PageSize} :
        \/ /\ PageOf(S, [complete |-> TRUE, outcome |-> "complete", next |-> NextPage(S)])
           /\ UNCHANGED funnelfaults
        \/ FunnelFault /\ PageOf(S, [complete |-> FALSE, outcome |-> "failed", next |-> NextPage(S)])

\* The whole history is read, page by page; a prefix is never complete.
SlackPrefixDone == [complete |-> TRUE, outcome |-> "complete", next |-> 0]
SlackPrefix     == [complete |-> FALSE, outcome |-> "failed", next |-> 0]
SlackRead ==
    \/ /\ PageOf(Slack, [complete |-> TRUE, outcome |-> "complete", next |-> 0])
       /\ UNCHANGED funnelfaults
    \/ FunnelFault /\ \E S \in SUBSET Slack : PageOf(S, SlackPrefix)

\* A source that fails before it returned anything.
ReadFails ==
    /\ FunnelFault
    /\ PageOf({}, [complete |-> FALSE, outcome |-> "failed", next |-> 0])

PassReads ==
    /\ discovery.pc = "read"
    /\ \/ discovery.at = "github" /\ GitHubRead
       \/ discovery.at = "slack" /\ SlackRead
       \/ ReadFails
    /\ UNCHANGED <<src, writable, durable, caller, requests, edits, puts>>

\* ReconcileFunnelPage: an item's task follows the source, and is held while
\* the page that showed it is not complete.
ReconciledTask(i) ==
    LET os == {o \in discovery.page.items : o.id = i}
    IN  IF os = {} THEN tasks[i]
        ELSE LET o == CHOOSE o \in os : TRUE
             IN  [known |-> TRUE, rev |-> o.rev, status |-> o.status,
                  blocked |-> ~discovery.page.complete,
                  caps |-> Capabilities(discovery.at, discovery.writable)]

\* The first source that fails ends the pass.
DiscoveryCommits ==
    /\ discovery.pc = "commit"
    /\ \/ /\ tasks' = [i \in Items |-> ReconciledTask(i)]
          /\ sync' = [sync EXCEPT ![discovery.at] =
                        [cursor |-> discovery.page.next, outcome |-> discovery.page.outcome]]
          /\ discovery' = IF discovery.at = "github" /\ discovery.page.outcome = "complete"
                     THEN ReadsFrom("slack", discovery.writable) ELSE NoPass
          /\ UNCHANGED funnelfaults
       \/ FunnelFault /\ discovery' = NoPass /\ UNCHANGED <<tasks, sync>>
    /\ UNCHANGED <<src, writable, intents, caller, requests, edits, puts>>

-----------------------------------------------------------------------------
(***************************************************************************)
(* Writing a transition back: ApplySourceLifecycle and ExecuteLifecycle.     *)
(***************************************************************************)

Goes(c, pc) == caller' = [caller EXCEPT ![c].pc = pc]
Settles(c, result) == caller' = [caller EXCEPT ![c].pc = "settle", ![c].result = result]
callOnly == <<writable, tasks, sync, discovery, requests, edits>>

\* The task's recorded capabilities and revision authorize the call; a saved
\* intent of that name ends it.
Request(c) ==
    /\ caller[c] = NoCall /\ requests < MaxRequests /\ requests' = requests + 1
    /\ \E i \in Items : \E a \in tasks[i].caps :
          LET d == <<i, a, tasks[i].rev>>
          IN  /\ tasks[i].known /\ intents[d] = "none"
              /\ caller' = [caller EXCEPT ![c] =
                    [pc |-> "save", id |-> d, loaded |-> {}, result |-> "none",
                     writable |-> SourceOf(i) \in writable]]
    /\ UNCHANGED <<src, writable, durable, discovery, edits, funnelfaults, puts>>

\* The intent is durable before the provider is called, and never replaced.
MaySaveOver(d) == TRUE
MaySave(d) == intents[d] = "none"
SavesIntent(c) ==
    /\ caller[c].pc = "save"
    /\ \/ /\ MaySave(caller[c].id)
          /\ intents' = [intents EXCEPT ![caller[c].id] = "pending"]
          /\ Goes(c, "apply") /\ UNCHANGED funnelfaults
       \/ /\ \/ ~MaySave(caller[c].id) /\ UNCHANGED funnelfaults
             \/ FunnelFault
          /\ caller' = [caller EXCEPT ![c] = NoCall] /\ UNCHANGED intents
    /\ UNCHANGED <<src, callOnly, puts>>

\* GitHub has labels for two of the actions only. The configuration of the
\* snapshot decides, not the capability the task recorded earlier.
HasMapping(d) == d[1] \in Slack \/ d[2] \in {"claim", "report_blocked"}
Unsupported(c) == ~caller[c].writable \/ ~HasMapping(caller[c].id)

\* Execute rereads the issue: another revision is a conflict, and uncertain.
Applies(c) ==
    LET i == caller[c].id[1]
    IN  /\ caller[c].pc = "apply"
        /\ \/ Unsupported(c) /\ Settles(c, "rejected") /\ UNCHANGED funnelfaults
           \/ /\ ~Unsupported(c)
              /\ IF i \in Slack THEN Goes(c, "put")
                 ELSE IF src[i].rev = caller[c].id[3] THEN Goes(c, "load")
                 ELSE Settles(c, "uncertain")
              /\ UNCHANGED funnelfaults
           \/ i \in GitHub /\ ~Unsupported(c) /\ Settles(c, "uncertain") /\ FunnelFault
        /\ UNCHANGED <<src, intents, callOnly, puts>>

\* UpdateLabels reads the labels again, then writes the whole set.
LoadsLabels(c) ==
    /\ caller[c].pc = "load"
    /\ \/ /\ caller' = [caller EXCEPT ![c].pc = "put", ![c].loaded = src[caller[c].id[1]].marks]
          /\ UNCHANGED funnelfaults
       \/ Settles(c, "uncertain") /\ FunnelFault
    /\ UNCHANGED <<src, intents, callOnly, puts>>

PutsLabels(c) ==
    LET i == caller[c].id[1]
    IN  /\ caller[c].pc = "put" /\ i \in GitHub
        /\ \/ /\ src' = [src EXCEPT ![i] =
                            Marked(i, LabelsAfter(caller[c].loaded, caller[c].id[2]))]
              /\ puts' = [puts EXCEPT ![caller[c].id] = @ + 1]
              /\ \/ Goes(c, "confirm") /\ UNCHANGED funnelfaults
                 \/ Settles(c, "uncertain") /\ FunnelFault
           \/ Settles(c, "uncertain") /\ FunnelFault /\ UNCHANGED <<src, puts>>
        /\ UNCHANGED <<intents, callOnly>>

ConfirmsLabels(c) ==
    /\ caller[c].pc = "confirm"
    /\ \/ /\ Settles(c, IF LabelsSatisfy(src[caller[c].id[1]].marks, caller[c].id[2])
                        THEN "confirmed" ELSE "uncertain")
          /\ UNCHANGED funnelfaults
       \/ Settles(c, "uncertain") /\ FunnelFault
    /\ UNCHANGED <<src, intents, callOnly, puts>>

\* ApplyLifecycle: the reaction, and the reply only after it. Slack refuses a
\* reaction it already has from Town.
ReplyAnyway(c, added)   == "reply"
AfterReaction(c, added) == IF added THEN "reply" ELSE "settle"
Reacts(c) ==
    LET i == caller[c].id[1]
        a == caller[c].id[2]
        added == a \notin src[i].marks
    IN  /\ caller[c].pc = "put" /\ i \in Slack
        /\ \/ /\ src' = [src EXCEPT ![i] = Marked(i, @.marks \cup {a})]
              /\ puts' = [puts EXCEPT ![caller[c].id] = IF added THEN @ + 1 ELSE @]
              /\ caller' = [caller EXCEPT ![c].pc = AfterReaction(c, added),
                                          ![c].result = "uncertain"]
              /\ UNCHANGED funnelfaults
           \/ /\ added /\ FunnelFault /\ Settles(c, "uncertain")
              /\ \/ /\ src' = [src EXCEPT ![i] = Marked(i, @.marks \cup {a})]
                    /\ puts' = [puts EXCEPT ![caller[c].id] = @ + 1]
                 \/ UNCHANGED <<src, puts>>
        /\ UNCHANGED <<intents, callOnly>>

Replies(c) ==
    LET i == caller[c].id[1]
        a == caller[c].id[2]
    IN  /\ caller[c].pc = "reply"
        /\ \/ /\ src' = [src EXCEPT ![i].replies[a] = @ + 1]
              /\ \/ Settles(c, "confirmed") /\ UNCHANGED funnelfaults
                 \/ Settles(c, "uncertain") /\ FunnelFault
           \/ Settles(c, "uncertain") /\ FunnelFault /\ UNCHANGED src
        /\ UNCHANGED <<intents, callOnly, puts>>

\* The result is recorded. A failed save leaves the intent as it is, and the
\* store refuses Slack's failures: their joined errors span two lines.
Refused(c) == caller[c].result = "uncertain" /\ caller[c].id[1] \in Slack
SettlesIntent(c) ==
    /\ caller[c].pc = "settle" /\ caller' = [caller EXCEPT ![c] = NoCall]
    /\ \/ /\ intents' = IF Refused(c) THEN intents
                        ELSE [intents EXCEPT ![caller[c].id] = caller[c].result]
          /\ UNCHANGED funnelfaults
       \/ FunnelFault /\ UNCHANGED intents
    /\ UNCHANGED <<src, callOnly, puts>>

-----------------------------------------------------------------------------
(***************************************************************************)
(* ReconcileLifecycle: only an uncertain intent, and the provider is only    *)
(* read.                                                                    *)
(***************************************************************************)

Probe(c) ==
    /\ caller[c] = NoCall /\ requests < MaxRequests /\ requests' = requests + 1
    /\ \E d \in IntentIds :
          /\ intents[d] = "uncertain"
          /\ caller' = [caller EXCEPT ![c] =
                [pc |-> "probe", id |-> d, loaded |-> {}, result |-> "none", writable |-> TRUE]]
    /\ UNCHANGED <<src, writable, durable, discovery, edits, funnelfaults, puts>>

\* A receipt is the state the write asked for; its absence proves nothing.
SlackReceipt(d)  == d[1] \in Slack /\ src[d[1]].replies[d[2]] > 0
GitHubReceipt(d) == d[1] \in GitHub /\ LabelsSatisfy(src[d[1]].marks, d[2])
Reconciles(c) ==
    /\ caller[c].pc = "probe"
    /\ \/ /\ Settles(c, IF SlackReceipt(caller[c].id) \/ GitHubReceipt(caller[c].id)
                        THEN "confirmed" ELSE "uncertain")
          /\ UNCHANGED funnelfaults
       \/ Settles(c, "uncertain") /\ FunnelFault
    /\ UNCHANGED <<src, intents, callOnly, puts>>

\* Town's process dies: calls and the pass are gone, what was saved stays.
FunnelCrash ==
    /\ FunnelFault /\ caller' = [c \in Callers |-> NoCall] /\ discovery' = NoPass
    /\ \E c \in Callers : caller[c] # NoCall
    /\ UNCHANGED <<src, writable, durable, requests, edits, puts>>

Call(c) ==
    \/ Request(c) \/ SavesIntent(c) \/ Applies(c) \/ LoadsLabels(c) \/ PutsLabels(c)
    \/ ConfirmsLabels(c) \/ Reacts(c) \/ Replies(c) \/ SettlesIntent(c)
    \/ Probe(c) \/ Reconciles(c)

FunnelNext ==
    \/ PeopleEdit \/ Reconfigure \/ PassStarts \/ PassReads \/ DiscoveryCommits \/ FunnelCrash
    \/ \E c \in Callers : Call(c)

FunnelSpec == FunnelInit /\ [][FunnelNext]_funnelVars

-----------------------------------------------------------------------------
(***************************************************************************)
(* Properties.                                                              *)
(***************************************************************************)

\* An intent changes the provider at most once, whoever calls and although the
\* answer or the process is lost (ExecuteLifecycle, SaveWriteIntent).
OneMutation == \A d \in IntentIds : puts[d] <= 1

\* A Slack message gets one reply for an action, although every revision names
\* an intent of its own and each may be tried (ApplyLifecycle).
OneReply == \A i \in Slack : \A a \in Actions : src[i].replies[a] <= 1

\* A pass that says it covered the channel has left a task for every message
\* of it, whatever the passes before it missed (history, genericDiscovery).
CoveredIsKnown == sync["slack"].outcome = "complete" => \A i \in Slack : tasks[i].known

\* The three together, as the run checks them.
FunnelsHold == OneMutation /\ OneReply /\ CoveredIsKnown

=============================================================================
