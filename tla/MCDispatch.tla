----------------------------- MODULE MCDispatch -----------------------------
(***************************************************************************)
(* Dispatch for TLC: the constants are model values or small sets.         *)
(*                                                                         *)
(* Two constraints keep the recovery run small.  HallRests: the Mayor's    *)
(* arrivals wait in a house whose bot rests.  Within bounds crashes and    *)
(* commands together, and has the operator decide an arrival before        *)
(* anything else is commanded.                                             *)
(***************************************************************************)
EXTENDS Dispatch

MaxUpsets == 2

HallRests == \A t \in Towns : ~enabled[<<t, Hall>>]
Arrivals(t) == {k \in Tasks : house[t][k] = Hall}
DecidedFirst ==
    \A t \in Towns :
        /\ Arrivals(t)' \subseteq Arrivals(t)
        /\ commands' # commands => Arrivals(t) = {} \/ Arrivals(t)' # Arrivals(t)

\* The liveness run: one agent of a town is enabled, and one upset happens.
\* With the issue bot it is the retry that cancels its run, with another agent
\* a crash, a shutdown, a stop or the town's deletion.  A save that fails, and
\* with it the end of the service that it forces, comes before that.
OneAgent ==
    \A t \in Towns : \A r, s \in Agents : enabled[<<t, r>>] /\ enabled[<<t, s>>] => r = s
IssueRuns == \E t \in Towns : enabled[<<t, Issue>>]
OneUpset ==
    /\ crashes' + commands' <= 1
    /\ crashes' # crashes => ~IssueRuns
    /\ fatal' => crashes' + commands' = 0
    /\ commands' # commands =>
          IF IssueRuns THEN retrying' # retrying
          ELSE stops' # stops \/ deleted' # deleted

Within == crashes' + commands' <= MaxUpsets /\ DecidedFirst
=============================================================================
