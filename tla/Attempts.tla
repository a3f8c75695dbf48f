------------------------------ MODULE Attempts ------------------------------
(***************************************************************************)
(* What dispatch promises of one bot's work that may write to GitHub        *)
(* (docs/recovery.md): attempts of one bot follow one another, an attempt   *)
(* is settled by its result, and one whose outcome is unknown is followed   *)
(* by nothing until somebody with evidence says so.                         *)
(***************************************************************************)
CONSTANT Bots
VARIABLE attempt   \* per bot: "none", "open" or "unknown"

TypeOK == attempt \in [Bots -> {"none", "open", "unknown"}]
Init   == attempt = [b \in Bots |-> "none"]

\* The state of every bot of S, all in state from, becomes to.
Change(S, from, to) ==
    /\ \A b \in S : attempt[b] = from
    /\ attempt' = [b \in Bots |-> IF b \in S THEN to ELSE attempt[b]]

Begin(b)     == Change({b}, "none", "open")
Settle(b)    == Change({b}, "open", "none")
Lose(S)      == Change(S, "open", "unknown")
Authorize(S) == Change(S, "unknown", "none")

Next == \/ \E b \in Bots : Begin(b) \/ Settle(b)
        \/ \E S \in SUBSET Bots : Lose(S) \/ Authorize(S)
Spec == Init /\ [][Next]_attempt
=============================================================================
