------------------------------ MODULE MCRecords ------------------------------
(***************************************************************************)
(* What Town writes down beside its work, for TLC: what it is told to run, *)
(* what it follows in funnels, and what it archives. A behaviour belongs to*)
(* one of them while the others rest, as in MCTown.                        *)
(***************************************************************************)
EXTENDS Settings, Funnels, StateFile

VARIABLE part

vars == <<part, settings, funnelVars, stateVars>>

PlainFile == CHOOSE c \in FileConfigs : TRUE

RecordsInit ==
    /\ part \in {"settings", "funnels", "archive"}
    /\ SettingsInit /\ (part = "settings" \/ config = PlainFile)
    /\ FunnelInit /\ StateInit

RecordsNext ==
    \/ part = "settings" /\ SettingsNext /\ UNCHANGED <<part, funnelVars, stateVars>>
    \/ part = "funnels"  /\ FunnelNext   /\ UNCHANGED <<part, settings, stateVars>>
    \/ part = "archive"  /\ StateNext    /\ UNCHANGED <<part, settings, funnelVars>>

RecordsSpec == RecordsInit /\ [][RecordsNext]_vars
=============================================================================
