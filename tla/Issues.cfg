SPECIFICATION FairSpec
CONSTANTS
 Numbers={1,2}
 MaxIntake=1
 Requests={r1}
 Filed={"simplifier"}
 Modes={"auto","suggest"}
 MaxPulls=1
 MaxEvents=2
 MaxFaults=1
 NoTask=NoTask
 Nobody=Nobody
INVARIANTS TypeOK WorkIsBacked DecisionsHold
PROPERTIES DeclineIsCarriedOut
CHECK_DEADLOCK FALSE
