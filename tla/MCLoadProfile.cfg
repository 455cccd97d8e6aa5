\* The three load scripts, every default GET running to its 60 s timeout.
CONSTANTS
    Script <- MCScript
    Scenario <- MCScenario
    Default <- MCDefault
INIT Init
NEXT Tick
INVARIANTS
    TypeOK
    NeverInsufficientVUs
\* The executors stop starting iterations after the last stage: the run
\* really ends at the horizon.
CHECK_DEADLOCK FALSE
