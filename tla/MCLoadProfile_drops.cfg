\* The three load scripts, every default GET running to its 60 s timeout,
\* asking whether any iteration is dropped while the pool grows.
CONSTANTS
    Script <- MCScript
    Scenario <- MCScenario
    Default <- MCDefault
INIT Init
NEXT Tick
INVARIANT NoDroppedIterations
CHECK_DEADLOCK FALSE
