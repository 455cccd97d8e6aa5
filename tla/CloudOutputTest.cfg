\* A healthy operator running the sample's TestRun: 4 runners, no cleanup,
\* the initializer pod within 9 s, every operator step within 3 s, and a k6
\* run that keeps the TestRun "started" for 11 to 30 s.  In whole seconds,
\* 11 is the least that is longer than the 10 s interval for every phase
\* of the reads (a stage held for 10 ticks may last just over 9 s).
CONSTANTS
    Runners = 4
    Cleanup = FALSE
    BootMax = 9
    StageMax = 3
    RunMin = 11
    RunMax = 30
SPECIFICATION Spec
INVARIANT NoSpuriousFail
