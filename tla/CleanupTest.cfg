\* A healthy operator: the initializer pod within 9 s, before the 10 s
\* sleep ends; every operator step within 3 s; a k6 run of 20 to 30 s.
\* The TestRun finishes, is deleted and its pods are collected well inside
\* the 2 m wait.
CONSTANTS
    Runners = 2
    Cleanup = TRUE
    BootMax = 9
    StageMax = 3
    RunMin = 20
    RunMax = 30
INIT Init
NEXT Next
INVARIANT NoSpuriousFail
