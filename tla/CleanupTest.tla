---------------------------- MODULE CleanupTest ----------------------------
(***************************************************************************)
(* The default function of src/samples/testrun-cleanup/test.js against the *)
(* cluster of TestRunEnv.  The script applies a TestRun with cleanup:      *)
(* "post", sleeps 10 s, expects at least one pod, waits up to 2 m polling  *)
(* every 1 s for stage "finished", accepts either no error or the         *)
(* deadline error, and then expects no pods.  Script steps take no time;  *)
(* the operator's steps interleave with them within the same second.      *)
(***************************************************************************)
EXTENDS TestRunEnv

VARIABLES
    pc,        \* where the default function is
    wakeAt,    \* end of sleep(10)
    waitFrom,  \* when env.wait was called
    nextPoll,  \* when env.wait reads the TestRun next
    err        \* what env.wait returned: "none" (null) or "deadline"

vars == <<now, stage, since, pods, pc, wakeAt, waitFrom, nextPoll, err>>
script == <<pc, wakeAt, waitFrom, nextPoll, err>>

BootSleep == 10          \* sleep(10)
WaitTimeout == 120       \* timeout: "2m"
WaitInterval == 1        \* interval: "1s"

Init ==
    /\ now = 0
    /\ EnvInit
    /\ pc = "apply"
    /\ wakeAt = 0 /\ waitFrom = 0 /\ nextPoll = 0
    /\ err = "none"

\* env.apply(testrun.yaml), then sleep(10).
ApplyTestRun ==
    /\ pc = "apply"
    /\ Apply
    /\ pc' = "sleep"
    /\ wakeAt' = now + BootSleep
    /\ UNCHANGED <<now, waitFrom, nextPoll, err>>

\* After the sleep: getN(pods) must be at least 1, then env.wait begins.
CountAfterBoot ==
    /\ pc = "sleep" /\ now = wakeAt
    /\ IF pods < 1
         THEN pc' = "failed" /\ UNCHANGED <<waitFrom, nextPoll>>
         ELSE pc' = "wait" /\ waitFrom' = now /\ nextPoll' = now
    /\ UNCHANGED <<now, env, wakeAt, err>>

\* One read of env.wait: "finished" ends it with null; the context's
\* deadline ends it with "context deadline exceeded"; a missing or other
\* stage sets the next read one interval later.
WaitPoll ==
    LET result == WaitResult(waitFrom, "finished", WaitTimeout)
    IN  /\ pc = "wait" /\ now = nextPoll
        /\ IF result = "pending"
             THEN /\ nextPoll' = NextRead(waitFrom, WaitInterval, WaitTimeout)
                  /\ UNCHANGED <<pc, err>>
             ELSE pc' = "checkErr" /\ err' = result /\ UNCHANGED nextPoll
        /\ UNCHANGED <<now, env, wakeAt, waitFrom>>

\* Both results of wait are accepted; then getN(pods) must be 0.
CheckNoPods ==
    /\ pc = "checkErr"
    /\ pc' = IF err \notin {"none", "deadline"} \/ pods # 0
               THEN "failed" ELSE "done"
    /\ UNCHANGED <<now, env, wakeAt, waitFrom, nextPoll, err>>

Script == ApplyTestRun \/ CountAfterBoot \/ WaitPoll \/ CheckNoPods

\* A second passes while the script sleeps or waits and the operator is on
\* time.
Tick ==
    /\ \/ pc = "sleep" /\ now < wakeAt
       \/ pc = "wait" /\ now < nextPoll
    /\ OnTime
    /\ now' = now + 1
    /\ UNCHANGED <<env, script>>

Environment == EnvNext /\ UNCHANGED <<now, script>>

Done == pc \in {"done", "failed"} /\ UNCHANGED vars

Next == Script \/ Environment \/ Tick \/ Done

Spec == Init /\ [][Next]_vars

-----------------------------------------------------------------------------

\* The test fails only when the operator misbehaves: against an operator
\* that bootstraps before the sleep ends and finishes, deletes and collects
\* within the wait, the default function never reaches fail().
NoSpuriousFail == pc # "failed"

=============================================================================
