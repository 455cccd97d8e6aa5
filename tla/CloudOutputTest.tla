-------------------------- MODULE CloudOutputTest --------------------------
(***************************************************************************)
(* The default function of src/samples/testrun-cloud-output/test.js        *)
(* against the cluster of TestRunEnv.  The script applies a TestRun, waits *)
(* up to 1 m polling every 10 s for stage "started", counts all pods and  *)
(* runner pods with two separate reads, expects 4 runners plus the        *)
(* initializer and the starter, and waits up to 5 m polling every 10 s    *)
(* for "finished".  Any error of either wait fails the test.  The TestRun *)
(* of this sample sets no cleanup, so the operator only advances stages.  *)
(***************************************************************************)
EXTENDS TestRunEnv

VARIABLES
    pc,        \* where the default function is
    waitFrom,  \* when the current env.wait was called
    nextPoll,  \* when it reads the TestRun next
    allPods    \* the first getN, read before the runner count

vars == <<now, stage, since, pods, pc, waitFrom, nextPoll, allPods>>
script == <<pc, waitFrom, nextPoll, allPods>>

\* Mutant: the started wait polls every minute, as the archive test does.
StartedIntervalMinute == 60

StartedTimeout == 60     \* timeout: "1m"
StartedInterval == 10    \* interval: "10s"
FinishedTimeout == 300   \* timeout: "5m"
FinishedInterval == 10   \* interval: "10s"
ExpectedRunners == 4     \* runnerPods != 4

\* Runner pods exist from "created" until the pods are collected.
RunnerPods == IF pods >= 1 + Runners THEN Runners ELSE 0

Init ==
    /\ now = 0
    /\ EnvInit
    /\ pc = "apply"
    /\ waitFrom = 0 /\ nextPoll = 0
    /\ allPods = 0

\* env.apply(testrun.yaml), then env.wait for "started" begins.
ApplyTestRun ==
    /\ pc = "apply"
    /\ Apply
    /\ pc' = "waitStarted"
    /\ waitFrom' = now /\ nextPoll' = now
    /\ UNCHANGED <<now, allPods>>

\* One read of the wait for "started"; any error fails the test.
WaitStartedPoll ==
    LET result == WaitResult(waitFrom, "started", StartedTimeout)
    IN  /\ pc = "waitStarted" /\ now = nextPoll
        /\ CASE result = "pending" ->
                  nextPoll' = NextRead(waitFrom, StartedInterval, StartedTimeout)
                  /\ UNCHANGED pc
             [] result = "none" -> pc' = "countAll" /\ UNCHANGED nextPoll
             [] OTHER -> pc' = "failed" /\ UNCHANGED nextPoll
        /\ UNCHANGED <<now, env, waitFrom, allPods>>

\* The first getN: all pods of the TestRun.
CountAll ==
    /\ pc = "countAll"
    /\ allPods' = pods
    /\ pc' = "countRunners"
    /\ UNCHANGED <<now, env, waitFrom, nextPoll>>

\* The second getN, then the check; env.wait for "finished" begins.
CountRunners ==
    /\ pc = "countRunners"
    /\ IF RunnerPods # ExpectedRunners \/ allPods # RunnerPods + 2
         THEN pc' = "failed" /\ UNCHANGED <<waitFrom, nextPoll>>
         ELSE pc' = "waitFinished" /\ waitFrom' = now /\ nextPoll' = now
    /\ UNCHANGED <<now, env, allPods>>

\* One read of the wait for "finished"; any error fails the test.
WaitFinishedPoll ==
    LET result == WaitResult(waitFrom, "finished", FinishedTimeout)
    IN  /\ pc = "waitFinished" /\ now = nextPoll
        /\ CASE result = "pending" ->
                  nextPoll' = NextRead(waitFrom, FinishedInterval, FinishedTimeout)
                  /\ UNCHANGED pc
             [] result = "none" -> pc' = "done" /\ UNCHANGED nextPoll
             [] OTHER -> pc' = "failed" /\ UNCHANGED nextPoll
        /\ UNCHANGED <<now, env, waitFrom, allPods>>

Script ==
    ApplyTestRun \/ WaitStartedPoll \/ CountAll \/ CountRunners
    \/ WaitFinishedPoll

\* A second passes while the script waits and the operator is on time.
Tick ==
    /\ pc \in {"waitStarted", "waitFinished"} /\ now < nextPoll
    /\ OnTime
    /\ now' = now + 1
    /\ UNCHANGED <<env, script>>

\* No cleanup: the operator only moves the TestRun through its stages.
Environment == Advance /\ UNCHANGED <<now, script>>

Done == pc \in {"done", "failed"} /\ UNCHANGED vars

Next == Script \/ Environment \/ Tick \/ Done

Spec == Init /\ [][Next]_vars

-----------------------------------------------------------------------------

\* The test fails only when the operator misbehaves: against an operator
\* that starts the k6 run within the minute and keeps it running longer
\* than the 10 s poll interval, both waits see their stage, the two pod
\* counts agree with 4 runners, and fail() is never reached.
NoSpuriousFail == pc # "failed"

=============================================================================
