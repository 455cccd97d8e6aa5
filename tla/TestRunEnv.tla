---------------------------- MODULE TestRunEnv ----------------------------
(***************************************************************************)
(* The cluster the operator e2e tests run against: one TestRun custom      *)
(* resource, the k6-operator reconciling it, and the pods it creates.  It  *)
(* is the environment of the test scripts and is not mapped to code.  What *)
(* it does is what the scripts' own checks and comments expect of it:      *)
(*                                                                         *)
(*  - after `apply` the TestRun goes through the stages initialization,    *)
(*    initialized, created, started, stopped, finished;                    *)
(*  - the initializer pod exists from initialization on ("there should be *)
(*    at least initializer pod by now"), the runner pods from created on   *)
(*    and the starter pod from started on ("N runners pods + initializer  *)
(*    + starter"); finished pods stay until they are deleted;             *)
(*  - with cleanup "post" the finished TestRun is deleted, and its pods    *)
(*    are garbage-collected after it ("TestRun will be deleted some time  *)
(*    between wait checks", "there should be no pods at this point").      *)
(*                                                                         *)
(* Time is in whole seconds.  A healthy operator is one that keeps every  *)
(* step within a bound: it bootstraps within BootMax, stays in a stage at *)
(* most StageMax, and deletes and collects within StageMax each.  The k6  *)
(* test itself keeps the TestRun in "started" between RunMin and RunMax.  *)
(* Tick is allowed only while no deadline has passed.                      *)
(***************************************************************************)
EXTENDS Naturals, Sequences

CONSTANTS
    Runners,    \* runner pods of the TestRun (parallelism)
    Cleanup,    \* TRUE when the TestRun sets cleanup: "post"
    BootMax,    \* seconds from apply to the initializer pod
    StageMax,   \* seconds any later step of the operator may take
    RunMin,     \* seconds the k6 test keeps the TestRun in "started", at least
    RunMax      \* and at most

ASSUME Runners \in Nat \ {0} /\ Cleanup \in BOOLEAN
ASSUME BootMax \in Nat \ {0} /\ StageMax \in Nat \ {0}
ASSUME RunMin \in Nat /\ RunMax \in Nat \ {0} /\ RunMin <= RunMax

VARIABLES
    now,    \* seconds since the test began
    stage,  \* "absent", "applied", a stage of Progress, or "deleted"
    since,  \* when stage last changed
    pods    \* pods labelled app=k6 and k6_cr=<the TestRun>

env == <<stage, since, pods>>

Progress == <<"initialization", "initialized", "created", "started",
              "stopped", "finished">>

\* The pods that exist once a stage is reached.
PodsAt(s) ==
    CASE s = "initialization" -> 1
      [] s = "initialized"    -> 1
      [] s = "created"        -> 1 + Runners
      [] OTHER                -> 2 + Runners

NextStage(s) ==
    IF s = "applied" THEN Progress[1]
    ELSE LET i == CHOOSE j \in 1..(Len(Progress) - 1) : Progress[j] = s
         IN  Progress[i + 1]

EnvInit ==
    /\ stage = "absent"
    /\ since = 0
    /\ pods = 0

\* kubectl apply of the TestRun manifest.
Apply ==
    /\ stage = "absent"
    /\ stage' = "applied"
    /\ since' = now
    /\ UNCHANGED pods

\* The operator moves the TestRun to its next stage.
Advance ==
    /\ stage \in {"applied"} \cup {Progress[i] : i \in 1..(Len(Progress) - 1)}
    /\ stage = "started" => now >= since + RunMin
    /\ stage' = NextStage(stage)
    /\ since' = now
    /\ pods' = PodsAt(stage')

\* cleanup: "post": the finished TestRun is deleted; its pods remain.
Delete ==
    /\ Cleanup
    /\ stage = "finished"
    /\ stage' = "deleted"
    /\ since' = now
    /\ UNCHANGED pods

\* Garbage collection of the pods owned by the deleted TestRun.
Collect ==
    /\ stage = "deleted"
    /\ pods > 0
    /\ pods' = 0
    /\ UNCHANGED <<stage, since>>

EnvNext == Advance \/ Delete \/ Collect

\* The next second may begin only if no step of the operator is overdue.
Deadline ==
    CASE stage = "applied"                 -> since + BootMax
      [] stage = "finished" /\ ~Cleanup    -> now + 1
      [] stage = "deleted" /\ pods = 0     -> now + 1
      [] stage \in {"absent"}              -> now + 1
      [] stage = "started"                 -> since + RunMax
      [] OTHER                             -> since + StageMax

OnTime == now < Deadline

Min2(a, b) == IF a <= b THEN a ELSE b

(***************************************************************************)
(* env.wait of k6/x/environment as the tests use it: it reads the          *)
(* TestRun's status key every interval from the call on.  A read that      *)
(* finds the awaited stage returns null ("none"); once the timeout has     *)
(* passed it returns "context deadline exceeded" ("deadline"); a read of  *)
(* another stage, or of a deleted TestRun, is retried ("pending").        *)
(***************************************************************************)
WaitResult(from, value, timeout) ==
    CASE now >= from + timeout -> "deadline"
      [] stage = value         -> "none"
      [] OTHER                 -> "pending"

NextRead(from, interval, timeout) == Min2(now + interval, from + timeout)

=============================================================================
