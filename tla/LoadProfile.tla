---------------------------- MODULE LoadProfile ----------------------------
(***************************************************************************)
(* k6's `ramping-arrival-rate` executor running the scenarios of the load  *)
(* scripts, one second per step.  The executor is the environment: the    *)
(* scripts only give it data (LoadScripts.tla).  What it does with them:  *)
(*                                                                         *)
(*  - the start rate moves linearly from one stage target to the next,    *)
(*    beginning at startRate, in iterations per timeUnit;                  *)
(*  - iterations are started at the times the integral of that rate       *)
(*    reaches the next whole number;                                       *)
(*  - an iteration takes a VU for as long as its default function runs;   *)
(*  - preAllocatedVUs VUs exist at the start; an iteration that finds no  *)
(*    idle VU is dropped, and k6 initialises one more VU for it unless    *)
(*    maxVUs VUs exist already ("Insufficient VUs" in k6's log).           *)
(*                                                                         *)
(* The integral is exact: rates are scaled by the least common multiple   *)
(* of the stage durations, so each second's share is a whole number over  *)
(* one denominator, and the remainder is carried to the next second.      *)
(* The default function is taken to run to its HTTP timeout, the longest  *)
(* it can hold a VU.  VU initialisation is taken to finish within the     *)
(* second it starts in.                                                    *)
(***************************************************************************)
EXTENDS Integers, Sequences
LOCAL INSTANCE SequencesExt

CONSTANTS
    Script,     \* names of the scripts run side by side
    Scenario,   \* Script -> the scenario record a script exports
    Default     \* Script -> the requests its default function makes

VARIABLES
    now,          \* seconds since the scenario started
    carry,        \* Script -> the part of an iteration owed, scaled by Den
    window,       \* Script -> iterations started in each of the last seconds
    busy,         \* Script -> VUs running an iteration
    vus,          \* Script -> VUs initialised
    dropped,      \* Script -> iterations dropped for want of an idle VU
    insufficient  \* Script -> of those, the ones dropped with maxVUs reached

vars == <<now, carry, window, busy, vus, dropped, insufficient>>

\* The conversion of a k6 duration string: its amount times its unit.
UnitSeconds == [u \in {"s", "m"} |-> IF u = "s" THEN 1 ELSE 60]
ToSeconds(d) == d.amount * UnitSeconds[d.unit]

Total(seq) == FoldLeft(LAMBDA a, b : a + b, 0, seq)
Least(a, b) == IF a <= b THEN a ELSE b

RECURSIVE Gcd(_, _)
Gcd(a, b) == IF b = 0 THEN a ELSE Gcd(b, a % b)
Lcm(a, b) == (a * b) \div Gcd(a, b)

(***************************************************************************)
(* The rate profile of a scenario record sc.                              *)
(***************************************************************************)
Duration(sc, i) == ToSeconds(sc.stages[i].duration)
StageStart(sc, i) == Total([j \in 1..(i - 1) |-> Duration(sc, j)])
Length(sc) == StageStart(sc, Len(sc.stages) + 1)
From(sc, i) == IF i = 1 THEN sc.startRate ELSE sc.stages[i - 1].target
Grain(sc) == FoldLeft(Lcm, 1, [i \in DOMAIN sc.stages |-> Duration(sc, i)])

\* The rate at second s (0 <= s <= Length(sc)), times Grain(sc).
ScaledRate(sc, s) ==
    IF s = Length(sc) THEN sc.stages[Len(sc.stages)].target * Grain(sc)
    ELSE LET i == CHOOSE j \in DOMAIN sc.stages :
                      StageStart(sc, j) <= s /\ s < StageStart(sc, j + 1)
             d == Duration(sc, i)
         IN  (From(sc, i) * d + (sc.stages[i].target - From(sc, i))
                                * (s - StageStart(sc, i))) * (Grain(sc) \div d)

\* Iterations in second s, times Den(sc): the trapezoid is exact on a line.
Den(sc) == 2 * ToSeconds(sc.timeUnit) * Grain(sc)
Share(sc, s) ==
    IF s < Length(sc) THEN ScaledRate(sc, s) + ScaledRate(sc, s + 1) ELSE 0

\* How long one iteration holds its VU: each request up to its timeout.
Occupancy(p) == Total([i \in DOMAIN Default[p] |-> ToSeconds(Default[p][i].timeout)])

Horizon == Max({Length(Scenario[p]) : p \in Script})

ASSUME \A p \in Script :
         /\ Scenario[p].executor = "ramping-arrival-rate"
         /\ Occupancy(p) >= 1

-----------------------------------------------------------------------------

\* Iterations still running at the start of this second: the oldest
\* entry of the window ran its full time and has ended.
Running(p) == busy[p] - Head(window[p])

Init ==
    /\ now = 0
    /\ carry = [p \in Script |-> 0]
    /\ window = [p \in Script |-> [i \in 1..Occupancy(p) |-> 0]]
    /\ busy = [p \in Script |-> 0]
    /\ vus = [p \in Script |-> Scenario[p].preAllocatedVUs]
    /\ dropped = [p \in Script |-> 0]
    /\ insufficient = [p \in Script |-> 0]

\* One second of every executor: the oldest iterations end, the iterations
\* due start on idle VUs, the rest are dropped and each asks for a new VU.
Tick ==
    LET owed(p)  == carry[p] + Share(Scenario[p], now)
        due(p)   == owed(p) \div Den(Scenario[p])
        start(p) == Least(due(p), vus[p] - Running(p))
        drop(p)  == due(p) - start(p)
        grow(p)  == Least(drop(p), Scenario[p].maxVUs - vus[p])
    IN  /\ now < Horizon
        /\ now' = now + 1
        /\ carry' = [p \in Script |-> owed(p) % Den(Scenario[p])]
        /\ window' = [p \in Script |-> Append(Tail(window[p]), start(p))]
        /\ busy' = [p \in Script |-> Running(p) + start(p)]
        /\ vus' = [p \in Script |-> vus[p] + grow(p)]
        /\ dropped' = [p \in Script |-> dropped[p] + drop(p)]
        /\ insufficient' =
               [p \in Script |-> insufficient[p] + drop(p) - grow(p)]

\* After the last stage the executors start nothing more; the run is over.
Spec == Init /\ [][Tick]_vars

-----------------------------------------------------------------------------

TypeOK ==
    /\ now \in 0..Horizon
    /\ \A p \in Script :
         /\ carry[p] \in 0..(Den(Scenario[p]) - 1)
         /\ window[p] \in [1..Occupancy(p) -> Nat]
         /\ vus[p] \in Scenario[p].preAllocatedVUs..Scenario[p].maxVUs
         /\ busy[p] \in 0..vus[p]
         /\ dropped[p] \in Nat /\ insufficient[p] \in 0..dropped[p]

\* maxVUs is enough: whenever an iteration of a script finds every VU busy,
\* k6 may still initialise one more for it, even when every GET of the
\* default function runs until its timeout.  No "Insufficient VUs" drop.
NeverInsufficientVUs == \A p \in Script : insufficient[p] = 0

\* maxVUs is "to allow dynamic scaling if needed" (matchday-widget.js), "for
\* scaling up as needed" (pusherino.js): growing the pool from
\* preAllocatedVUs keeps up, so every iteration the profile schedules finds
\* an idle VU and none is dropped while k6 initialises VUs mid-test.
NoDroppedIterations == \A p \in Script : dropped[p] = 0

=============================================================================
