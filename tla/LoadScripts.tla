---------------------------- MODULE LoadScripts ----------------------------
(***************************************************************************)
(* The HTTP load profiles src/launch_screen.js, src/matchday-widget.js and *)
(* src/pusherino.js.  Each exports one `ramping-arrival-rate` scenario     *)
(* and a default function that makes one GET and checks its status.  The  *)
(* scenario is kept as a record; a k6 duration string such as '4m' is a    *)
(* record of its amount and unit, and LoadProfile.tla converts it.  The    *)
(* default function is kept as the list of requests one iteration makes,   *)
(* each with the timeout it runs under: no params are passed, so it is     *)
(* k6's default of 60 seconds.  URL, token and check name are data the     *)
(* executor never looks at.                                                 *)
(***************************************************************************)
EXTENDS Naturals, Sequences

Minutes(n) == [amount |-> n, unit |-> "m"]
Secs(n)    == [amount |-> n, unit |-> "s"]

\* k6's http.get timeout when the params argument does not set one.
DefaultTimeout == Secs(60)

Get == [method |-> "GET", timeout |-> DefaultTimeout]

Stage(target, duration) == [target |-> target, duration |-> duration]

\* Mutant: preAllocatedVUs and maxVUs written the wrong way round.
LaunchScreenSwappedVUs ==
    [executor |-> "ramping-arrival-rate", startRate |-> 3,
     timeUnit |-> Minutes(1), preAllocatedVUs |-> 1000, maxVUs |-> 100,
     stages |-> << Stage(3, Minutes(1)), Stage(10, Minutes(4)),
                   Stage(757, Minutes(5)), Stage(0, Minutes(2)) >>]

\* Mutant: maxVUs copied from preAllocatedVUs, leaving no room to scale.
LaunchScreenNoScaling ==
    [executor |-> "ramping-arrival-rate", startRate |-> 3,
     timeUnit |-> Minutes(1), preAllocatedVUs |-> 100, maxVUs |-> 100,
     stages |-> << Stage(3, Minutes(1)), Stage(10, Minutes(4)),
                   Stage(757, Minutes(5)), Stage(0, Minutes(2)) >>]

\* options.scenarios.contacts of src/launch_screen.js.
LaunchScreen ==
    [executor |-> "ramping-arrival-rate", startRate |-> 3,
     timeUnit |-> Minutes(1), preAllocatedVUs |-> 100, maxVUs |-> 1000,
     stages |-> << Stage(3, Minutes(1)), Stage(10, Minutes(4)),
                   Stage(757, Minutes(5)), Stage(0, Minutes(2)) >>]

\* The default function of src/launch_screen.js: one GET, then a check.
LaunchScreenDefault == << Get >>

\* options.scenarios.contacts of src/matchday-widget.js.
MatchdayWidget ==
    [executor |-> "ramping-arrival-rate", startRate |-> 300,
     timeUnit |-> Minutes(1), preAllocatedVUs |-> 2000, maxVUs |-> 10000,
     stages |-> << Stage(100, Minutes(1)), Stage(2700, Minutes(4)),
                   Stage(6000, Minutes(5)), Stage(0, Minutes(2)) >>]

\* The default function of src/matchday-widget.js: one GET, then a check.
MatchdayWidgetDefault == << Get >>

\* options.scenarios.contacts of src/pusherino.js.
Pusherino ==
    [executor |-> "ramping-arrival-rate", startRate |-> 300,
     timeUnit |-> Minutes(1), preAllocatedVUs |-> 3000, maxVUs |-> 15000,
     stages |-> << Stage(350, Minutes(1)), Stage(2500, Minutes(4)),
                   Stage(7300, Minutes(5)), Stage(0, Minutes(2)) >>]

\* The default function of src/pusherino.js: one GET, then a check.
PusherinoDefault == << Get >>

=============================================================================
