--------------------------- MODULE MCLoadProfile ---------------------------
(***************************************************************************)
(* The three HTTP load scripts under one clock.                            *)
(***************************************************************************)
EXTENDS LoadProfile, LoadScripts

MCScript == {"launch_screen", "matchday-widget", "pusherino"}

MCScenario ==
    [p \in MCScript |->
        CASE p = "launch_screen"   -> LaunchScreen
          [] p = "matchday-widget" -> MatchdayWidget
          [] p = "pusherino"       -> Pusherino]

MCDefault ==
    [p \in MCScript |->
        CASE p = "launch_screen"   -> LaunchScreenDefault
          [] p = "matchday-widget" -> MatchdayWidgetDefault
          [] p = "pusherino"       -> PusherinoDefault]

=============================================================================
