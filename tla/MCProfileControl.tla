--------------------------- MODULE MCProfileControl --------------------------
(* Scenarios and schedules for TLC.                                         *)
EXTENDS ProfileControl

\* Each property's scenario, and some in which several writers meet.
MCScenarios ==
    { <<{"auto", "plan"}, {"source", "plan"}>>,
      <<{"auto", "plan", "tray"}, {"source", "plan"}>>,
      <<{"idle", "tray"}, {"idle"}>>,
      <<{"schedule"}, {"time"}>>,
      <<{"display", "idle", "tray"}, {"display", "idle", "console"}>>,
      <<{"memory", "tray"}, {"memory", "menu"}>>,
      <<{"plan", "memory", "tray"}, {"plan", "memory"}>>,
      <<{"service", "auto"}, {"source", "control"}>>,
      <<{"service"}, {"plan", "control", "session"}>> }

\* Only the display, the console session present.
DisplayScenario == {<<{"display", "tray"}, {"display"}>>}

\* All schedules of up to two rules, and one with a time that does not parse.
MCSchedules ==
    LET Good == [from : Time, to : Time, profile : Profile] IN
    {<<>>} \cup {<<e>> : e \in Good} \cup {<<e, f>> : e, f \in Good}
        \cup {<<[from |-> Bad, to |-> 1, profile |-> "aggressive"], e>> : e \in Good}
=============================================================================
