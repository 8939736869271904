-------------------------- MODULE MCThrottleEngine --------------------------
(* Values for the constants of ThrottleEngine that a .cfg cannot express.   *)
EXTENDS ThrottleEngine, TLC

CONSTANTS p1, p2, p3, app, sys, main, s1

\* Two applications and a process of the base bypass list.
AppAppSys == (p1 :> app) @@ (p2 :> app) @@ (p3 :> sys)

\* Two applications.
AppApp == (p1 :> app) @@ (p2 :> app)

\* One application, and an ID whose process starts later under any name.
AppUnborn == (p1 :> app) @@ (p2 :> Unborn)

=============================================================================
