---------------------------- MODULE MCEventStream ----------------------------
(* The subscriptions clients make: the app's with and without its scope on   *)
(* screen, the command line's, and none.                                     *)
EXTENDS EventStream, TLC

MCSubscriptions == {{}, {"spank"}, {"spank", "telemetry"}}
Symmetry == Permutations(Conns)
=============================================================================
