---------------------------- MODULE MCDetectorLoop ----------------------------
(* Only one process runs the loop, so there is nothing to be symmetric in but *)
(* the requests, and liveness rules symmetry out.                             *)
EXTENDS DetectorLoop
=============================================================================
