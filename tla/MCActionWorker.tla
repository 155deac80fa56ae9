---------------------------- MODULE MCActionWorker ----------------------------
(* Two jobs at once are enough for one to wait while another comes in; the    *)
(* liveness properties rule symmetry out.                                     *)
EXTENDS ActionWorker
=============================================================================
