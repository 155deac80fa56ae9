------------------------- MODULE MCScopeSubscription -------------------------
(* A socket that holds one frame, or a piece of one and a spank, and two      *)
(* requests.                                                                  *)
EXTENDS ScopeSubscription
=============================================================================
