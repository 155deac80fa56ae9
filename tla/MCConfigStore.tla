---------------------------- MODULE MCConfigStore ----------------------------
(* Values for the constants of ConfigStore: a body, one that validate refuses *)
(* and one in an older layout.  Two usable configurations are left, whose     *)
(* texts differ in length by the `enabled` field.                             *)
EXTENDS ConfigStore, TLC

MCBodies == {"plain", "invalid", "legacy"}
MCInvalidBodies == {"invalid"}
MCModern == [b \in MCBodies |-> IF b = "legacy" THEN "plain" ELSE b]
MCBodyLen == [b \in MCBodies |-> 10]

Symmetry == Permutations(Conns)
=============================================================================
