---------------------------- MODULE ConfigPromise ----------------------------
(***************************************************************************)
(* What the daemon promises about its configuration.  A change is saved    *)
(* before it is published; one that could not be saved is refused, except  *)
(* that detection can always be switched on and off, which changes nothing *)
(* else; and a restart resumes with what was saved, a power loss with what *)
(* has reached the disk.                                                   *)
(*                                                                         *)
(* Of requests that run beside each other only two things are promised:    *)
(* each is published or refused once, as it was asked for, and nothing but *)
(* a usable configuration is ever published or resumed with.               *)
(***************************************************************************)
CONSTANTS
    Conns,      \* client connections
    Configs,    \* the usable configurations, as records with `enabled`
    Default,    \* the one a daemon without a usable file starts with
    NoRequest   \* no request, as a record like the requests

VARIABLES
    up,         \* a daemon is running
    config,     \* the configuration it runs, or ran last
    saved,      \* the configuration the next boot resumes with
    durable,    \* the configurations a boot after a power loss may resume with
    partly,     \* the saved text may be only partly on the disk
    asked,      \* connection |-> its request, not answered yet
    alone       \* the latest request has had no other beside it

vars == <<up, config, saved, durable, partly, asked, alone>>
store == <<saved, durable, partly>>

Waiting == {c \in Conns : asked[c] # NoRequest}

Init ==
    /\ up = FALSE
    /\ config \in Configs
    /\ saved \in Configs
    /\ durable = {saved}
    /\ partly = FALSE
    /\ asked = [c \in Conns |-> NoRequest]
    /\ alone = FALSE

(* What requests that run beside each other leave in the file. *)
Disturbed ==
    /\ saved' \in Configs
    /\ durable' \in SUBSET Configs
    /\ partly' \in BOOLEAN

Ask(c, request, wanted) ==
    /\ asked' = [asked EXCEPT ![c] = [request |-> request, config |-> wanted]]
    /\ alone' = (Waiting = {})
    /\ UNCHANGED <<up, config, store>>

Replace(c) ==
    /\ up
    /\ asked[c] = NoRequest
    /\ \E wanted \in Configs : Ask(c, "set_config", wanted)

(* The switch asks for the running configuration, switched on or off. *)
Switch(c) ==
    /\ up
    /\ asked[c] = NoRequest
    /\ \E value \in BOOLEAN : Ask(c, "set_enabled", [config EXCEPT !.enabled = value])

(* A power loss may still undo the save. *)
Save(c) ==
    /\ asked[c] # NoRequest
    /\ UNCHANGED <<up, config, asked, alone>>
    /\ IF alone
       THEN saved' = asked[c].config /\ partly' = FALSE /\ UNCHANGED durable
       ELSE Disturbed

Publish(c) ==
    /\ asked[c] # NoRequest
    /\ alone /\ asked[c].request = "set_config" => saved = asked[c].config
    /\ config' = asked[c].config
    /\ asked' = [asked EXCEPT ![c] = NoRequest]
    /\ UNCHANGED <<up, store, alone>>

Refuse(c) ==
    /\ asked[c] # NoRequest
    /\ asked[c].request = "set_config"
    /\ asked' = [asked EXCEPT ![c] = NoRequest]
    /\ IF alone THEN UNCHANGED store ELSE Disturbed
    /\ UNCHANGED <<up, config, alone>>

(* What was saved reaches the disk. *)
WriteBack ==
    /\ UNCHANGED <<up, config, saved, partly, asked, alone>>
    /\ durable' = {saved} \cup (IF partly THEN {Default} ELSE {})

(* A file that cannot be used is moved out of the way. *)
Start ==
    /\ ~up
    /\ up' = TRUE
    /\ config' = saved
    /\ partly' \in {partly, FALSE}
    /\ UNCHANGED <<saved, durable, asked, alone>>

Stop ==
    /\ up' = FALSE
    /\ asked' = [c \in Conns |-> NoRequest]
    /\ UNCHANGED <<config, store, alone>>

PowerLoss ==
    /\ up' = FALSE
    /\ asked' = [c \in Conns |-> NoRequest]
    /\ saved' \in durable
    /\ durable' = {saved'}
    /\ partly' = FALSE
    /\ UNCHANGED <<config, alone>>

(* The user edits the file of a stopped daemon. *)
Edit ==
    /\ ~up
    /\ saved' \in Configs
    /\ durable' = {saved'}
    /\ partly' = FALSE
    /\ UNCHANGED <<up, config, asked, alone>>

Next ==
    \/ \E c \in Conns : Replace(c) \/ Switch(c) \/ Save(c) \/ Publish(c) \/ Refuse(c)
    \/ WriteBack
    \/ Start
    \/ Stop
    \/ PowerLoss
    \/ Edit

Spec == Init /\ [][Next]_vars
=============================================================================
