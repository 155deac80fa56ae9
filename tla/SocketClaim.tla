----------------------------- MODULE SocketClaim -----------------------------
(***************************************************************************)
(* Who owns the control socket: server.rs bind and the end of daemon.rs    *)
(* run.  A daemon that starts looks at the socket's path, connects to what *)
(* it finds there, and unlinks and rebinds the path if nothing answers.  On *)
(* its way out it unlinks the path.  No step checks that what it looked at  *)
(* is still there, and no two of them are one.                              *)
(*                                                                         *)
(* A socket is named by the process that bound it.  A process that is gone *)
(* leaves its socket behind as a file nothing listens on.                  *)
(***************************************************************************)
EXTENDS Naturals, FiniteSets

CONSTANTS
    Daemons,    \* processes that may run as the daemon
    None        \* no file at the path

ASSUME ClaimAssumption == None \notin Daemons /\ "stale" \notin Daemons /\ None # "stale"

VARIABLES
    path,       \* whose socket the path leads to: a daemon's, "stale" or None
    state,      \* where each daemon is in run
    \* History, which no action reads:
    raced,      \* two daemons were claiming at once since all were down
    calm        \* since one started with all down, none has crashed or stopped

vars == <<path, state, raced, calm>>

(* bind, step by step; then the loop, and the way out after the loop. *)
Claim == {"check", "probe", "remove", "bind", "listen", "chmod"}
States == {"down", "run", "leave"} \cup Claim

In(steps) == {d \in Daemons : state[d] \in steps}
Claiming == In(Claim)
Serving == In({"run"})
Live == In({"run", "leave"})

(* connect succeeds: the path leads to a socket some live process listens on. *)
Answers == path \in In({"chmod", "run", "leave"})

(* The types, and: a path that leads to a daemon leads to one that has bound *)
(* it and is still there (server.rs:60).                                     *)
TypeOK ==
    /\ path \in Daemons \cup {None, "stale"}
    /\ state \in [Daemons -> States]
    /\ raced \in BOOLEAN
    /\ calm \in BOOLEAN
    /\ path \in Daemons => state[path] \in {"listen", "chmod", "run", "leave"}

Init ==
    /\ path \in {None, "stale"}
    /\ state = [d \in Daemons |-> "down"]
    /\ raced = FALSE
    /\ calm = FALSE

-----------------------------------------------------------------------------
Goto(d, step) == state' = [state EXCEPT ![d] = step]
Continue == UNCHANGED <<raced, calm>>

(* A process ends: its listener closes, and its file stays where it is. *)
Ends(d) ==
    /\ Goto(d, "down")
    /\ path' = IF path = d THEN "stale" ELSE path
    /\ raced' = (raced /\ \E e \in Daemons \ {d} : state[e] # "down")

(* bind returned an error, with nothing for it to clean up. *)
Refused(d) ==
    /\ Ends(d)
    /\ UNCHANGED calm

Start(d) ==
    /\ state[d] = "down"
    /\ Goto(d, "check")
    /\ raced' = (raced \/ Claiming # {})
    /\ calm' = (calm \/ \A e \in Daemons : state[e] = "down")
    /\ UNCHANGED path

Check(d) ==
    /\ state[d] = "check"
    /\ Goto(d, IF path = None THEN "bind" ELSE "probe")
    /\ Continue
    /\ UNCHANGED path

ProbeAnswered(d) ==
    /\ state[d] = "probe"
    /\ Answers
    /\ Refused(d)

(* Mutant: any failure to find a live daemon is taken for a free path. *)
ProbeSkipped(d) ==
    /\ state[d] = "probe"
    /\ Goto(d, "remove")
    /\ Continue
    /\ UNCHANGED path

(* Mutant: a leftover file stops the daemon. *)
ProbeGivesUp(d) ==
    /\ state[d] = "probe"
    /\ ~Answers
    /\ Refused(d)

ProbeRefused(d) ==
    /\ state[d] = "probe"
    /\ ~Answers
    /\ Goto(d, "remove")
    /\ Continue
    /\ UNCHANGED path

RemoveStale(d) ==
    /\ state[d] = "remove"
    /\ path # None
    /\ path' = None
    /\ Goto(d, "bind")
    /\ Continue

(* The file is gone already: remove_file(path)? gives up. *)
RemoveNothing(d) ==
    /\ state[d] = "remove"
    /\ path = None
    /\ Refused(d)

(* UnixListener::bind is a bind and a listen. *)
Bind(d) ==
    /\ state[d] = "bind"
    /\ path = None
    /\ path' = d
    /\ Goto(d, "listen")
    /\ Continue

BindInUse(d) ==
    /\ state[d] = "bind"
    /\ path # None
    /\ Refused(d)

Listen(d) ==
    /\ state[d] = "listen"
    /\ Goto(d, "chmod")
    /\ Continue
    /\ UNCHANGED path

(* set_permissions works on the path, whoever's socket that is now. *)
Chmod(d) ==
    /\ state[d] = "chmod"
    /\ path # None
    /\ Goto(d, "run")
    /\ Continue
    /\ UNCHANGED path

ChmodNothing(d) ==
    /\ state[d] = "chmod"
    /\ path = None
    /\ Refused(d)

(* The loop returns: a signal, the end of the parent's pipe, or a sensor     *)
(* that cannot be opened.  The listener is still open.                       *)
Return(d) ==
    /\ state[d] = "run"
    /\ Goto(d, "leave")
    /\ calm' = FALSE
    /\ UNCHANGED <<path, raced>>

(* The path is unlinked, whoever's socket it leads to, and the process ends. *)
Leave(d) ==
    /\ state[d] = "leave"
    /\ Goto(d, "down")
    /\ path' = None
    /\ raced' = (raced /\ \E e \in Daemons \ {d} : state[e] # "down")
    /\ calm' = FALSE

(* Killed, or crashed, anywhere. *)
Crash(d) ==
    /\ state[d] # "down"
    /\ Ends(d)
    /\ calm' = FALSE

ClaimStep(d) ==
    \/ Check(d)
    \/ ProbeAnswered(d)
    \/ ProbeRefused(d)
    \/ RemoveStale(d)
    \/ RemoveNothing(d)
    \/ Bind(d)
    \/ BindInUse(d)
    \/ Listen(d)
    \/ Chmod(d)
    \/ ChmodNothing(d)

Next ==
    \E d \in Daemons :
        Start(d) \/ ClaimStep(d) \/ Return(d) \/ Leave(d) \/ Crash(d)

Spec == Init /\ [][Next]_vars

-----------------------------------------------------------------------------
(* As long as starts do not overlap, at most one daemon is live, and the     *)
(* path leads to it (server.rs:38, daemon.rs:150).                           *)
OneOwner == ~raced => \A d \in Live : path = d

(* However many start at once, and from whatever an earlier crash left: when *)
(* all are done, and none has crashed or stopped, somebody serves on the     *)
(* path (server.rs:38, "if nothing answers, the path is ours to reclaim").   *)
SomebodyReachable == calm /\ Claiming = {} => path \in Serving

-----------------------------------------------------------------------------
(* The inductive invariant behind these properties.                        *)

(* Without a race one daemon claims at a time; once it has found the path    *)
(* free no other is live, and once it has bound the path it keeps it.        *)
ClaimInv ==
    ~raced =>
        /\ \A d, e \in Claiming : d = e
        /\ In({"remove", "bind", "listen", "chmod"}) # {} => Live = {}
        /\ \A d \in In({"listen", "chmod"}) : path = d

(* In a calm the path is bound, or somebody is on the way to binding it.     *)
ReachInv ==
    calm =>
        \/ path \in In({"listen", "chmod", "run"})
        \/ path = None /\ In({"check", "bind"}) # {}
        \/ path = "stale" /\ In({"check", "probe", "remove"}) # {}

IInv == TypeOK /\ ClaimInv /\ OneOwner /\ ReachInv

=============================================================================
