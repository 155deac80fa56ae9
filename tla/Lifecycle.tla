------------------------------ MODULE Lifecycle ------------------------------
(***************************************************************************)
(* Who starts and stops daemons: the app with its child (supervisor.rs,    *)
(* single_instance.rs, lib.rs run), launchd with the agent (launchd.rs) and *)
(* the agent's commands.  SocketClaim is the daemons' side; the app claims  *)
(* a socket of its own by the same steps, to be the only one of its kind.  *)
(*                                                                         *)
(* A child is named by its app.  An app runs under one name again only when *)
(* that name's child is gone; a second app stands for an earlier relaunch. *)
(***************************************************************************)
EXTENDS SocketClaim

CONSTANTS
    Apps,           \* copies of the app
    Bundled,        \* those that find a daemon beside them, by which their child is named
    Agent,          \* the daemon that launchd runs
    MaxCrashes      \* how many processes may crash or be killed from outside

ASSUME LifecycleAssumption ==
    /\ Bundled \subseteq Apps /\ Agent \notin Apps /\ Daemons = Bundled \cup {Agent}
    /\ None \notin Apps /\ "stale" \notin Apps
    /\ MaxCrashes \in Nat

VARIABLES
    lock, claim, contested, settled,    \* SocketClaim's variables, for app.sock
    stage,      \* how far each app is with its daemon, once it has the lock
    child,      \* Supervisor.child is there, and with it the pipe to its stdin
    job,        \* launchd's: not loaded, kept alive, ended well, or on its way out
    cmd,        \* the step an install or uninstall has reached, or "idle"
    misled,     \* history: is_loaded has denied it a job that launchd still has
    crashes

Lock == INSTANCE SocketClaim WITH Daemons <- Apps, path <- lock, state <- claim,
                                  raced <- contested, calm <- settled

lockVars == <<lock, claim, contested, settled>>
appVars == <<lockVars, stage, child>>
agentVars == <<job, cmd, misled>>
lifeVars == <<vars, appVars, agentVars, crashes>>

Steps == {"idle", "poll", "files", "bootstrap"}
Loaded == job # "none"
ChildDown(a) == a \in Bundled => state[a] = "down"

LifeTypeOK ==
    /\ TypeOK /\ Lock!TypeOK
    /\ stage \in [Apps -> {"ensure", "spawn", "await", "up", "stop", "release"}]
    /\ child \in [Apps -> BOOLEAN]
    /\ job \in {"none", "keep", "done", "leaving"}
    /\ cmd \in Steps
    /\ misled \in BOOLEAN
    /\ crashes \in 0..MaxCrashes

LifeInit ==
    /\ Init /\ Lock!Init
    /\ stage = [a \in Apps |-> "ensure"]
    /\ child = [a \in Apps |-> FALSE]
    /\ job = "none" /\ cmd = "idle" /\ misled = FALSE
    /\ crashes = 0

-----------------------------------------------------------------------------
(* The app.                                                                *)

Stage(a, s) == stage' = [stage EXCEPT ![a] = s]
InApp == UNCHANGED <<vars, agentVars, crashes>>

Launch(a) ==
    /\ ChildDown(a)
    /\ Lock!Start(a)
    /\ InApp /\ UNCHANGED <<stage, child>>

(* Mutant: whoever answers is not asked. *)
AcquireAnyway(a) ==
    /\ \/ Lock!Check(a)
       \/ Lock!ProbeSkipped(a)
       \/ Lock!RemoveStale(a)
       \/ Lock!Bind(a)
       \/ Lock!Listen(a)
       \/ Lock!Chmod(a)
    /\ InApp /\ UNCHANGED <<stage, child>>

(* acquire.  An app that is answered asks the first one to show itself and   *)
(* ends.                                                                     *)
Acquire(a) ==
    /\ \/ Lock!Check(a)
       \/ Lock!ProbeAnswered(a)
       \/ Lock!ProbeRefused(a)
       \/ Lock!RemoveStale(a)
       \/ Lock!Bind(a)
       \/ Lock!Listen(a)
       \/ Lock!Chmod(a)
    /\ InApp /\ UNCHANGED <<stage, child>>

(* An error of acquire does not stop the app: it goes on without the lock.   *)
AcquireFails(a) ==
    /\ \/ claim[a] \in {"remove", "chmod"} /\ lock = None
       \/ claim[a] = "bind" /\ lock # None
    /\ claim' = [claim EXCEPT ![a] = "run"]
    /\ contested' = TRUE
    /\ InApp /\ UNCHANGED <<lock, settled, stage, child>>

At(a, s) == claim[a] \in {"run", "leave"} /\ stage[a] = s

(* ensure_running, in setup: a daemon that answers is left to its owner. *)
Attach(a) ==
    /\ At(a, "ensure")
    /\ Answers
    /\ Stage(a, "up")
    /\ InApp /\ UNCHANGED <<lockVars, child>>

NobodyAnswers(a) ==
    /\ At(a, "ensure")
    /\ ~Answers
    /\ Stage(a, "spawn")
    /\ InApp /\ UNCHANGED <<lockVars, child>>

Spawn(a) ==
    /\ At(a, "spawn") /\ a \in Bundled
    /\ Start(a)
    /\ child' = [child EXCEPT ![a] = TRUE]
    /\ Stage(a, "await")
    /\ UNCHANGED <<lockVars, agentVars, crashes>>

(* No binary beside the app, or none that starts. *)
SpawnFails(a) ==
    /\ At(a, "spawn")
    /\ Stage(a, "up")
    /\ InApp /\ UNCHANGED <<lockVars, child>>

(* Somebody answers, the child or not, or ten seconds are over: the app goes *)
(* on, with the child it started.                                            *)
Await(a) ==
    /\ At(a, "await")
    /\ Stage(a, "up")
    /\ InApp /\ UNCHANGED <<lockVars, child>>

(* Mutant: the app closes the pipe and does not wait. *)
QuitAtOnce(a) ==
    /\ At(a, "up")
    /\ Lock!Return(a)
    /\ child' = [child EXCEPT ![a] = FALSE]
    /\ Stage(a, "release")
    /\ InApp

(* Exit: shutdown takes the child, if there is one, and closes its pipe. *)
Quit(a) ==
    /\ At(a, "up")
    /\ Lock!Return(a)
    /\ child' = [child EXCEPT ![a] = FALSE]
    /\ Stage(a, IF child[a] THEN "stop" ELSE "release")
    /\ InApp

ChildStopped(a) ==
    /\ At(a, "stop")
    /\ ChildDown(a)
    /\ Stage(a, "release")
    /\ InApp /\ UNCHANGED <<lockVars, child>>

(* Three seconds are over. *)
KillChild(a) ==
    /\ At(a, "stop") /\ a \in Bundled
    /\ Crash(a)
    /\ Stage(a, "release")
    /\ UNCHANGED <<lockVars, child, agentVars, crashes>>

(* release, and the end of the process. *)
Release(a) ==
    /\ At(a, "release")
    /\ Lock!Leave(a)
    /\ Stage(a, "ensure")
    /\ InApp /\ UNCHANGED child

(* A force quit or a crash closes the pipe like any other descriptor. *)
AppCrash(a) ==
    /\ crashes < MaxCrashes
    /\ crashes' = crashes + 1
    /\ Lock!Crash(a)
    /\ child' = [child EXCEPT ![a] = FALSE]
    /\ Stage(a, "ensure")
    /\ UNCHANGED <<vars, agentVars>>

-----------------------------------------------------------------------------
(* Daemons.                                                                *)

Claims(d) == ClaimStep(d) /\ UNCHANGED <<appVars, agentVars, crashes>>

(* The sensor fails, or a signal comes. *)
Returns(d) ==
    /\ Return(d)
    /\ \/ UNCHANGED job
       \/ d = Agent /\ job = "keep" /\ job' = "done"
    /\ UNCHANGED <<appVars, cmd, misled, crashes>>

(* Mutant: without the thread a child does not notice. *)
ParentIgnored(a) == FALSE /\ UNCHANGED lifeVars

(* The thread that reads stdin has come to its end (daemon.rs:119). *)
ParentGone(a) ==
    /\ ~child[a]
    /\ Return(a)
    /\ UNCHANGED <<appVars, agentVars, crashes>>

Leaves(d) == Leave(d) /\ UNCHANGED <<appVars, agentVars, crashes>>

Killed(d) ==
    /\ crashes < MaxCrashes
    /\ crashes' = crashes + 1
    /\ Crash(d)

DaemonCrash(d) == Killed(d) /\ UNCHANGED <<appVars, agentVars>>

-----------------------------------------------------------------------------
(* launchd and the commands that talk to it.                               *)

(* KeepAlive: an agent that was refused, crashed or failed starts again. *)
LaunchdStarts ==
    /\ job = "keep"
    /\ Start(Agent)
    /\ UNCHANGED <<appVars, agentVars, crashes>>

LaunchdForgets ==
    /\ job = "leaving" /\ state[Agent] = "down"
    /\ job' = "none"
    /\ misled' = FALSE
    /\ UNCHANGED <<vars, appVars, cmd, crashes>>

InCmd == UNCHANGED <<vars, appVars, crashes>>
Step(s) == cmd' = s
Done == Step("idle") /\ misled' = FALSE

(* is_loaded takes every failure of launchctl for a job that is not loaded.  *)
IsLoaded(answer) ==
    /\ answer \in {Loaded, FALSE}
    /\ misled' = (Loaded /\ ~answer)

(* install and uninstall begin with bootout_and_wait: is_loaded, asked once   *)
(* or twice, then launchctl bootout, which signals the agent and returns     *)
(* before launchd has forgotten it.  That it failed is ignored.              *)
Begin ==
    /\ cmd = "idle"
    /\ \E answer \in BOOLEAN :
          /\ IsLoaded(answer)
          /\ Step(IF answer THEN "poll" ELSE "files")
          /\ UNCHANGED job \/ (answer /\ job' = "leaving")
    /\ InCmd

(* Mutant: bootout is taken at its word. *)
GoneSoon ==
    /\ cmd = "poll"
    /\ Step("files")
    /\ InCmd /\ UNCHANGED <<job, misled>>

Gone ==
    /\ cmd = "poll"
    /\ IsLoaded(FALSE)
    /\ Step("files")
    /\ InCmd /\ UNCHANGED job

(* install: with --copy replace_binary removes the old binary and copies the *)
(* new one; the file is written.                                             *)
Install ==
    /\ cmd = "files"
    /\ Step("bootstrap")
    /\ InCmd /\ UNCHANGED <<job, misled>>

Bootstrap ==
    /\ cmd = "bootstrap"
    /\ ~Loaded
    /\ job' = "keep"
    /\ Done
    /\ InCmd

Uninstall ==
    /\ cmd = "files"
    /\ Done
    /\ InCmd /\ UNCHANGED job

(* Five seconds are over, or a file or launchctl says no: bootstrap always   *)
(* does while the job is loaded.                                             *)
CommandFails ==
    /\ cmd # "idle"
    /\ Done
    /\ InCmd /\ UNCHANGED job

(* kickstart -k kills the agent; launchd then starts it anew.  A restart     *)
(* that launchctl fails, or answers wrongly, changes nothing.                *)
Restart ==
    /\ cmd = "idle"
    /\ job \in {"keep", "done"}
    /\ IF state[Agent] = "down" THEN UNCHANGED <<vars, crashes>> ELSE Killed(Agent)
    /\ job' = "keep"
    /\ UNCHANGED <<appVars, cmd, misled>>

Commands ==
    \/ Begin
    \/ Gone
    \/ Install
    \/ Bootstrap
    \/ Uninstall
    \/ CommandFails
    \/ Restart

LifeNext ==
    \/ \E a \in Apps :
        \/ Launch(a)
        \/ Acquire(a)
        \/ AcquireFails(a)
        \/ Attach(a)
        \/ NobodyAnswers(a)
        \/ Spawn(a)
        \/ SpawnFails(a)
        \/ Await(a)
        \/ Quit(a)
        \/ ChildStopped(a)
        \/ KillChild(a)
        \/ Release(a)
        \/ AppCrash(a)
    \/ \E a \in Bundled : ParentGone(a)
    \/ \E d \in Daemons : Claims(d) \/ Returns(d) \/ Leaves(d) \/ DaemonCrash(d)
    \/ LaunchdStarts
    \/ LaunchdForgets
    \/ Commands

(* Daemons run, the thread that reads stdin runs, and launchd starts what it *)
(* keeps alive.  Nothing makes an app, a user or a command go on.            *)
LifeSpec ==
    /\ LifeInit /\ [][LifeNext]_lifeVars
    /\ \A d \in Daemons : WF_lifeVars(Claims(d)) /\ WF_lifeVars(Leaves(d))
    /\ \A a \in Bundled : WF_lifeVars(ParentGone(a))
    /\ WF_lifeVars(LaunchdStarts)

-----------------------------------------------------------------------------
(* Unless two copies of the app started at once, or one could not claim its  *)
(* socket, only one is running (single_instance.rs:1).                       *)
OneApp == Lock!OneOwner

(* An app that quits has stopped its daemon, killed it if need be, by the    *)
(* time it lets another copy of itself in (supervisor.rs:142).               *)
QuitStopsChild == \A a \in Apps : At(a, "release") => ChildDown(a)

(* A child does not outlive its app, whatever ended it (supervisor.rs:15).   *)
ChildFollowsApp == \A a \in Bundled : ~child[a] ~> state[a] = "down"

(* Once no app is left, the agent that launchd keeps alive takes the socket,  *)
(* however often it was refused before (launchd.rs:66).                      *)
AgentTakesOver ==
    <>[](job = "keep" /\ \A a \in Apps : claim[a] = "down") => []<>(state[Agent] = "run")

(* The agent's binary is not replaced, its file not removed and it is not    *)
(* loaded again while it runs (launchd.rs:174, 216), unless launchctl failed *)
(* on the question whether it was still loaded.                              *)
NothingUnderfoot == cmd \in {"files", "bootstrap"} => state[Agent] = "down" \/ misled

-----------------------------------------------------------------------------
(* The inductive invariant behind these properties.                        *)

(* The app's claim of its socket is a claim like any other, until it fails.  *)
LockInv == Lock!TypeOK /\ Lock!ClaimInv /\ Lock!OneOwner

(* How far an app is with its daemon, and that it has none but its child.    *)
StageInv ==
    \A a \in Apps :
        /\ claim[a] \notin {"run", "leave"} => stage[a] = "ensure" /\ ~child[a]
        /\ claim[a] = "run" => stage[a] \in {"ensure", "spawn", "await", "up"}
        /\ claim[a] = "leave" => stage[a] \in {"stop", "release"} /\ ~child[a]
        /\ child[a] => stage[a] \in {"await", "up"}
        /\ claim[a] # "down" /\ ~child[a] /\ stage[a] # "stop" => ChildDown(a)

(* What launchd does not know does not run, and a command touches the files  *)
(* only then or when it was misled.                                          *)
JobInv ==
    /\ job = "none" => state[Agent] = "down"
    /\ cmd \in {"files", "bootstrap"} => job = "none" \/ misled

LifeInv == LifeTypeOK /\ IInv /\ LockInv /\ StageInv /\ JobInv

=============================================================================
