----------------------------- MODULE ActionWorker -----------------------------
(***************************************************************************)
(* The thread that carries out actions: actions.rs run_worker.  The        *)
(* detector's thread sends jobs, each with the moment it is due; the       *)
(* worker runs them one at a time, keeps those that are not due yet in a   *)
(* list sorted by time, and looks after the audio device, which it opens   *)
(* when a sound comes and releases after a while without one.              *)
(*                                                                         *)
(* Moments are kept as the time that is left until them, which time takes  *)
(* away; what is overdue has none left.                                    *)
(***************************************************************************)
EXTENDS Naturals, Sequences, SequencesExt

CONSTANTS
    Jobs,       \* jobs that may be outstanding at once
    None,
    MaxDelay,   \* longest delay of an action
    SchedTick,  \* shortest wait: SCHEDULER_TICK
    IdlePoll,   \* longest wait: AUDIO_IDLE_POLL
    IdleTimeout \* AUDIO_IDLE_TIMEOUT

ASSUME WorkerAssumption ==
    /\ None \notin Jobs
    /\ MaxDelay \in Nat /\ SchedTick \in Nat /\ IdlePoll \in Nat /\ IdleTimeout \in Nat
    /\ SchedTick <= IdlePoll

VARIABLES
    channel,    \* jobs sent and not received
    pending,    \* jobs received and not due
    kind,       \* what each job is
    left,       \* time until each job is due
    pc,         \* where the worker is
    batch,      \* how many pending jobs were due when this turn began
    job,        \* the job being executed
    wait,       \* time until recv_timeout gives up
    audio,      \* whether the device is open
    age,        \* time since the last sound, up to IdleTimeout + 1
    warm        \* history: sounds the device was opened for in advance

jobs == <<channel, kind>>
device == <<audio, age>>
vars == <<jobs, pending, left, pc, batch, job, wait, device, warm>>

Outstanding == ToSet(channel) \cup ToSet(pending) \cup ({job} \ {None})

TypeOK ==
    /\ channel \in Seq(Jobs)
    /\ pending \in Seq(Jobs)
    /\ kind \in [Jobs -> {"sound", "exec", "webhook"}]
    /\ left \in [Jobs -> 0..MaxDelay]
    /\ pc \in {"top", "due", "wait", "execute", "late"}
    /\ batch \in 0..Len(pending)
    /\ job \in Jobs \cup {None}
    /\ wait \in 0..IdlePoll
    /\ audio \in {"open", "closed"}
    /\ age \in 0..(IdleTimeout + 1)
    /\ warm \subseteq Jobs

Init ==
    /\ channel = <<>>
    /\ pending = <<>>
    /\ kind \in [Jobs -> {"exec"}]
    /\ left = [j \in Jobs |-> 0]
    /\ pc = "top"
    /\ batch = 0
    /\ job = None
    /\ wait = 0
    /\ audio = "closed"
    /\ age = 0
    /\ warm = {}

-----------------------------------------------------------------------------
(* Executor::run: the channel has no bound, so a send never waits. *)
Send(j, what, delay) ==
    /\ j \notin Outstanding
    /\ channel' = Append(channel, j)
    /\ kind' = [kind EXCEPT ![j] = what]
    /\ left' = [left EXCEPT ![j] = delay]
    /\ UNCHANGED <<pending, pc, batch, job, wait, device, warm>>

Less(n) == IF n > 0 THEN n - 1 ELSE 0

TimePasses ==
    /\ left' = [j \in Jobs |-> Less(left[j])]
    /\ wait' = Less(wait)
    /\ age' = IF age > IdleTimeout THEN age ELSE age + 1
    /\ UNCHANGED <<jobs, pending, pc, batch, job, audio, warm>>

-----------------------------------------------------------------------------
(* The worker. *)

(* execute, up to where it may take long: the last sound is now. *)
Begin(j) ==
    /\ job' = j
    /\ age' = IF kind[j] = "sound" THEN 0 ELSE age
    /\ warm' = warm \ {j}

(* The first n pending jobs, and no more, have come due. *)
Due(n) ==
    /\ \A i \in 1..n : left[pending[i]] = 0
    /\ n < Len(pending) => left[pending[n + 1]] > 0

(* Mutant: due jobs wait while anything else comes in. *)
TurnYields ==
    /\ pc = "top"
    /\ \E n \in 0..Len(pending) : Due(n) /\ batch' = (IF channel = <<>> THEN n ELSE 0)
    /\ pc' = "due"
    /\ UNCHANGED <<jobs, pending, left, job, wait, device, warm>>

(* One look at the clock for all the jobs of this turn. *)
Turn ==
    /\ pc = "top"
    /\ \E n \in 0..Len(pending) : Due(n) /\ batch' = n
    /\ pc' = "due"
    /\ UNCHANGED <<jobs, pending, left, job, wait, device, warm>>

RunDue ==
    /\ pc = "due"
    /\ batch > 0
    /\ Begin(Head(pending))
    /\ pending' = Tail(pending)
    /\ batch' = batch - 1
    /\ pc' = "execute"
    /\ UNCHANGED <<jobs, left, wait, audio>>

AtLeast(n, low) == IF n < low THEN low ELSE n
AtMost(n, high) == IF n > high THEN high ELSE n

(* Mutant: the worker sleeps from one idle check to the next. *)
SleepToPoll ==
    /\ pc = "due"
    /\ batch = 0
    /\ wait' = IdlePoll
    /\ pc' = "wait"
    /\ UNCHANGED <<jobs, pending, left, batch, job, device, warm>>

(* Sleep until the next job, or the next idle check. *)
Sleep ==
    /\ pc = "due"
    /\ batch = 0
    /\ wait' = IF pending = <<>> THEN IdlePoll
               ELSE AtMost(AtLeast(left[Head(pending)], SchedTick), IdlePoll)
    /\ pc' = "wait"
    /\ UNCHANGED <<jobs, pending, left, batch, job, device, warm>>

(* A job that is due on arrival goes ahead of everything pending. *)
ReceiveDue ==
    /\ pc = "wait"
    /\ channel # <<>>
    /\ left[Head(channel)] = 0
    /\ channel' = Tail(channel)
    /\ Begin(Head(channel))
    /\ pc' = "late"
    /\ UNCHANGED <<kind, pending, left, batch, wait, audio>>

(* ensure_audio: a device that cannot be opened is done without. *)
EnsureAudio == audio' \in {"open", audio}

(* Mutant: the job goes to the end of the list. *)
ReceiveLaterAppends ==
    /\ pc = "wait"
    /\ channel # <<>>
    /\ LET j == Head(channel)
       IN  /\ left[j] > 0
           /\ channel' = Tail(channel)
           /\ IF kind[j] = "sound" THEN EnsureAudio ELSE UNCHANGED audio
           /\ warm' = IF kind[j] = "sound" /\ audio' = "open" THEN warm \cup {j} ELSE warm
           /\ pending' = Append(pending, j)
    /\ pc' = "top"
    /\ UNCHANGED <<kind, left, batch, job, wait, age>>

(* A job for later opens the device in advance, if it needs one, and is put  *)
(* where the list stays sorted, before or after its equals.                  *)
ReceiveLater ==
    /\ pc = "wait"
    /\ channel # <<>>
    /\ LET j == Head(channel)
       IN  /\ left[j] > 0
           /\ channel' = Tail(channel)
           /\ IF kind[j] = "sound" THEN EnsureAudio ELSE UNCHANGED audio
           /\ warm' = IF kind[j] = "sound" /\ audio' = "open" THEN warm \cup {j} ELSE warm
           /\ \E at \in 1..(Len(pending) + 1) :
                /\ at > 1 => left[pending[at - 1]] <= left[j]
                /\ at <= Len(pending) => left[j] <= left[pending[at]]
                /\ pending' = InsertAt(pending, at, j)
    /\ pc' = "top"
    /\ UNCHANGED <<kind, left, batch, job, wait, age>>

(* Mutant: what is pending does not count. *)
TimeoutIgnoresPending ==
    /\ pc = "wait"
    /\ channel = <<>>
    /\ wait = 0
    /\ audio' = IF age > IdleTimeout THEN "closed" ELSE audio
    /\ pc' = "top"
    /\ UNCHANGED <<jobs, pending, left, batch, job, wait, age, warm>>

(* Mutant: an idle check counts as use. *)
TimeoutRefreshes ==
    /\ pc = "wait"
    /\ channel = <<>>
    /\ wait = 0
    /\ audio' = IF age > IdleTimeout /\ pending = <<>> THEN "closed" ELSE audio
    /\ age' = 0
    /\ pc' = "top"
    /\ UNCHANGED <<jobs, pending, left, batch, job, wait, warm>>

(* Nothing came in time: the device is released if it has been idle. *)
Timeout ==
    /\ pc = "wait"
    /\ channel = <<>>
    /\ wait = 0
    /\ audio' = IF age > IdleTimeout /\ pending = <<>> THEN "closed" ELSE audio
    /\ pc' = "top"
    /\ UNCHANGED <<jobs, pending, left, batch, job, wait, age, warm>>

(* The sound is playing, the command runs on its own, or the webhook has     *)
(* answered or timed out.                                                    *)
Finish ==
    /\ pc \in {"execute", "late"}
    /\ IF kind[job] = "sound" THEN EnsureAudio ELSE UNCHANGED audio
    /\ job' = None
    /\ pc' = IF pc = "execute" THEN "due" ELSE "top"
    /\ UNCHANGED <<jobs, pending, left, batch, wait, age, warm>>

-----------------------------------------------------------------------------
Worker ==
    \/ Turn
    \/ RunDue
    \/ Sleep
    \/ ReceiveDue
    \/ ReceiveLater
    \/ Timeout
    \/ Finish

Next ==
    \/ \E j \in Jobs, what \in {"sound", "exec", "webhook"}, delay \in 0..MaxDelay :
           Send(j, what, delay)
    \/ TimePasses
    \/ Worker

Spec == Init /\ [][Next]_vars

(* Time passes, and the worker's thread runs: every execution ends, a        *)
(* webhook's at its own timeout at the latest.                               *)
FairSpec == Spec /\ WF_vars(TimePasses) /\ WF_vars(Worker)

-----------------------------------------------------------------------------
(* The worker takes jobs from the front of the list, so the list is sorted   *)
(* by due time, and what it executes is due (actions.rs:373, 398).       *)
RunsInTurn ==
    /\ \A i, k \in 1..Len(pending) : i < k => left[pending[i]] <= left[pending[k]]
    /\ job # None => left[job] = 0

(* The worker never sleeps past the next job's moment by more than a tick:   *)
(* not by sleeping until an idle check, nor for a job that has come in since *)
(* it looked (actions.rs:379-383).                                           *)
WakesInTime ==
    pc = "wait" => \A i \in 1..Len(pending) : wait <= AtLeast(left[pending[i]], SchedTick)

(* A sound that the device was opened for in advance finds it open, however  *)
(* long ago the last sound was (actions.rs:390-396, 405-408).                *)
DeviceWaitsForSound ==
    \A i \in 1..Len(pending) : pending[i] \in warm => audio = "open"

(* Every job is executed, whatever else comes in (actions.rs:371).           *)
JobsAreRun == \A j \in Jobs : j \in Outstanding ~> j \notin Outstanding

(* Once no more actions come, the device is released (actions.rs:405-411).   *)
DeviceIsReleased == <>[](Outstanding = {}) => <>[](audio = "closed")

-----------------------------------------------------------------------------
(* The inductive invariant behind the safety properties.                   *)

(* The jobs of this turn are the first ones pending, and all of them due.    *)
BatchInv ==
    /\ pc \in {"top", "wait", "late"} => batch = 0
    /\ \A i \in 1..batch : left[pending[i]] = 0

(* Only pending sounds are waited for, with the device open.                 *)
WarmInv ==
    /\ \A j \in warm : \E i \in 1..Len(pending) : pending[i] = j
    /\ warm # {} => audio = "open"

IInv == TypeOK /\ RunsInTurn /\ BatchInv /\ WakesInTime /\ WarmInv

=============================================================================
