----------------------------- MODULE DetectorLoop -----------------------------
(***************************************************************************)
(* The daemon's own thread: daemon.rs detector_loop.  Each turn takes over *)
(* a changed configuration, runs the tests that clients asked for, feeds   *)
(* the detector what the sensor has, and now and then publishes a status.  *)
(* Connection handlers change the configuration and queue tests at any     *)
(* time, on threads of their own.  What the loop sends to subscribers is   *)
(* EventStream's, and what a handler does before it publishes is           *)
(* ConfigStore's.                                                          *)
(*                                                                         *)
(* The detector's scores are abstracted into the choice whether a sample   *)
(* is a hit; its warmup and its cooldown are counted in accelerometer      *)
(* samples.  The gyroscope has its say in that choice.                     *)
(***************************************************************************)
EXTENDS Integers

CONSTANTS
    Actions,    \* identifiers of the actions a configuration may have
    Intervals,  \* report intervals of the sensor
    Requests,   \* TestAction requests that may be under way at once
    Warmup,     \* samples a new detector only learns from
    Cooldown,   \* samples after a detection in which there is no other
    None,
    MaxTime,    \* bound: samples of one sensor stream
    MaxSpanks   \* bound: spanks of one process

ASSUME LoopAssumption ==
    /\ Warmup \in Nat
    /\ Cooldown \in Nat
    /\ MaxTime \in Nat
    /\ MaxSpanks \in Nat
    /\ None \notin Nat
    /\ None \notin Actions

VARIABLES
    watch,      \* the configuration handlers publish
    changed,    \* the loop has not seen the last one: has_changed
    test,       \* the test requests under way
    shutdown,   \* a signal came, or the parent has gone
    pc,         \* where the loop is
    config,     \* the loop's copy of the configuration
    rate,       \* the interval the sensor was opened with
    clock,      \* samples since this sensor stream began: the pump's timebase
    warmup,     \* samples the detector will still only learn from
    last,       \* when it fired last, on that clock
    spanks,     \* spanks counted and dispatched
    status,     \* what GetStatus answers
    current     \* history: config has been watch since this turn's look at it

handlers == <<watch, test>>
sensor == <<rate, clock>>
detector == <<warmup, last>>
vars == <<handlers, changed, shutdown, pc, config, sensor, detector, spanks,
          status, current>>

Configs == [enabled : BOOLEAN, interval : Intervals, actions : SUBSET Actions]

(* A request that asks for nothing, and one for an action.  The last two     *)
(* fields are history: whether a change was still to be taken over when the *)
(* handler looked, and whether the action has stayed configured since.      *)
Idle == [state |-> "idle", id |-> None, pending |-> FALSE, steady |-> FALSE]
Tests == [state : {"checked", "queued"}, id : Actions,
          pending : BOOLEAN, steady : BOOLEAN]

Queued == {r \in Requests : test[r].state = "queued"}

TypeOK ==
    /\ watch \in Configs
    /\ changed \in BOOLEAN
    /\ test \in [Requests -> Tests \cup {Idle}]
    /\ shutdown \in BOOLEAN
    /\ pc \in {"open", "top", "reload", "reopen", "tests", "drain", "ended"}
    /\ config \in Configs
    /\ rate \in Intervals
    /\ clock \in 0..MaxTime
    /\ warmup \in 0..Warmup
    /\ last \in 0..MaxTime \cup {None}
    /\ spanks \in 0..MaxSpanks
    /\ status \in [enabled : BOOLEAN, warming_up : BOOLEAN]
    /\ current \in BOOLEAN

(* A process begins with the configuration it finds on the disk. *)
Init ==
    /\ watch \in Configs
    /\ changed = FALSE
    /\ test = [r \in Requests |-> Idle]
    /\ shutdown = FALSE
    /\ pc = "open"
    /\ config = watch
    /\ rate = watch.interval
    /\ clock = 0
    /\ warmup = Warmup
    /\ last = None
    /\ spanks = 0
    /\ status = [enabled |-> watch.enabled, warming_up |-> TRUE]
    /\ current = TRUE

-----------------------------------------------------------------------------
(* The handlers, and the signals.                                          *)

(* watch::Sender::send, by SetConfig or SetEnabled. *)
Publish(c) ==
    /\ pc # "ended"
    /\ watch' = c
    /\ changed' = TRUE
    /\ current' = (current \/ config = c)
    /\ test' = [r \in Requests |->
                    IF test[r].state = "idle" THEN Idle
                    ELSE [test[r] EXCEPT !.steady = @ /\ test[r].id \in c.actions]]
    /\ UNCHANGED <<shutdown, pc, config, sensor, detector, spanks, status>>

SetConfig == \E c \in Configs : Publish(c)

SetEnabled == \E value \in BOOLEAN : Publish([watch EXCEPT !.enabled = value])

(* The handler looks for the action in the published configuration... *)
TestAction(r, a) ==
    /\ pc # "ended"
    /\ test[r] = Idle
    /\ a \in watch.actions
    /\ test' = [test EXCEPT ![r] = [state |-> "checked", id |-> a,
                                    pending |-> changed, steady |-> TRUE]]
    /\ UNCHANGED <<watch, changed, shutdown, pc, config, sensor, detector, spanks,
                   status, current>>

(* ...and then queues the test and answers Pong. *)
QueueTest(r) ==
    /\ pc # "ended"
    /\ test[r].state = "checked"
    /\ test' = [test EXCEPT ![r].state = "queued"]
    /\ UNCHANGED <<watch, changed, shutdown, pc, config, sensor, detector, spanks,
                   status, current>>

Signal ==
    /\ pc # "ended"
    /\ ~shutdown
    /\ shutdown' = TRUE
    /\ UNCHANGED <<handlers, changed, pc, config, sensor, detector, spanks, status,
                   current>>

(* launchd, the app or a user starts the daemon again, on what was published *)
(* last.  The sensor and the detector are made by Open.                      *)
Boot ==
    /\ pc = "ended"
    /\ changed' = FALSE
    /\ test' = [r \in Requests |-> Idle]
    /\ shutdown' = FALSE
    /\ pc' = "open"
    /\ config' = watch
    /\ spanks' = 0
    /\ status' = [enabled |-> watch.enabled, warming_up |-> TRUE]
    /\ current' = TRUE
    /\ UNCHANGED <<watch, sensor, detector>>

-----------------------------------------------------------------------------
(* The loop.                                                               *)
Goto(step) == pc' = step

(* Imu::open_with, Pump::new and Detector::new, or set_config: the clock and *)
(* the detector begin anew.                                                  *)
OpenSensor ==
    /\ rate' = config.interval
    /\ clock' = 0

Retune ==
    /\ warmup' = Warmup
    /\ last' = None

Open ==
    /\ pc = "open"
    /\ OpenSensor
    /\ Retune
    /\ Goto("top")
    /\ UNCHANGED <<handlers, changed, shutdown, config, spanks, status, current>>

(* The sensor is not there: detector_loop returns the error. *)
OpenFails ==
    /\ pc \in {"open", "reopen"}
    /\ Goto("ended")
    /\ UNCHANGED <<handlers, changed, shutdown, config, sensor, detector, spanks,
                   status, current>>

Stop ==
    /\ pc = "top"
    /\ shutdown
    /\ Goto("ended")
    /\ UNCHANGED <<handlers, changed, shutdown, config, sensor, detector, spanks,
                   status, current>>

(* Mutant: the signal is left for a turn that may never come. *)
LookFirst ==
    /\ pc = "top"
    /\ Goto(IF changed THEN "reload" ELSE "tests")
    /\ current' = (config = watch)
    /\ UNCHANGED <<handlers, changed, shutdown, config, sensor, detector, spanks,
                   status>>

(* has_changed. *)
Look ==
    /\ pc = "top"
    /\ ~shutdown
    /\ Goto(IF changed THEN "reload" ELSE "tests")
    /\ current' = (config = watch)
    /\ UNCHANGED <<handlers, changed, shutdown, config, sensor, detector, spanks,
                   status>>

(* Mutant: a change of the mere switch is marked as seen and ignored. *)
ReloadSkipsSwitch ==
    /\ pc = "reload"
    /\ config' = IF watch.actions = config.actions /\ watch.interval = config.interval
                 THEN config ELSE watch
    /\ changed' = FALSE
    /\ current' = (current \/ config' = watch)
    /\ IF watch.interval = config.interval
       THEN Retune /\ Goto("tests")
       ELSE UNCHANGED detector /\ Goto("reopen")
    /\ UNCHANGED <<handlers, shutdown, sensor, spanks, status>>

(* Mutant: only the detector's part of the configuration is taken over. *)
ReloadKeepsActions ==
    /\ pc = "reload"
    /\ config' = [watch EXCEPT !.actions = config.actions]
    /\ changed' = FALSE
    /\ current' = TRUE
    /\ IF watch.interval = config.interval
       THEN Retune /\ Goto("tests")
       ELSE UNCHANGED detector /\ Goto("reopen")
    /\ UNCHANGED <<handlers, shutdown, sensor, spanks, status>>

(* borrow_and_update.  The detector is rebuilt at the end of the reload,     *)
(* whatever has changed.                                                     *)
Reload ==
    /\ pc = "reload"
    /\ config' = watch
    /\ changed' = FALSE
    /\ current' = TRUE
    /\ IF watch.interval = config.interval
       THEN Retune /\ Goto("tests")
       ELSE UNCHANGED detector /\ Goto("reopen")
    /\ UNCHANGED <<handlers, shutdown, sensor, spanks, status>>

(* Mutant: the detector is kept when only the sensor is reopened. *)
ReopenKeepsDetector ==
    /\ pc = "reopen"
    /\ OpenSensor
    /\ Goto("tests")
    /\ UNCHANGED <<handlers, changed, shutdown, config, detector, spanks, status,
                   current>>

Reopen ==
    /\ pc = "reopen"
    /\ OpenSensor
    /\ Retune
    /\ Goto("tests")
    /\ UNCHANGED <<handlers, changed, shutdown, config, spanks, status, current>>

(* Run if the loop's configuration has the action, dropped if not. *)
RunTest(r) ==
    /\ pc = "tests"
    /\ r \in Queued
    /\ test' = [test EXCEPT ![r] = Idle]
    /\ UNCHANGED <<watch, changed, shutdown, pc, config, sensor, detector, spanks,
                   status, current>>

TestsDone ==
    /\ pc = "tests"
    /\ Queued = {}
    /\ Goto("drain")
    /\ UNCHANGED <<handlers, changed, shutdown, config, sensor, detector, spanks,
                   status, current>>

-----------------------------------------------------------------------------
(* Detector::push_accel on the next sample, whose time is clock. *)
Sample ==
    /\ pc = "drain"
    /\ clock < MaxTime
    /\ clock' = clock + 1
    /\ UNCHANGED <<handlers, changed, shutdown, pc, config, rate, status, current>>

Listening == warmup = 0 /\ (last # None => clock - last >= Cooldown)

(* Nothing to see, or still warming up or cooling down. *)
Silence ==
    /\ Sample
    /\ warmup' = IF warmup > 0 THEN warmup - 1 ELSE 0
    /\ UNCHANGED <<last, spanks>>

(* The detector is fed while detection is off, and fires for nobody. *)
Muted ==
    /\ Listening
    /\ ~config.enabled
    /\ Sample
    /\ last' = clock
    /\ UNCHANGED <<warmup, spanks>>

Spank ==
    /\ Listening
    /\ config.enabled
    /\ spanks < MaxSpanks
    /\ Sample
    /\ last' = clock
    /\ spanks' = spanks + 1
    /\ UNCHANGED warmup

(* The rings are empty; the turn ends, with a status if one is due. *)
EndTurn ==
    /\ pc = "drain"
    /\ Goto("top")
    /\ UNCHANGED <<handlers, changed, shutdown, config, sensor, detector, spanks,
                   current>>

EndQuietly == EndTurn /\ UNCHANGED status

(* Mutant: the status says what the process started with. *)
EndStale == EndTurn /\ status' = [status EXCEPT !.warming_up = (warmup > 0)]

EndWithStatus ==
    /\ EndTurn
    /\ status' = [enabled |-> config.enabled, warming_up |-> warmup > 0]

-----------------------------------------------------------------------------
Handler ==
    \/ SetConfig
    \/ SetEnabled
    \/ \E r \in Requests, a \in Actions : TestAction(r, a)
    \/ \E r \in Requests : QueueTest(r)

Loop ==
    \/ Open
    \/ OpenFails
    \/ Stop
    \/ Look
    \/ Reload
    \/ Reopen
    \/ \E r \in Requests : RunTest(r)
    \/ TestsDone
    \/ Silence
    \/ Muted
    \/ Spank
    \/ EndQuietly
    \/ EndWithStatus

Next == Handler \/ Signal \/ Boot \/ Loop

Spec == Init /\ [][Next]_vars

(* The thread keeps running.  It drains tests faster than clients can ask    *)
(* for them over a socket, and samples faster than the sensor has them; and  *)
(* the status interval passes again and again (daemon.rs:300).               *)
Fairness ==
    /\ WF_vars(Loop)
    /\ SF_vars(TestsDone)
    /\ WF_vars(EndQuietly \/ EndWithStatus)
    /\ SF_vars(EndWithStatus)

FairSpec == Spec /\ Fairness

-----------------------------------------------------------------------------
(* A spank is dispatched only under a configuration that was switched on and *)
(* that was the published one at some moment of this very turn: a change is  *)
(* late by a turn at most, however many come at once (daemon.rs:206-245).    *)
SpanksAreCurrent == [][spanks' > spanks => current /\ config.enabled]_vars

(* Whenever samples are read, they come from a sensor opened at the interval *)
(* the configuration asks for (daemon.rs:212).                               *)
SensorFollowsConfig == pc \in {"tests", "drain"} => rate = config.interval

(* The detector's time of its last detection is on the clock of the sensor   *)
(* that is open, and lies after that sensor's warmup: no detection in the    *)
(* transients of a fresh stream, and no cooldown that lasts until a new      *)
(* clock catches up with an old one (daemon.rs:222-227, detector.rs:384).    *)
ClockAgrees == last # None => Warmup <= last /\ last < clock

(* A test whose action the loop knew when the handler looked, and that has   *)
(* stayed configured, is run (daemon.rs:238).                                *)
KeptTestsRun ==
    pc = "tests" =>
        \A r \in Queued : test[r].steady /\ ~test[r].pending =>
                            test[r].id \in config.actions

(* A published configuration is taken over unless another one replaces it or *)
(* the loop ends (server.rs:216).                                            *)
ChangeTakesEffect ==
    \A c \in Configs : watch = c ~> (config = c \/ watch # c \/ pc = "ended")

(* The status comes to say whether detection is on (daemon.rs:303).          *)
StatusFollows ==
    \A value \in BOOLEAN :
        watch.enabled = value ~>
            (status.enabled = value \/ watch.enabled # value \/ pc = "ended")

(* A signal ends the loop, whatever it is doing (daemon.rs:201).             *)
SignalEnds == shutdown ~> pc = "ended"

-----------------------------------------------------------------------------
(* The inductive invariant behind the safety properties.                   *)
SeenInv == ~changed => config = watch

CurrentInv == pc \in {"reopen", "tests", "drain"} => current

SensorInv == pc \in {"top", "reload", "tests", "drain"} => rate = config.interval

ClockInv ==
    /\ Warmup <= warmup + clock
    /\ warmup > 0 => last = None
    /\ ClockAgrees

TestInv ==
    \A r \in Requests :
        test[r].state # "idle" /\ test[r].steady =>
            /\ test[r].id \in watch.actions
            /\ ~test[r].pending => test[r].id \in config.actions

IInv == TypeOK /\ SeenInv /\ CurrentInv /\ SensorInv /\ ClockInv /\ TestInv

=============================================================================
