------------------------------ MODULE SensorPump ------------------------------
(***************************************************************************)
(* How the accelerometer and the gyroscope reach the detector: the report   *)
(* callbacks, which IOKit runs on a queue per device and which push into a *)
(* ring each (iokit.rs), and the pump that merges the rings (pump.rs).     *)
(*                                                                         *)
(* A report is its number, of which the device sends the low bits, and the *)
(* time the kernel stamped it with.  Callbacks run some time later, those  *)
(* of one device in order.  The pump's steps and the callbacks interleave. *)
(***************************************************************************)
EXTENDS Integers, Sequences

CONSTANTS
    SeqMod,     \* the sequence counter wraps here: 2^16
    Capacity,   \* of a ring
    None,
    MaxTime,    \* bound: the last time stamp of a stream
    MaxMade,    \* bound: reports a device makes
    MaxQueue    \* bound: reports waiting for a device's callback

ASSUME PumpAssumption ==
    /\ SeqMod \in Nat \ {0}
    /\ Capacity \in Nat \ {0}
    /\ MaxTime \in Nat /\ MaxMade \in Nat /\ MaxQueue \in Nat
    /\ None \notin Nat /\ None \notin [n : Nat, t : Nat]

Sensors == {"accel", "gyro"}
Other(s) == IF s = "accel" THEN "gyro" ELSE "accel"
Samples == [n : 0..MaxMade, t : 0..MaxTime]
Reports == [n : 0..MaxMade, t : 0..MaxTime, good : BOOLEAN]

VARIABLES
    streaming,  \* the devices that are open
    made,       \* the number of the last report each device made
    stamp,      \* and its time
    queue,      \* reports on their way to the callback
    last_seq,   \* CallbackContext.last_seq
    stats,
    ring,
    pending,    \* Pump.pending_accel, pending_gyro
    pc,         \* where drain is
    \* History, which no action reads:
    first,      \* the number of the first report a stream parsed
    upto,       \* and of the latest
    close,      \* no gap in a stream's parsed reports was as long as SeqMod
    emitted,    \* frames given to on_frame, by stream
    out,        \* the times of the last two of them
    pushed,     \* the latest time a callback has seen
    punctual    \* callbacks have run in the order of their stamps

device == <<streaming, made, stamp, queue>>
callback == <<last_seq, stats, first, upto, close, pushed, punctual>>
pump == <<pending, pc, emitted, out>>
vars == <<device, callback, ring, pump>>

NoStats == [received |-> 0, dropped |-> 0, overruns |-> 0, malformed |-> 0]
Fresh(v) == [s \in Sensors |-> v]

TypeOK ==
    /\ streaming \subseteq Sensors
    /\ made \in [Sensors -> 0..MaxMade]
    /\ stamp \in [Sensors -> 0..MaxTime]
    /\ queue \in [Sensors -> Seq(Reports)]
    /\ last_seq \in [Sensors -> (0..SeqMod - 1) \cup {None}]
    /\ stats \in [Sensors -> [received : Nat, dropped : Nat, overruns : Nat, malformed : Nat]]
    /\ ring \in [Sensors -> Seq(Samples)]
    /\ pending \in [Sensors -> Samples \cup {None}]
    /\ pc \in {"closed", "idle", "accel", "gyro", "take"}
    /\ first \in [Sensors -> Nat] /\ upto \in [Sensors -> Nat]
    /\ close \in [Sensors -> BOOLEAN]
    /\ emitted \in [Sensors -> Nat]
    /\ out \in [Sensors -> (0..MaxTime) \X (0..MaxTime)]
    /\ pushed \in 0..MaxTime
    /\ punctual \in BOOLEAN

(* Imu::open_with makes new rings and counters, Pump::new a new pump. *)
Opened(found) ==
    /\ streaming' = found
    /\ made' = Fresh(0) /\ stamp' = Fresh(0) /\ queue' = Fresh(<<>>)
    /\ last_seq' = Fresh(None) /\ stats' = Fresh(NoStats)
    /\ first' = Fresh(0) /\ upto' = Fresh(0) /\ close' = Fresh(TRUE)
    /\ pushed' = 0 /\ punctual' = TRUE
    /\ ring' = Fresh(<<>>)
    /\ pending' = Fresh(None) /\ pc' = "idle"
    /\ emitted' = Fresh(0) /\ out' = Fresh(<<0, 0>>)

Init ==
    /\ streaming = {}
    /\ made = Fresh(0) /\ stamp = Fresh(0) /\ queue = Fresh(<<>>)
    /\ last_seq = Fresh(None) /\ stats = Fresh(NoStats)
    /\ first = Fresh(0) /\ upto = Fresh(0) /\ close = Fresh(TRUE)
    /\ pushed = 0 /\ punctual = TRUE
    /\ ring = Fresh(<<>>)
    /\ pending = Fresh(None) /\ pc = "closed"
    /\ emitted = Fresh(0) /\ out = Fresh(<<0, 0>>)

(* What may be found: one device of each kind.  Without an accelerometer     *)
(* there is nothing to run; a gyroscope may be missing.                      *)
Found == {devices \in SUBSET Sensors : "accel" \in devices}

(* Every device that is found is opened, and a gyroscope that does not open  *)
(* is as good as missing.  Opening again, at another interval, drops what    *)
(* the old rings held.                                                       *)
Open ==
    /\ pc \in {"closed", "idle"}
    /\ \E devices \in Found : Opened(devices)

OpenFails ==
    /\ pc = "idle"
    /\ pc' = "closed"
    /\ streaming' = {}
    /\ UNCHANGED <<made, stamp, queue, callback, ring, pending, emitted, out>>

-----------------------------------------------------------------------------
(* A device makes a report.  Some before it were lost on the way, and some   *)
(* have not the length of a report.                                          *)
Make(s, lost, t) ==
    /\ s \in streaming
    /\ Len(queue[s]) < MaxQueue
    /\ made[s] + 1 + lost <= MaxMade
    /\ stamp[s] < t /\ stamp[Other(s)] <= t
    /\ made' = [made EXCEPT ![s] = @ + 1 + lost]
    /\ stamp' = [stamp EXCEPT ![s] = t]
    /\ \E good \in BOOLEAN :
        queue' = [queue EXCEPT ![s] = Append(@, [n |-> made'[s], t |-> t, good |-> good])]
    /\ UNCHANGED <<streaming, callback, ring, pump>>

Called(s) ==
    /\ s \in streaming /\ queue[s] # <<>>
    /\ queue' = [queue EXCEPT ![s] = Tail(@)]
    /\ UNCHANGED <<streaming, made, stamp, pump>>

Malformed(s) ==
    /\ Called(s)
    /\ ~Head(queue[s]).good
    /\ stats' = [stats EXCEPT ![s].malformed = @ + 1]
    /\ UNCHANGED <<last_seq, first, upto, close, pushed, punctual, ring>>

(* Mutant: the report itself is not taken off the difference. *)
GapInclusive(prev, next) == (next - prev) % SeqMod

(* The difference wraps, like the counter. *)
Gap(prev, next) == (next - prev - 1) % SeqMod

Missed(s, n) == IF last_seq[s] = None THEN 0 ELSE Gap(last_seq[s], n % SeqMod)

(* What the callback does with a report before it pushes the sample. *)
Parsed(s, n, t, over) ==
    /\ last_seq' = [last_seq EXCEPT ![s] = n % SeqMod]
    /\ stats' = [stats EXCEPT ![s] =
                    [received |-> @.received + 1, dropped |-> @.dropped + Missed(s, n),
                     overruns |-> @.overruns + over, malformed |-> @.malformed]]
    /\ first' = [first EXCEPT ![s] = IF last_seq[s] = None THEN n ELSE @]
    /\ upto' = [upto EXCEPT ![s] = n]
    /\ close' = [close EXCEPT ![s] = @ /\ (last_seq[s] = None \/ n - upto[s] <= SeqMod)]
    /\ punctual' = (punctual /\ pushed <= t)
    /\ pushed' = IF pushed <= t THEN t ELSE pushed

Receive(s) ==
    /\ Called(s)
    /\ LET r == Head(queue[s]) IN
        /\ r.good
        /\ Len(ring[s]) < Capacity
        /\ Parsed(s, r.n, r.t, 0)
        /\ ring' = [ring EXCEPT ![s] = Append(@, [n |-> r.n, t |-> r.t])]

(* Mutant: a sample that does not fit pushes out the oldest one. *)
OverrunOldest(s) ==
    /\ Called(s)
    /\ LET r == Head(queue[s]) IN
        /\ r.good
        /\ Len(ring[s]) = Capacity
        /\ Parsed(s, r.n, r.t, 0)
        /\ ring' = [ring EXCEPT ![s] = Append(Tail(@), [n |-> r.n, t |-> r.t])]

(* The ring is full: the new sample is the one that goes. *)
Overrun(s) ==
    /\ Called(s)
    /\ LET r == Head(queue[s]) IN
        /\ r.good
        /\ Len(ring[s]) = Capacity
        /\ Parsed(s, r.n, r.t, 1)
    /\ UNCHANGED ring

-----------------------------------------------------------------------------
(* Pump::drain. *)
Turn == UNCHANGED <<device, callback>>

Drain ==
    /\ pc = "idle"
    /\ pc' = "accel"
    /\ Turn /\ UNCHANGED <<ring, pending, emitted, out>>

(* An empty slot takes a sample from its ring, if there is one. *)
Fill(s) ==
    /\ IF pending[s] = None /\ ring[s] # <<>>
       THEN /\ pending' = [pending EXCEPT ![s] = Head(ring[s])]
            /\ ring' = [ring EXCEPT ![s] = Tail(@)]
       ELSE UNCHANGED <<pending, ring>>
    /\ Turn /\ UNCHANGED <<emitted, out>>

FillAccel == pc = "accel" /\ pc' = "gyro" /\ Fill("accel")

FillGyro == pc = "gyro" /\ pc' = "take" /\ Fill("gyro")

(* Mutant: whichever is there, the accelerometer first. *)
TakesFirst(s) ==
    /\ pending[s] # None
    /\ s = "gyro" => pending["accel"] = None

(* The older of the two, or the only one. *)
Takes(s) ==
    /\ pending[s] # None
    /\ pending[Other(s)] # None =>
        IF s = "accel" THEN pending[s].t <= pending["gyro"].t
                       ELSE pending[s].t < pending["accel"].t

Emit(s) ==
    /\ pc = "take"
    /\ Takes(s)
    /\ pc' = "accel"
    /\ pending' = [pending EXCEPT ![s] = None]
    /\ emitted' = [emitted EXCEPT ![s] = @ + 1]
    /\ out' = [out EXCEPT ![s] = <<pending[s].t, @[1]>>]
    /\ Turn /\ UNCHANGED ring

Drained ==
    /\ pc = "take"
    /\ pending = Fresh(None)
    /\ pc' = "idle"
    /\ Turn /\ UNCHANGED <<ring, pending, emitted, out>>

-----------------------------------------------------------------------------
Callback(s) == Malformed(s) \/ Receive(s) \/ Overrun(s)

Next ==
    \/ Open
    \/ OpenFails
    \/ \E s \in Sensors, lost \in 0..SeqMod, t \in 1..MaxTime : Make(s, lost, t)
    \/ \E s \in Sensors : Callback(s)
    \/ Drain
    \/ FillAccel
    \/ FillGyro
    \/ \E s \in Sensors : Emit(s)
    \/ Drained

Spec == Init /\ [][Next]_vars

-----------------------------------------------------------------------------
Kept(s) ==
    stats[s].received = emitted[s] + (IF pending[s] = None THEN 0 ELSE 1)
                        + Len(ring[s]) + stats[s].overruns

Span(s) == IF last_seq[s] = None THEN 0 ELSE upto[s] - first[s] + 1

Counted(s) ==
    /\ close[s] => stats[s].received + stats[s].dropped = Span(s)
    /\ (Span(s) - stats[s].received - stats[s].dropped) % SeqMod = 0

(* Every parsed report is in the ring, with the pump, emitted or counted as  *)
(* an overrun, and received and dropped add up to the reports the device has  *)
(* made since the first one, unless it was silent for a whole turn of the    *)
(* counter: dropped then falls short by whole turns (iokit.rs:267,           *)
(* report.rs:78).                                                            *)
Accounted == \A s \in Sensors : Kept(s) /\ Counted(s)

(* The merge (pump.rs:36, 57).  While callbacks run in the order of their    *)
(* stamps, a frame of the gyroscope is never emitted after a newer one of    *)
(* the accelerometer, and one of the accelerometer after one newer frame of  *)
(* the gyroscope at most: the one that came between the pump's two looks.    *)
MergedInOrder ==
    [][\A s \in Sensors :
        emitted'[s] = emitted[s] + 1 =>
            /\ out[s][1] < out'[s][1]
            /\ punctual => out'[s][1] >= IF s = "gyro" THEN out["accel"][1]
                                                       ELSE out["gyro"][2]]_vars

-----------------------------------------------------------------------------
(* The inductive invariant behind these properties.                        *)

(* A stream's reports keep their numbers and their order, from the device to *)
(* the detector.                                                             *)
Numbered(s) ==
    /\ last_seq[s] = None => close[s]
    /\ last_seq[s] # None => last_seq[s] = upto[s] % SeqMod
    /\ \A i \in 1..Len(queue[s]) : upto[s] < queue[s][i].n /\ queue[s][i].n <= made[s]
    /\ upto[s] <= made[s]
    /\ \A i, j \in 1..Len(queue[s]) : i < j => queue[s][i].n < queue[s][j].n

Queued(s) ==
    /\ \A i \in 1..Len(queue[s]) : queue[s][i].t <= stamp[s]
    /\ \A i, j \in 1..Len(queue[s]) : i < j => queue[s][i].t < queue[s][j].t

(* A callback has seen what is in the ring, and the pump what it emitted.    *)
Ringed(s) ==
    /\ \A i \in 1..Len(ring[s]) : ring[s][i].t <= pushed /\ ring[s][i].t <= stamp[s]
    /\ \A i, j \in 1..Len(ring[s]) : i < j => ring[s][i].t < ring[s][j].t
    /\ \A i \in 1..Len(ring[s]), j \in 1..Len(queue[s]) : ring[s][i].t < queue[s][j].t

Emitted(s) ==
    /\ out[s][2] <= out[s][1] /\ out[s][1] <= pushed /\ out[s][1] <= stamp[s]
    /\ \A i \in 1..Len(ring[s]) : out[s][1] < ring[s][i].t
    /\ \A i \in 1..Len(queue[s]) : out[s][1] < queue[s][i].t

Held(s) ==
    pending[s] # None =>
        /\ out[s][1] < pending[s].t
        /\ pending[s].t <= pushed /\ pending[s].t <= stamp[s]
        /\ \A i \in 1..Len(ring[s]) : pending[s].t < ring[s][i].t
        /\ \A i \in 1..Len(queue[s]) : pending[s].t < queue[s][i].t

(* What is still to come of a stream is not older than t. *)
NotBefore(s, t) ==
    /\ pending[s] # None => t <= pending[s].t
    /\ \A i \in 1..Len(ring[s]) : t <= ring[s][i].t

(* A look at an empty ring says that what comes is newer than all there was. *)
Merging ==
    punctual =>
        /\ NotBefore("gyro", out["accel"][1])
        /\ NotBefore("accel", out["gyro"][2])
        /\ pc = "take" /\ pending["gyro"] = None /\ pending["accel"] # None =>
               NotBefore("gyro", pending["accel"].t)
        /\ pc \in {"gyro", "take"} /\ pending["accel"] = None =>
               NotBefore("accel", out["gyro"][1])

Stream(s) == Queued(s) /\ Ringed(s) /\ Emitted(s) /\ Held(s)
Streams == \A s \in Sensors : Stream(s)

IInv == TypeOK /\ (\A s \in Sensors : Numbered(s)) /\ Accounted /\ Streams /\ Merging

=============================================================================
