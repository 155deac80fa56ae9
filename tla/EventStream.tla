----------------------------- MODULE EventStream -----------------------------
(***************************************************************************)
(* How events reach clients: the connection handlers of the control socket *)
(* (server.rs: handle, Subscription), the bounded broadcast channel they   *)
(* read from, and the part of the detector loop that decides whether to    *)
(* build telemetry at all and sends it (daemon.rs).                        *)
(*                                                                         *)
(* The detector thread never waits for a client.  It reads the number of   *)
(* telemetry subscribers once per iteration and works with that value      *)
(* until the next, while handlers on other threads change it.  A handler   *)
(* is one task: while it writes to a client that does not read, it neither *)
(* receives events nor sees what the client does.                          *)
(*                                                                         *)
(* A connection's position in the channel is modelled by the events it has *)
(* not received yet, at most Capacity of them: sending to a full channel   *)
(* drops the oldest, and the receiver learns of it at its next recv.       *)
(***************************************************************************)
EXTENDS Integers, Sequences, FiniteSets

CONSTANTS
    Conns,          \* connections that may be open at once
    Capacity,       \* EVENT_CAPACITY
    MaxSamples,     \* MAX_TELEMETRY_SAMPLES
    Subscriptions   \* the sets of topics clients subscribe to

Topics == {"spank", "telemetry"}

ASSUME StreamAssumption ==
    /\ IsFiniteSet(Conns)
    /\ Capacity \in Nat \ {0}
    /\ MaxSamples \in Nat \ {0}
    /\ Subscriptions \subseteq SUBSET Topics

VARIABLES
    client,     \* the client's end: "reading", "stuck" or "gone"
    open,       \* the connections whose handler runs
    topics,     \* what each handler's Subscription asks for
    count,      \* Shared.telemetry_subscribers
    queue,      \* the events each handler has not received yet
    lagged,     \* the handlers some event was dropped for since their last recv
    out,        \* the event a handler is writing, or "idle"
    loop,       \* where the detector loop is
    want,       \* want_telemetry, read once per iteration
    trace,      \* the number of samples in the envelope and gyro buffers
    \* History, which no action reads:
    stale,      \* the buffers holding samples an unwatched iteration left behind
    watched     \* somebody was subscribed when this iteration read the count

conns == <<client, open, topics, count, queue, lagged, out>>
detector == <<loop, want, trace, stale, watched>>
vars == <<conns, detector>>

Buffers == {"envelope", "gyro"}
Watchers == {c \in Conns : "telemetry" \in topics[c]}

TypeOK ==
    /\ client \in [Conns -> {"reading", "stuck", "gone"}]
    /\ open \subseteq Conns
    /\ topics \in [Conns -> SUBSET Topics]
    /\ count \in Int
    /\ queue \in [Conns -> Seq(Topics)]
    /\ \A c \in Conns : Len(queue[c]) <= Capacity
    /\ lagged \subseteq Conns
    /\ out \in [Conns -> Topics \cup {"idle", "reply"}]
    /\ loop \in {"load", "drain", "emit"}
    /\ want \in BOOLEAN
    /\ trace \in [Buffers -> 0..MaxSamples]
    /\ stale \subseteq Buffers
    /\ watched \in BOOLEAN

Init ==
    /\ client = [c \in Conns |-> "gone"]
    /\ open = {}
    /\ topics = [c \in Conns |-> {}]
    /\ count = 0
    /\ queue = [c \in Conns |-> <<>>]
    /\ lagged = {}
    /\ out = [c \in Conns |-> "idle"]
    /\ loop = "load"
    /\ want = FALSE
    /\ trace = [b \in Buffers |-> 0]
    /\ stale = {}
    /\ watched = FALSE

-----------------------------------------------------------------------------
(* The clients.                                                            *)

(* A client connects, and its handler starts with no subscription. *)
Connect(c) ==
    /\ client[c] = "gone"
    /\ c \notin open
    /\ client' = [client EXCEPT ![c] = "reading"]
    /\ open' = open \cup {c}
    /\ UNCHANGED <<topics, count, queue, lagged, out, detector>>

(* A client stops reading, with its socket's buffer full, and may go on. *)
Stall(c) ==
    /\ client[c] = "reading"
    /\ client' = [client EXCEPT ![c] = "stuck"]
    /\ UNCHANGED <<open, topics, count, queue, lagged, out, detector>>

Resume(c) ==
    /\ client[c] = "stuck"
    /\ client' = [client EXCEPT ![c] = "reading"]
    /\ UNCHANGED <<open, topics, count, queue, lagged, out, detector>>

(* A client closes its end, or crashes, wherever its handler is. *)
Vanish(c) ==
    /\ client[c] # "gone"
    /\ client' = [client EXCEPT ![c] = "gone"]
    /\ UNCHANGED <<open, topics, count, queue, lagged, out, detector>>

-----------------------------------------------------------------------------
(* The handlers.                                                           *)

InSelect(c) == c \in open /\ out[c] = "idle"

(* Mutant: every Subscribe with telemetry counts, also a repeated one. *)
SubscribeAgain(c, wanted) ==
    /\ InSelect(c)
    /\ count' = IF "telemetry" \in wanted THEN count + 1
                ELSE IF "telemetry" \in topics[c] THEN count - 1
                ELSE count
    /\ topics' = [topics EXCEPT ![c] = wanted]
    /\ UNCHANGED <<client, open, queue, lagged, out, detector>>

(* Mutant: the flags are stored first, so that no edge is ever seen. *)
SubscribeUncounted(c, wanted) ==
    /\ InSelect(c)
    /\ topics' = [topics EXCEPT ![c] = wanted]
    /\ UNCHANGED <<client, open, count, queue, lagged, out, detector>>

(* Subscription::set, on the edges of the telemetry flag.  The request may   *)
(* have been sent before the client went away.                               *)
Subscribe(c, wanted) ==
    /\ InSelect(c)
    /\ count' = IF "telemetry" \in wanted \ topics[c] THEN count + 1
                ELSE IF "telemetry" \in topics[c] \ wanted THEN count - 1
                ELSE count
    /\ topics' = [topics EXCEPT ![c] = wanted]
    /\ UNCHANGED <<client, open, queue, lagged, out, detector>>

(* Any other request, or a line that is none, is answered. *)
Answer(c) ==
    /\ InSelect(c)
    /\ out' = [out EXCEPT ![c] = "reply"]
    /\ UNCHANGED <<client, open, topics, count, queue, lagged, detector>>

(* Mutant: a disconnect forgets the subscription it ends. *)
DropKeepsCount(c) ==
    /\ client' = [client EXCEPT ![c] = "gone"]
    /\ open' = open \ {c}
    /\ topics' = [topics EXCEPT ![c] = {}]
    /\ queue' = [queue EXCEPT ![c] = <<>>]
    /\ lagged' = lagged \ {c}
    /\ out' = [out EXCEPT ![c] = "idle"]
    /\ UNCHANGED <<count, detector>>

(* handle returns, and with it go the Subscription and the receiver.  The    *)
(* client, if it is still there, finds its connection closed.                *)
Drop(c) ==
    /\ client' = [client EXCEPT ![c] = "gone"]
    /\ open' = open \ {c}
    /\ count' = IF "telemetry" \in topics[c] THEN count - 1 ELSE count
    /\ topics' = [topics EXCEPT ![c] = {}]
    /\ queue' = [queue EXCEPT ![c] = <<>>]
    /\ lagged' = lagged \ {c}
    /\ out' = [out EXCEPT ![c] = "idle"]
    /\ UNCHANGED detector

(* next_line: the end of the client's stream. *)
EndOfStream(c) ==
    /\ InSelect(c)
    /\ client[c] = "gone"
    /\ Drop(c)

(* next_line: a line that is not UTF-8 is an error of the stream. *)
ReadFails(c) ==
    /\ InSelect(c)
    /\ client[c] # "gone"
    /\ Drop(c)

(* recv: the events dropped for this receiver are reported first. *)
Lagged(c) ==
    /\ InSelect(c)
    /\ c \in lagged
    /\ lagged' = lagged \ {c}
    /\ UNCHANGED <<client, open, topics, count, queue, out, detector>>

(* Mutant: recv until the channel is empty, writing the last event only. *)
ReceiveNewest(c) ==
    /\ InSelect(c)
    /\ c \notin lagged
    /\ queue[c] # <<>>
    /\ queue' = [queue EXCEPT ![c] = <<>>]
    /\ out' = [out EXCEPT ![c] = IF queue[c][Len(queue[c])] \in topics[c]
                                 THEN queue[c][Len(queue[c])] ELSE "idle"]
    /\ UNCHANGED <<client, open, topics, count, lagged, detector>>

(* recv: the oldest event, written if the client asked for its topic by now. *)
Receive(c) ==
    /\ InSelect(c)
    /\ c \notin lagged
    /\ queue[c] # <<>>
    /\ queue' = [queue EXCEPT ![c] = Tail(@)]
    /\ out' = [out EXCEPT ![c] = IF Head(queue[c]) \in topics[c]
                                 THEN Head(queue[c]) ELSE "idle"]
    /\ UNCHANGED <<client, open, topics, count, lagged, detector>>

(* write_all returns once the client has read enough. *)
Written(c) ==
    /\ c \in open
    /\ out[c] # "idle"
    /\ client[c] = "reading"
    /\ out' = [out EXCEPT ![c] = "idle"]
    /\ UNCHANGED <<client, open, topics, count, queue, lagged, detector>>

(* write_all to a client that is gone. *)
WriteFails(c) ==
    /\ c \in open
    /\ out[c] # "idle"
    /\ client[c] = "gone"
    /\ Drop(c)

-----------------------------------------------------------------------------
(* The detector loop, as far as clients see it.                            *)

(* broadcast::Sender::send, with the receivers it is too much for. *)
Crowded == {c \in open : Len(queue[c]) = Capacity}

Broadcast(event) ==
    /\ queue' = [c \in Conns |->
                    IF c \notin open THEN queue[c]
                    ELSE IF c \in Crowded THEN Append(Tail(queue[c]), event)
                    ELSE Append(queue[c], event)]
    /\ lagged' = lagged \cup Crowded

(* Mutant: the loop keeps on wanting until a frame was sent. *)
LoadLate ==
    /\ loop = "load"
    /\ want' = (want \/ count > 0)
    /\ watched' = (Watchers # {})
    /\ loop' = "drain"
    /\ UNCHANGED <<conns, trace, stale>>

(* The only time an iteration looks at the count. *)
Load ==
    /\ loop = "load"
    /\ want' = (count > 0)
    /\ watched' = (Watchers # {})
    /\ loop' = "drain"
    /\ UNCHANGED <<conns, trace, stale>>

(* The frames the pump emits, with the samples that fit kept when wanted.    *)
(* A spank comes of an accelerometer frame, whether wanted or not.           *)
Drain(accel, gyro) ==
    /\ loop = "drain"
    /\ trace' = IF want
                THEN [b \in Buffers |->
                        LET n == trace[b] + (IF b = "gyro" THEN gyro ELSE accel)
                        IN  IF n > MaxSamples THEN MaxSamples ELSE n]
                ELSE trace
    /\ loop' = "emit"
    /\ UNCHANGED <<client, open, topics, count, out, want, stale, watched>>

DrainQuietly(accel, gyro) ==
    /\ Drain(accel, gyro)
    /\ UNCHANGED <<queue, lagged>>

DrainSpank(accel, gyro) ==
    /\ accel > 0
    /\ Drain(accel, gyro)
    /\ Broadcast("spank")

(* A frame is due: it takes both buffers with it. *)
EmitFrame ==
    /\ loop = "emit"
    /\ want
    /\ Broadcast("telemetry")
    /\ trace' = [b \in Buffers |-> 0]
    /\ stale' = {}
    /\ loop' = "load"
    /\ UNCHANGED <<client, open, topics, count, out, want, watched>>

(* The telemetry interval has not elapsed yet. *)
EmitLater ==
    /\ loop = "emit"
    /\ want
    /\ loop' = "load"
    /\ UNCHANGED <<conns, want, trace, stale, watched>>

(* Nobody watches: both buffers are cleared if the envelope has anything. *)
EmitNothing ==
    /\ loop = "emit"
    /\ ~want
    /\ trace' = IF trace["envelope"] > 0 THEN [b \in Buffers |-> 0] ELSE trace
    /\ stale' = {b \in Buffers : trace'[b] > 0}
    /\ loop' = "load"
    /\ UNCHANGED <<conns, want, watched>>

-----------------------------------------------------------------------------
Client(c) == Connect(c) \/ Stall(c) \/ Resume(c) \/ Vanish(c)

Handler(c) ==
    \/ \E wanted \in Subscriptions : Subscribe(c, wanted)
    \/ Answer(c)
    \/ EndOfStream(c)
    \/ ReadFails(c)
    \/ Lagged(c)
    \/ Receive(c)
    \/ Written(c)
    \/ WriteFails(c)

Detector ==
    \/ Load
    \/ \E accel, gyro \in 0..1 : DrainQuietly(accel, gyro) \/ DrainSpank(accel, gyro)
    \/ EmitFrame
    \/ EmitLater
    \/ EmitNothing

Next ==
    \/ \E c \in Conns : Client(c)
    \/ \E c \in Conns : Handler(c)
    \/ Detector

Spec == Init /\ [][Next]_vars

(* The detector thread sleeps two milliseconds per iteration and waits for   *)
(* nothing; a frame is due every 16.  tokio polls a task whose socket or     *)
(* channel is ready, and select! picks at random among ready branches, so a  *)
(* branch that stays or keeps becoming ready is taken.                       *)
Fairness ==
    /\ WF_vars(Detector)
    /\ SF_vars(EmitFrame)
    /\ \A c \in Conns :
          /\ SF_vars(EndOfStream(c))
          /\ SF_vars(Lagged(c))
          /\ SF_vars(Receive(c))
          /\ WF_vars(Written(c))
          /\ WF_vars(WriteFails(c))

FairSpec == Spec /\ Fairness

-----------------------------------------------------------------------------
(* The subscriber count is exact through every change of mind, disconnect    *)
(* and failed write (server.rs:134).                                         *)
CountIsExact == count = Cardinality(Watchers)

(* A frame is built only in an iteration that began with a subscriber        *)
(* (server.rs:25, "an unobserved daemon pays nothing").                      *)
FramesAreWatched == [][EmitFrame => watched]_vars

(* The envelope a client sees has no samples left over from before the       *)
(* daemon was last unobserved.                                               *)
EnvelopeIsLive == "envelope" \notin stale

(* When every client has gone for good the daemon notices and stops building *)
(* telemetry (server.rs:134, daemon.rs:285).                                 *)
Quiet == count = 0 /\ ~want
UnobservedGoesQuiet ==
    (<>[](\A c \in Conns : client[c] = "gone")) => <>[]Quiet

(* A client that stays subscribed and keeps up with its events keeps getting *)
(* frames (server.rs:178).                                                   *)
Watching(c) ==
    client[c] = "reading" /\ "telemetry" \in topics[c] /\ c \notin lagged
WatcherSeesFrames ==
    \A c \in Conns : (<>[]Watching(c)) => []<>(out[c] = "telemetry")

(* A spank reaches every client that is subscribed and keeps up with events. *)
Listening(c) == client[c] = "reading" /\ "spank" \in topics[c]
SpankArrives ==
    \A c \in Conns :
        (\E i \in DOMAIN queue[c] : queue[c][i] = "spank") /\ Listening(c)
            ~> out[c] = "spank" \/ ~Listening(c) \/ c \in lagged

=============================================================================
