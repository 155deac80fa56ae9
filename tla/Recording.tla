------------------------------ MODULE Recording ------------------------------
(***************************************************************************)
(* What becomes of a trace that is recorded (calibrate.rs), kept as text    *)
(* (fixture.rs) and replayed to a detector (replay.rs): the two streams are *)
(* stored apart, and their order is told from their times.  The text has   *)
(* six decimals of a time and five of an axis; a frame's magnitude stands  *)
(* for its axes here.                                                      *)
(***************************************************************************)
EXTENDS Detector

CONSTANTS
    Res,        \* times are written in units of this: 1e-6 s
    MagRes,     \* and magnitudes in units of this: 1e-5 g or deg/s
    Labels,     \* names of what was recorded, that fit in a line: from_text trims it
    Expects,    \* annotations: how many slaps, or Nil
    Metas       \* provenance: sets of key-value pairs that fit in a line each

ASSUME RecordingAssumption ==
    /\ Res \in Nat \ {0} /\ MagRes \in Nat \ {0}
    /\ \A meta \in Metas :
        /\ IsFiniteSet(meta)
        /\ \A kv \in meta : kv \in STRING \X STRING /\ kv[1] \notin {"label", "expect"}

Magic == <<"# yamete-fixture v1">>
Legacy == <<"# spank-fixture v1">>
Header == <<"s,t,x,y,z">>
Gzip == <<"gzip">>

(* What from_text and from_bytes return when they fail. *)
Bad == [error |-> TRUE]

-----------------------------------------------------------------------------
Frame(f) == [t |-> f.t, mag |-> f.mag]
Stream(source) ==
    LET s == Of(source, Len(trace)) IN [i \in 1..Len(s) |-> Frame(s[i])]

(* The recorder pushes a frame to the stream it came from. *)
Recorded(label, expect, meta) ==
    [label |-> label, expect |-> expect, meta |-> meta,
     accel |-> Stream("accel"), gyro |-> Stream("gyro")]

(* Mutant: of two frames at one time the gyroscope's goes first. *)
GyroFirst(a, g, i, j) == i <= Len(a) /\ (j > Len(g) \/ a[i].t < g[j].t)

(* Whether the older of the two frames that come next is a[i]. *)
TakesAccel(a, g, i, j) == i <= Len(a) /\ (j > Len(g) \/ a[i].t <= g[j].t)

(* How many of the first k frames taken were the accelerometer's. *)
Taken(a, g) ==
    LET of[k \in 0..(Len(a) + Len(g))] ==
            IF k = 0 THEN 0
            ELSE LET i == of[k - 1]
                 IN  IF TakesAccel(a, g, i + 1, k - i) THEN i + 1 ELSE i
    IN  of

(* Both streams as one, the older frame first. *)
Merge(a, g) ==
    LET taken == Taken(a, g)
    IN  [n \in 1..(Len(a) + Len(g)) |->
            LET i == taken[n - 1]
            IN  IF TakesAccel(a, g, i + 1, n - i) THEN <<"a", a[i + 1]>>
                ELSE <<"g", g[n - i]>>]

Nearest(x, unit) == ((x + unit \div 2) \div unit) * unit

(* A frame as its line has it. *)
Rounded(f) == [t |-> Nearest(f.t, Res), mag |-> Nearest(f.mag, MagRes)]
RoundedStream(s) == [i \in 1..Len(s) |-> Rounded(s[i])]

-----------------------------------------------------------------------------
(* Mutant: the digits that have no place are cut off. *)
LineCut(frame) ==
    <<frame[1], [t |-> (frame[2].t \div Res) * Res, mag |-> (frame[2].mag \div MagRes) * MagRes]>>

Line(frame) == <<frame[1], Rounded(frame[2])>>

ToText(fx) ==
    LET lines == Merge(fx.accel, fx.gyro)
    IN  <<Magic, <<"#", "label", fx.label>>>>
        \o (IF fx.expect = Nil THEN <<>> ELSE <<<<"#", "expect", fx.expect>>>>)
        \o SetToSeq({<<"#", kv[1], kv[2]>> : kv \in fx.meta})
        \o <<Header>>
        \o [i \in 1..Len(lines) |-> Line(lines[i])]

Parsed(fx, line) ==
    IF fx = Bad THEN Bad ELSE
    CASE line = Header -> fx
      [] line[1] = "#" ->
            IF line[2] = "label" THEN [fx EXCEPT !.label = line[3]]
            ELSE IF line[2] = "expect" THEN [fx EXCEPT !.expect = line[3]]
            ELSE [fx EXCEPT !.meta = @ \cup {<<line[2], line[3]>>}]
      [] line[1] = "a" -> [fx EXCEPT !.accel = Append(@, line[2])]
      [] line[1] = "g" -> [fx EXCEPT !.gyro = Append(@, line[2])]
      [] OTHER -> Bad

Blank == [label |-> "", expect |-> Nil, meta |-> {}, accel |-> <<>>, gyro |-> <<>>]

(* Line by line; the first one says what it is. *)
FromText(text) ==
    LET read[n \in 1..Len(text)] ==
            IF n = 1 THEN Blank
            ELSE Parsed(read[n - 1], text[n])
    IN  IF text = <<>> \/ text[1] \notin {Magic, Legacy} THEN Bad ELSE read[Len(text)]

(* A file is compressed if its name says so, and read by what it begins with. *)
Write(fx, gz) == IF gz THEN <<Gzip, ToText(fx)>> ELSE ToText(fx)
FromBytes(bytes) == IF bytes[1] = Gzip THEN FromText(bytes[2]) ELSE FromText(bytes)

(* The frames that replay feeds the detector, in this order. *)
Replayed(fx) == Merge(fx.accel, fx.gyro)

-----------------------------------------------------------------------------
(* What was recorded can be read back, whichever way it was written: the     *)
(* label, the annotation, the provenance and every frame of both streams, in *)
(* its order and to the digits that the text has (fixture.rs:151-250).       *)
RoundTrip ==
    \A label \in Labels, expect \in Expects, meta \in Metas, gz \in BOOLEAN :
        LET fx == Recorded(label, expect, meta)
        IN  FromBytes(Write(fx, gz)) =
                [fx EXCEPT !.accel = RoundedStream(@), !.gyro = RoundedStream(@)]

(* The live order can be told from the written times: no frame is older than *)
(* one before it, and of two at one time the accelerometer's is first.       *)
Orderly ==
    \A i, j \in DOMAIN trace : i < j =>
        LET before == Rounded(trace[i]).t
            after == Rounded(trace[j]).t
        IN  before < after \/ (before = after /\ trace[j].source = "gyro")

(* "The corroboration window sees the same interleaving it would live"       *)
(* (replay.rs:27) if the live order was that of the written times.           *)
ReplayInterleaves ==
    Orderly =>
        \A label \in Labels :
            LET replayed == Replayed(FromBytes(Write(Recorded(label, Nil, {}), TRUE)))
            IN  /\ Len(replayed) = Len(trace)
                /\ \A i \in DOMAIN trace :
                    /\ replayed[i][1] = (IF trace[i].source = "accel" THEN "a" ELSE "g")
                    /\ replayed[i][2] = Rounded(trace[i])

=============================================================================
