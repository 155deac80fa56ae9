------------------------------- MODULE Detector -------------------------------
(***************************************************************************)
(* The detector (detector.rs) behind the pump: which accelerometer frames  *)
(* it reports as a slap.  Its two windows are rings that are overwritten    *)
(* in place; its warmup is counted in samples, its cooldown in time.       *)
(*                                                                         *)
(* A frame of the accelerometer is its time, the magnitude that the high   *)
(* pass leaves of it and how many of the other four statistics vote; one   *)
(* of the gyroscope is its time and magnitude.  Statistics and filters are *)
(* functions of the samples before, and of no interest beyond their votes. *)
(***************************************************************************)
EXTENDS Integers, Sequences, FiniteSets, SequencesExt

CONSTANTS
    Settings,   \* configurations, before the slider is folded in
    Scale(_),   \* what the slider multiplies the thresholds with
    WarmupSamples, \* samples: two time constants of the background estimate
    Hold,       \* samples: peak_hold_s
    Window,     \* samples: gyro_window_s
    Mags,       \* magnitudes
    Agrees,     \* how many of the other four statistics may vote
    Nil,
    MaxStamp,   \* bound: time of the last frame
    MaxFrames   \* bound: frames a detector is fed

Options ==
    [sensitivity : {"low", "mid", "high"},
     highpass_g : Nat, micro_g : Nat, medium_g : Nat, major_g : Nat,
     gyro_ratio_min : Nat, gyro_peak_min : Nat, gyro_mode : {"off", "annotate", "require"},
     cooldown_s : Nat, min_votes : 0..5]

ASSUME DetectorAssumption ==
    /\ Settings \subseteq Options /\ \A c \in Settings : Scale(c.sensitivity) \in Nat
    /\ WarmupSamples \in Nat \ {0} /\ Hold \in Nat \ {0} /\ Window \in Nat \ {0}
    /\ Mags \subseteq Nat /\ Agrees \subseteq 0..4
    /\ MaxStamp \in Nat /\ MaxFrames \in Nat
    /\ Nil \notin Nat

VARIABLES
    cfg,        \* Detector.cfg: effective
    warmup_remaining,
    peak_hold,  \* accel.peak_hold
    amp_window, \* gyro.amp_window
    last_fire_t,
    hits,       \* what push_accel returned, one detection after the other
    trace       \* history: the frames since the detector was made

detectorVars == <<cfg, warmup_remaining, peak_hold, amp_window, last_fire_t, hits, trace>>

-----------------------------------------------------------------------------
(* RollingMax.  Nothing was pushed yet where the ring holds -1. *)
NewMax(len) == [buf |-> [i \in 0..(len - 1) |-> -1], idx |-> 0]

(* Mutant: the index runs one short of the length. *)
PushShort(r, x) ==
    LET len == Cardinality(DOMAIN r.buf)
    IN  [buf |-> [r.buf EXCEPT ![r.idx] = x],
         idx |-> IF len = 1 THEN 0 ELSE (r.idx + 1) % (len - 1)]

Push(r, x) ==
    [buf |-> [r.buf EXCEPT ![r.idx] = x],
     idx |-> (r.idx + 1) % Cardinality(DOMAIN r.buf)]

MaxOf(r) ==
    LET S == {r.buf[i] : i \in DOMAIN r.buf}
    IN  CHOOSE x \in S : \A y \in S : y <= x

(* Config::effective: one factor for everything that is an amplitude.  The   *)
(* thresholds of the other statistics go into their votes.                   *)
Effective(c) ==
    LET k == Scale(c.sensitivity)
    IN  [c EXCEPT !.highpass_g = k * @, !.micro_g = k * @, !.medium_g = k * @,
                  !.major_g = k * @, !.gyro_ratio_min = k * @,
                  !.gyro_peak_min = k * @, !.sensitivity = "mid"]

(* STA/LTA, CUSUM, kurtosis and peak over deviation, each against its own    *)
(* threshold: running averages of the magnitudes so far, left open here.     *)
OtherVotes(f) == f.agree

Votes(f) == OtherVotes(f) + IF f.mag >= cfg.highpass_g THEN 1 ELSE 0

Tier(peak) ==
    CASE peak >= cfg.major_g -> "major"
      [] peak >= cfg.medium_g /\ peak < cfg.major_g -> "medium"
      [] peak >= cfg.micro_g /\ peak < cfg.medium_g -> "micro"
      [] OTHER -> Nil

(* Much rotation for the impact, or much rotation. *)
Confirmed(peak, gyro) ==
    \/ peak > 0 /\ gyro >= cfg.gyro_ratio_min * peak
    \/ gyro >= cfg.gyro_peak_min

(* Mutant: without the gyroscope's say a hit is a hit. *)
PassesGyroAlways(peak, gyro) == TRUE

PassesGyro(peak, gyro) == cfg.gyro_mode = "require" => Confirmed(peak, gyro)

New(c) ==
    /\ cfg = c
    /\ warmup_remaining = WarmupSamples
    /\ peak_hold = NewMax(Hold) /\ amp_window = NewMax(Window)
    /\ last_fire_t = Nil
    /\ hits = <<>> /\ trace = <<>>

DetectorInit == \E c \in Settings : New(Effective(c))

-----------------------------------------------------------------------------
Times(source) == {f.t : f \in {g \in ToSet(trace) : g.source = source}}
Now == IF trace = <<>> THEN 0 ELSE trace[Len(trace)].t

(* The pump's frames: those of a stream in order, the two streams nearly so. *)
Arrives(f) ==
    /\ Len(trace) < MaxFrames
    /\ \A t \in Times(f.source) : t < f.t
    /\ f.t \in (Now - 1)..(Now + 2)
    /\ trace' = Append(trace, f)

PushGyro(f) ==
    /\ Arrives(f)
    /\ amp_window' = Push(amp_window, f.mag)
    /\ UNCHANGED <<cfg, warmup_remaining, peak_hold, last_fire_t, hits>>

Warming == warmup_remaining > 0
Cooling(f) == last_fire_t # Nil /\ f.t - last_fire_t < cfg.cooldown_s

Gyro == IF MaxOf(amp_window) > 0 THEN MaxOf(amp_window) ELSE 0

(* The sample is an impact, of some severity, and the machine also turned. *)
Impact(f, peak) ==
    /\ Votes(f) >= cfg.min_votes
    /\ Tier(peak) # Nil
    /\ PassesGyro(peak, Gyro)

Listens(f) ==
    /\ Arrives(f)
    /\ peak_hold' = Push(peak_hold, f.mag)
    /\ UNCHANGED <<cfg, amp_window>>

WarmsUp(f) ==
    /\ Listens(f)
    /\ Warming
    /\ warmup_remaining' = warmup_remaining - 1
    /\ UNCHANGED <<last_fire_t, hits>>

(* Mutant: the cooldown runs from the last sample that would have fired. *)
SilentRefreshes(f) ==
    /\ Listens(f)
    /\ ~Warming
    /\ Cooling(f) \/ ~Impact(f, MaxOf(peak_hold'))
    /\ last_fire_t' = IF Cooling(f) /\ Impact(f, MaxOf(peak_hold')) THEN f.t ELSE last_fire_t
    /\ UNCHANGED <<warmup_remaining, hits>>

Silent(f) ==
    /\ Listens(f)
    /\ ~Warming
    /\ Cooling(f) \/ ~Impact(f, MaxOf(peak_hold'))
    /\ UNCHANGED <<warmup_remaining, last_fire_t, hits>>

Fires(f) ==
    /\ Listens(f)
    /\ ~Warming /\ ~Cooling(f)
    /\ LET peak == MaxOf(peak_hold') IN
        /\ Impact(f, peak)
        /\ hits' = Append(hits, [t |-> f.t, tier |-> Tier(peak), peak_g |-> peak,
                                 gyro_peak |-> Gyro,
                                 gyro_confirmed |-> cfg.gyro_mode # "off" /\ Confirmed(peak, Gyro)])
    /\ last_fire_t' = f.t
    /\ UNCHANGED warmup_remaining

(* set_config makes a new detector. *)
Reconfigure(c) ==
    /\ cfg' = Effective(c)
    /\ warmup_remaining' = WarmupSamples
    /\ peak_hold' = NewMax(Hold) /\ amp_window' = NewMax(Window)
    /\ last_fire_t' = Nil
    /\ hits' = <<>> /\ trace' = <<>>

Frames(source, agree) == [source : {source}, t : 1..MaxStamp, mag : Mags, agree : agree]

DetectorNext ==
    \/ \E f \in Frames("gyro", {0}) : PushGyro(f)
    \/ \E f \in Frames("accel", Agrees) : WarmsUp(f) \/ Silent(f) \/ Fires(f)
    \/ \E c \in Settings : Reconfigure(c)

DetectorSpec == DetectorInit /\ [][DetectorNext]_detectorVars

-----------------------------------------------------------------------------
(* What the detector should report, told from the trace.                   *)
Selected(frames, source, i) ==
    LET of[n \in 0..Len(frames)] ==
            IF n = 0 THEN <<>>
            ELSE IF frames[n].source = source THEN Append(of[n - 1], frames[n])
            ELSE of[n - 1]
    IN  of[i]

(* The frames of a stream up to i, the latest n of them, and their maximum.  *)
Of(source, i) == Selected(trace, source, i)
Latest(n, s) == SubSeq(s, IF Len(s) > n THEN Len(s) - n + 1 ELSE 1, Len(s))
Largest(s) ==
    CHOOSE x \in {0} \cup {f.mag : f \in ToSet(s)} : \A f \in ToSet(s) : f.mag <= x

IsSlap(i) ==
    LET peak == Largest(Latest(Hold, Of("accel", i)))
        gyro == Largest(Latest(Window, Of("gyro", i)))
    IN  /\ Votes(trace[i]) >= cfg.min_votes
        /\ Tier(peak) # Nil
        /\ cfg.gyro_mode = "require" => Confirmed(peak, gyro)

(* Past the warmup a slap is reported exactly once: every sample that is one *)
(* is reported, unless one was within the cooldown before it, and no other   *)
(* sample is.  The two windows are the latest samples, no fewer and none     *)
(* older (detector.rs:384-426, filters.rs:118).                              *)
HitsAreSlaps ==
    \A i \in {j \in DOMAIN trace : trace[j].source = "accel"} :
        LET t == trace[i].t
        IN  (\E h \in ToSet(hits) : h.t = t) <=>
                /\ Len(Of("accel", i)) > WarmupSamples
                /\ \A h \in ToSet(hits) : h.t < t => t - h.t >= cfg.cooldown_s
                /\ IsSlap(i)

(* The gyroscope's samples up to i never are more than a step apart, and the *)
(* last one is no older than the sample i.                                   *)
KeepsPace(i) ==
    LET g == Of("gyro", i)
    IN  /\ g # <<>> /\ g[Len(g)].t >= trace[i].t - 1
        /\ \A j \in 1..(Len(g) - 1) : g[j + 1].t <= g[j].t + 1

(* Where rotation is required, no detection rests on one from longer ago     *)
(* than the window is meant to reach back, as long as the gyroscope keeps    *)
(* pace; the window is counted in samples (detector.rs:415, config.rs:161).  *)
RotationIsRecent ==
    \A h \in ToSet(hits) : \A i \in DOMAIN trace :
        /\ cfg.gyro_mode = "require"
        /\ trace[i].source = "accel" /\ trace[i].t = h.t
        /\ KeepsPace(i)
        => \E g \in ToSet(Of("gyro", i)) :
                g.t >= h.t - Window /\ Confirmed(h.peak_g, g.mag)

-----------------------------------------------------------------------------
(* The inductive invariant of the two.                                     *)
Samples == Frames("gyro", {0}) \cup Frames("accel", Agrees)
Detections ==
    [t : 1..MaxStamp, tier : {"micro", "medium", "major"}, peak_g : Nat, gyro_peak : Nat,
     gyro_confirmed : BOOLEAN]

DetectorTypeOK ==
    /\ cfg \in Options
    /\ warmup_remaining \in 0..WarmupSamples
    /\ last_fire_t \in 1..MaxStamp \cup {Nil}
    /\ hits \in Seq(Detections)
    /\ trace \in Seq(Samples)

(* Where a ring keeps the latest sample but k. *)
Slot(idx, k, len) == IF k < idx THEN idx - 1 - k ELSE len + idx - 1 - k

RingHolds(r, len, s) ==
    /\ r \in [buf : [0..(len - 1) -> Int], idx : 0..(len - 1)]
    /\ \A k \in 0..(len - 1) :
        r.buf[Slot(r.idx, k, len)] = IF k < Len(s) THEN s[Len(s) - k].mag ELSE -1

(* The windows and the warmup say of the samples so far what they are for.   *)
WindowsInv ==
    /\ RingHolds(peak_hold, Hold, Of("accel", Len(trace)))
    /\ RingHolds(amp_window, Window, Of("gyro", Len(trace)))

WarmupInv ==
    LET seen == Len(Of("accel", Len(trace)))
    IN  warmup_remaining = IF seen < WarmupSamples THEN WarmupSamples - seen ELSE 0

(* The cooldown runs from the latest detection, which was a sample's.       *)
FireInv ==
    /\ last_fire_t = Nil <=> hits = <<>>
    /\ hits # <<>> => \E h \in ToSet(hits) : h.t = last_fire_t
    /\ \A h \in ToSet(hits) : h.t <= last_fire_t /\ h.t \in Times("accel")

ConfirmedInv ==
    cfg.gyro_mode = "require" =>
        \A h \in ToSet(hits) : \A i \in DOMAIN trace :
            trace[i].source = "accel" /\ trace[i].t = h.t =>
                Confirmed(h.peak_g, Largest(Latest(Window, Of("gyro", i))))

DetectorInv ==
    DetectorTypeOK /\ WindowsInv /\ WarmupInv /\ FireInv /\ ConfirmedInv /\ HitsAreSlaps

=============================================================================
