---------------------------- MODULE DetectorProofs ----------------------------
(***************************************************************************)
(* The detector loop's safety properties hold for any actions, intervals   *)
(* and requests, any warmup and cooldown; the detector's for any settings, *)
(* magnitudes and lengths of its two windows.  The bounds do not matter.   *)
(*                                                                         *)
(* The argument about the detector goes from the rings to the trace: a     *)
(* ring of len slots holds the latest len samples of its stream at all     *)
(* times (PushHolds), so its maximum is theirs (RingMax); the warmup is    *)
(* over when that many samples were seen; and the last detection is the    *)
(* latest of all.  Then a sample is judged by the same measures as in the  *)
(* definition, and a later frame changes nothing about it (OldSlaps).      *)
(*                                                                         *)
(* The argument about recordings goes from the text to the trace: what was *)
(* written is read back a line at a time, and the lines before a line hold *)
(* exactly the frames before it (ReadsText); the merge takes both streams  *)
(* in full, each in its order (MergeFacts); and of two frames the earlier  *)
(* keeps its place, since rounded times are in the order of the times      *)
(* (SelectedLater).                                                        *)
(***************************************************************************)
EXTENDS DetectorLoop, Recording, DataLemmas, SequenceTheorems

-----------------------------------------------------------------------------
(* The loop.                                                               *)
LEMMA InitIInv == Init => IInv
<1>. USE LoopAssumption DEF Init
<1>. SUFFICES ASSUME Init PROVE IInv
  OBVIOUS
<1>1. TypeOK
  <2>1. watch.interval \in Intervals /\ watch.enabled \in BOOLEAN
    BY DEF Configs
  <2>2. test \in [Requests -> Tests \cup {Idle}]
    OBVIOUS
  <2>3. status \in [enabled : BOOLEAN, warming_up : BOOLEAN]
    BY <2>1
  <2>4. clock \in 0..MaxTime /\ warmup \in 0..Warmup /\ spanks \in 0..MaxSpanks
    OBVIOUS
  <2>5. last \in 0..MaxTime \cup {None} /\ rate \in Intervals
    BY <2>1
  <2>6. changed \in BOOLEAN /\ shutdown \in BOOLEAN /\ current \in BOOLEAN
    OBVIOUS
  <2>7. pc = "open" /\ watch \in Configs /\ config \in Configs
    OBVIOUS
  <2>. QED  BY <2>2, <2>3, <2>4, <2>5, <2>6, <2>7, Zenon DEF TypeOK
<1>2. SeenInv /\ CurrentInv /\ SensorInv
  BY DEF SeenInv, CurrentInv, SensorInv
<1>3. ClockInv
  BY DEF ClockInv, ClockAgrees
<1>4. TestInv
  BY DEF TestInv, Idle
<1>. QED  BY <1>1, <1>2, <1>3, <1>4 DEF IInv

-----------------------------------------------------------------------------
(* What a handler publishes.                                               *)
LEMMA SwitchIsConfig ==
    ASSUME TypeOK, NEW value \in BOOLEAN
    PROVE  [watch EXCEPT !.enabled = value] \in Configs
BY DEF TypeOK, Configs

LEMMA PublishTests ==
    ASSUME TypeOK, NEW c \in Configs, Publish(c)
    PROVE  /\ test' \in [Requests -> Tests \cup {Idle}]
           /\ \A r \in Requests :
                test'[r].state # "idle" =>
                    /\ test[r].state # "idle"
                    /\ test'[r].id = test[r].id
                    /\ test'[r].pending = test[r].pending
                    /\ test'[r].steady = (test[r].steady /\ test[r].id \in c.actions)
<1>1. \A r \in Requests :
        test'[r] = IF test[r].state = "idle" THEN Idle
                   ELSE [test[r] EXCEPT !.steady = @ /\ test[r].id \in c.actions]
  BY DEF Publish
<1>2. ASSUME NEW r \in Requests, test[r].state = "idle"
      PROVE  test'[r] = Idle
  BY <1>1, <1>2
<1>3. ASSUME NEW r \in Requests, test[r].state # "idle"
      PROVE  /\ test'[r] \in Tests
             /\ test'[r].id = test[r].id
             /\ test'[r].pending = test[r].pending
             /\ test'[r].steady = (test[r].steady /\ test[r].id \in c.actions)
  <2>1. test[r] \in Tests
    BY <1>3 DEF TypeOK, Idle
  <2>2. test'[r] = [test[r] EXCEPT !.steady = @ /\ test[r].id \in c.actions]
    BY <1>1, <1>3
  <2>3. (test[r].steady /\ test[r].id \in c.actions) \in BOOLEAN
    OBVIOUS
  <2>. QED  BY <2>1, <2>2, <2>3 DEF Tests
<1>4. DOMAIN test' = Requests /\ test' = [r \in Requests |-> test'[r]]
  BY DEF Publish
<1>. QED  BY <1>2, <1>3, <1>4 DEF Idle

LEMMA PublishType ==
    ASSUME TypeOK, NEW c \in Configs, Publish(c)
    PROVE  TypeOK'
<1>1. test' \in [Requests -> Tests \cup {Idle}]
  BY PublishTests
<1>2. current' \in BOOLEAN
  BY DEF Publish, TypeOK
<1>. QED  BY <1>1, <1>2 DEF Publish, TypeOK, sensor, detector

LEMMA PublishTestInv ==
    ASSUME TypeOK, TestInv, NEW c \in Configs, Publish(c)
    PROVE  TestInv'
<1>1. watch' = c /\ config' = config
  BY DEF Publish
<1>. QED  BY <1>1, PublishTests DEF TestInv

-----------------------------------------------------------------------------
(* Types.                                                                  *)
LEMMA TypeStep ==
    ASSUME TypeOK, Next
    PROVE  TypeOK'
<1>. USE LoopAssumption DEF TypeOK, handlers, sensor, detector, Configs, Tests, Idle
<1>1. CASE SetConfig
  BY <1>1, PublishType DEF SetConfig
<1>2. CASE SetEnabled
  BY <1>2, PublishType, SwitchIsConfig DEF SetEnabled
<1>3. ASSUME NEW r \in Requests, NEW a \in Actions, TestAction(r, a)
      PROVE  TypeOK'
  BY <1>3 DEF TestAction
<1>4. ASSUME NEW r \in Requests, QueueTest(r)
      PROVE  TypeOK'
  BY <1>4 DEF QueueTest
<1>5. CASE Signal
  BY <1>5 DEF Signal
<1>6. CASE Boot
  <2>1. watch.enabled \in BOOLEAN
    OBVIOUS
  <2>2. status' \in [enabled : BOOLEAN, warming_up : BOOLEAN]
    BY <1>6, <2>1 DEF Boot
  <2>3. test' \in [Requests -> Tests \cup {Idle}]
    BY <1>6 DEF Boot
  <2>4. spanks' \in 0..MaxSpanks
    BY <1>6 DEF Boot
  <2>5. changed' \in BOOLEAN /\ shutdown' \in BOOLEAN /\ current' \in BOOLEAN
    BY <1>6 DEF Boot
  <2>6. pc' = "open" /\ watch' = watch /\ config' = watch
        /\ UNCHANGED <<rate, clock, warmup, last>>
    BY <1>6 DEF Boot
  <2>. QED  BY <2>2, <2>3, <2>4, <2>5, <2>6, Zenon
<1>7. CASE Open
  BY <1>7 DEF Open, OpenSensor, Retune, Goto
<1>8. CASE OpenFails
  BY <1>8 DEF OpenFails, Goto
<1>9. CASE Stop
  BY <1>9 DEF Stop, Goto
<1>10. CASE Look
  BY <1>10 DEF Look, Goto
<1>11. CASE Reload
  <2>1. warmup' \in 0..Warmup /\ last' \in 0..MaxTime \cup {None}
    BY <1>11 DEF Reload, Retune
  <2>2. pc' \in {"tests", "reopen"}
    BY <1>11 DEF Reload, Goto
  <2>3. changed' \in BOOLEAN /\ current' \in BOOLEAN /\ config' = watch
        /\ UNCHANGED <<watch, test, shutdown, rate, clock, spanks, status>>
    BY <1>11 DEF Reload
  <2>. QED  BY <2>1, <2>2, <2>3
<1>12. CASE Reopen
  BY <1>12 DEF Reopen, OpenSensor, Retune, Goto
<1>13. ASSUME NEW r \in Requests, RunTest(r)
      PROVE  TypeOK'
  BY <1>13 DEF RunTest, Queued
<1>14. CASE TestsDone
  BY <1>14 DEF TestsDone, Goto
<1>15. CASE Silence
  BY <1>15 DEF Silence, Sample
<1>16. CASE Muted
  BY <1>16 DEF Muted, Listening, Sample
<1>17. CASE Spank
  BY <1>17 DEF Spank, Listening, Sample
<1>18. CASE EndQuietly
  BY <1>18 DEF EndQuietly, EndTurn, Goto
<1>19. CASE EndWithStatus
  BY <1>19 DEF EndWithStatus, EndTurn, Goto
<1>. QED
  BY <1>1, <1>2, <1>3, <1>4, <1>5, <1>6, <1>7, <1>8, <1>9, <1>10,
     <1>11, <1>12, <1>13, <1>14, <1>15, <1>16, <1>17, <1>18, <1>19
     DEF Next, Handler, Loop

-----------------------------------------------------------------------------
(* The loop's copy differs from the published configuration only while the *)
(* change is still to be seen; a turn that has looked works on a copy that *)
(* was the published one since, and on a sensor opened for it.             *)
LEMMA CopyStep ==
    ASSUME TypeOK, SeenInv, CurrentInv, SensorInv, Next
    PROVE  SeenInv' /\ CurrentInv' /\ SensorInv'
<1>. USE DEF TypeOK, SeenInv, CurrentInv, SensorInv, handlers, sensor, detector, Configs
<1>1. CASE SetConfig
  BY <1>1 DEF SetConfig, Publish
<1>2. CASE SetEnabled
  BY <1>2 DEF SetEnabled, Publish
<1>3. ASSUME NEW r \in Requests, NEW a \in Actions, TestAction(r, a)
      PROVE  SeenInv' /\ CurrentInv' /\ SensorInv'
  BY <1>3 DEF TestAction
<1>4. ASSUME NEW r \in Requests, QueueTest(r)
      PROVE  SeenInv' /\ CurrentInv' /\ SensorInv'
  BY <1>4 DEF QueueTest
<1>5. CASE Signal
  BY <1>5 DEF Signal
<1>6. CASE Boot
  BY <1>6 DEF Boot
<1>7. CASE Open
  BY <1>7 DEF Open, OpenSensor, Retune, Goto
<1>8. CASE OpenFails
  BY <1>8 DEF OpenFails, Goto
<1>9. CASE Stop
  BY <1>9 DEF Stop, Goto
<1>10. CASE Look
  BY <1>10 DEF Look, Goto
<1>11. CASE Reload
  BY <1>11 DEF Reload, Retune, Goto
<1>12. CASE Reopen
  BY <1>12 DEF Reopen, OpenSensor, Retune, Goto
<1>13. ASSUME NEW r \in Requests, RunTest(r)
      PROVE  SeenInv' /\ CurrentInv' /\ SensorInv'
  BY <1>13 DEF RunTest, Queued
<1>14. CASE TestsDone
  BY <1>14 DEF TestsDone, Goto
<1>15. CASE Silence
  BY <1>15 DEF Silence, Sample
<1>16. CASE Muted
  BY <1>16 DEF Muted, Listening, Sample
<1>17. CASE Spank
  BY <1>17 DEF Spank, Listening, Sample
<1>18. CASE EndQuietly
  BY <1>18 DEF EndQuietly, EndTurn, Goto
<1>19. CASE EndWithStatus
  BY <1>19 DEF EndWithStatus, EndTurn, Goto
<1>. QED
  BY <1>1, <1>2, <1>3, <1>4, <1>5, <1>6, <1>7, <1>8, <1>9, <1>10,
     <1>11, <1>12, <1>13, <1>14, <1>15, <1>16, <1>17, <1>18, <1>19
     DEF Next, Handler, Loop

-----------------------------------------------------------------------------
(* The detector is made anew with every clock, and learns for Warmup samples *)
(* of it before it may fire.                                                 *)
LEMMA ClockStep ==
    ASSUME TypeOK, ClockInv, Next
    PROVE  ClockInv'
<1>. USE LoopAssumption DEF TypeOK, ClockInv, ClockAgrees, handlers, sensor, detector
<1>1. CASE SetConfig
  BY <1>1 DEF SetConfig, Publish
<1>2. CASE SetEnabled
  BY <1>2 DEF SetEnabled, Publish
<1>3. ASSUME NEW r \in Requests, NEW a \in Actions, TestAction(r, a)
      PROVE  ClockInv'
  BY <1>3 DEF TestAction
<1>4. ASSUME NEW r \in Requests, QueueTest(r)
      PROVE  ClockInv'
  BY <1>4 DEF QueueTest
<1>5. CASE Signal
  BY <1>5 DEF Signal
<1>6. CASE Boot
  BY <1>6 DEF Boot
<1>7. CASE Open
  BY <1>7 DEF Open, OpenSensor, Retune, Goto
<1>8. CASE OpenFails
  BY <1>8 DEF OpenFails, Goto
<1>9. CASE Stop
  BY <1>9 DEF Stop, Goto
<1>10. CASE Look
  BY <1>10 DEF Look, Goto
<1>11. CASE Reload
  BY <1>11 DEF Reload, Retune, Goto
<1>12. CASE Reopen
  BY <1>12 DEF Reopen, OpenSensor, Retune, Goto
<1>13. ASSUME NEW r \in Requests, RunTest(r)
      PROVE  ClockInv'
  BY <1>13 DEF RunTest, Queued
<1>14. CASE TestsDone
  BY <1>14 DEF TestsDone, Goto
<1>15. CASE Silence
  BY <1>15 DEF Silence, Sample
<1>16. CASE Muted
  BY <1>16 DEF Muted, Listening, Sample
<1>17. CASE Spank
  BY <1>17 DEF Spank, Listening, Sample
<1>18. CASE EndQuietly
  BY <1>18 DEF EndQuietly, EndTurn, Goto
<1>19. CASE EndWithStatus
  BY <1>19 DEF EndWithStatus, EndTurn, Goto
<1>. QED
  BY <1>1, <1>2, <1>3, <1>4, <1>5, <1>6, <1>7, <1>8, <1>9, <1>10,
     <1>11, <1>12, <1>13, <1>14, <1>15, <1>16, <1>17, <1>18, <1>19
     DEF Next, Handler, Loop

-----------------------------------------------------------------------------
(* A test that was accepted when no change was waiting names an action of    *)
(* the loop's copy, and of every copy taken over while it stays configured.  *)
LEMMA TestStep ==
    ASSUME TypeOK, SeenInv, TestInv, Next
    PROVE  TestInv'
<1>. USE DEF TypeOK, SeenInv, TestInv, handlers, sensor, detector, Configs, Tests, Idle
<1>1. CASE SetConfig
  BY <1>1, PublishTestInv DEF SetConfig
<1>2. CASE SetEnabled
  BY <1>2, PublishTestInv, SwitchIsConfig DEF SetEnabled
<1>3. ASSUME NEW r \in Requests, NEW a \in Actions, TestAction(r, a)
      PROVE  TestInv'
  BY <1>3 DEF TestAction
<1>4. ASSUME NEW r \in Requests, QueueTest(r)
      PROVE  TestInv'
  BY <1>4 DEF QueueTest
<1>5. CASE Signal
  BY <1>5 DEF Signal
<1>6. CASE Boot
  BY <1>6 DEF Boot
<1>7. CASE Open
  BY <1>7 DEF Open, OpenSensor, Retune, Goto
<1>8. CASE OpenFails
  BY <1>8 DEF OpenFails, Goto
<1>9. CASE Stop
  BY <1>9 DEF Stop, Goto
<1>10. CASE Look
  BY <1>10 DEF Look, Goto
<1>11. CASE Reload
  BY <1>11 DEF Reload, Retune, Goto
<1>12. CASE Reopen
  BY <1>12 DEF Reopen, OpenSensor, Retune, Goto
<1>13. ASSUME NEW r \in Requests, RunTest(r)
      PROVE  TestInv'
  BY <1>13 DEF RunTest, Queued
<1>14. CASE TestsDone
  BY <1>14 DEF TestsDone, Goto
<1>15. CASE Silence
  BY <1>15 DEF Silence, Sample
<1>16. CASE Muted
  BY <1>16 DEF Muted, Listening, Sample
<1>17. CASE Spank
  BY <1>17 DEF Spank, Listening, Sample
<1>18. CASE EndQuietly
  BY <1>18 DEF EndQuietly, EndTurn, Goto
<1>19. CASE EndWithStatus
  BY <1>19 DEF EndWithStatus, EndTurn, Goto
<1>. QED
  BY <1>1, <1>2, <1>3, <1>4, <1>5, <1>6, <1>7, <1>8, <1>9, <1>10,
     <1>11, <1>12, <1>13, <1>14, <1>15, <1>16, <1>17, <1>18, <1>19
     DEF Next, Handler, Loop

-----------------------------------------------------------------------------
LEMMA StutterIInv == ASSUME IInv, UNCHANGED vars PROVE IInv'
BY DEF vars, handlers, sensor, detector, IInv, TypeOK, SeenInv, CurrentInv,
       SensorInv, ClockInv, ClockAgrees, TestInv

LEMMA IInvHolds == Spec => []IInv
<1>1. Init => IInv
  BY InitIInv
<1>2. IInv /\ [Next]_vars => IInv'
  BY TypeStep, CopyStep, ClockStep, TestStep, StutterIInv DEF IInv
<1>. QED  BY <1>1, <1>2, PTL DEF Spec

(* The types hold; the detector's count of samples to learn from never drops *)
(* below zero (detector.rs:384).                                             *)
THEOREM TypeCorrect == Spec => []TypeOK
<1>1. IInv => TypeOK
  BY DEF IInv
<1>. QED  BY <1>1, IInvHolds, PTL

(* Samples are read at the interval the loop's configuration asks for.       *)
THEOREM SensorFollows == Spec => []SensorFollowsConfig
<1>1. IInv => SensorFollowsConfig
  BY DEF IInv, SensorInv, SensorFollowsConfig
<1>. QED  BY <1>1, IInvHolds, PTL

(* The detector's last detection lies on the clock of the sensor that is     *)
(* open, after its warmup.                                                   *)
THEOREM ClockStaysRight == Spec => []ClockAgrees
<1>1. IInv => ClockAgrees
  BY DEF IInv, ClockInv
<1>. QED  BY <1>1, IInvHolds, PTL

(* A test is lost only to a change that the loop had not seen when it was    *)
(* accepted, or that removes its action.                                     *)
THEOREM KeptTestsAreRun == Spec => []KeptTestsRun
<1>1. IInv => KeptTestsRun
  BY DEF IInv, TestInv, KeptTestsRun, Queued
<1>. QED  BY <1>1, IInvHolds, PTL

(* No spank is dispatched under a configuration that was switched off, or    *)
(* that was replaced before this turn looked.                                *)
THEOREM SpanksStayCurrent == Spec => SpanksAreCurrent
<1>1. ASSUME IInv, [Next]_vars, spanks' > spanks
      PROVE  current /\ config.enabled
  <2>1. spanks \in Nat
    BY <1>1, LoopAssumption DEF IInv, TypeOK
  <2>2. CASE UNCHANGED vars
    BY <2>1, <2>2, <1>1 DEF vars
  <2>3. ASSUME spanks' # spanks, ~Boot, Next PROVE Spank
    BY <2>3 DEF Next, Handler, Loop, Signal, SetConfig, SetEnabled, Publish,
         TestAction, QueueTest, Open, OpenFails, Stop, Look, Reload, Reopen,
         RunTest, TestsDone, Silence, Muted, EndQuietly, EndWithStatus, EndTurn
  <2>4. Boot => ~(spanks' > spanks)
    BY <2>1 DEF Boot
  <2>5. spanks' # spanks
    BY <1>1, <2>1
  <2>6. CASE Next
    <3>1. Spank
      BY <1>1, <2>3, <2>4, <2>5, <2>6
    <3>. QED  BY <1>1, <3>1 DEF Spank, Sample, IInv, CurrentInv
  <2>. QED  BY <1>1, <2>2, <2>6
<1>2. IInv /\ [Next]_vars => [spanks' > spanks => current /\ config.enabled]_vars
  BY <1>1
<1>. QED  BY <1>2, IInvHolds, PTL DEF Spec, SpanksAreCurrent

-----------------------------------------------------------------------------
(* The frames of one stream.                                               *)
SelectedStep(frames, source, n) ==
    Selected(frames, source, n) =
        IF frames[n].source = source THEN Append(Selected(frames, source, n - 1), frames[n])
        ELSE Selected(frames, source, n - 1)

LEMMA SelectedSteps ==
    ASSUME NEW S, NEW frames \in Seq(S), NEW source
    PROVE  /\ Selected(frames, source, 0) = <<>>
           /\ \A n \in 1..Len(frames) : SelectedStep(frames, source, n)
           /\ \A n \in 0..Len(frames) : Selected(frames, source, n) \in Seq(S)
<1>. DEFINE L == Len(frames)
            Then(n, s) == IF frames[n].source = source THEN Append(s, frames[n]) ELSE s
            of == CHOOSE f : f = [n \in 0..L |-> IF n = 0 THEN <<>>
                        ELSE IF frames[n].source = source THEN Append(f[n - 1], frames[n])
                        ELSE f[n - 1]]
            T == Seq(S)
<1>1. L \in Nat /\ 0 <= L /\ \A n \in 1..L : frames[n] \in S
  OBVIOUS
<1>2. \A n : Selected(frames, source, n) = of[n]
  BY DEF Selected
<1>. HIDE DEF L
<1>3. <<>> \in T /\ \A n \in 1..L, s \in T : Then(n, s) \in T
  BY <1>1
<1>. HIDE DEF T
<1>4. of = [n \in 0..L |-> IF n = 0 THEN <<>> ELSE Then(n, of[n - 1])] /\ of \in [0..L -> T]
  <2>. DEFINE F == [p \in (0..L) \X T |-> IF p[1] = 0 THEN <<>> ELSE Then(p[1], p[2])]
  <2>1. \A n \in 0..L, s \in T : F[<<n, s>>] = IF n = 0 THEN <<>> ELSE Then(n, s)
    OBVIOUS
  <2>2. F \in [(0..L) \X T -> T]
    <3>1. \A p \in (0..L) \X T : p[1] # 0 => p[1] \in 1..L /\ p[2] \in T
      BY <1>1
    <3>. HIDE DEF Then
    <3>. QED  BY <1>3, <3>1
  <2>. HIDE DEF F
  <2>3. 0 \in Int /\ L \in Int /\ 0 <= L
    BY <1>1
  <2>4. PICK f \in [0..L -> T] : Recursive(f, 0, L, <<>>, F)
    BY <1>3, <2>2, <2>3, RecursiveFunction, Zenon
  <2>5. ASSUME NEW n \in 0..L
        PROVE  f[n] = IF n = 0 THEN <<>> ELSE Then(n, f[n - 1])
    <3>1. CASE n = 0
      BY <2>4, <3>1 DEF Recursive
    <3>2. CASE n # 0
      <4>1. n - 1 \in 0..L
        BY <1>1, <3>2
      <4>. HIDE DEF Then
      <4>2. F[<<n, f[n - 1]>>] = Then(n, f[n - 1])
        BY <2>1, <3>2, <4>1
      <4>. QED  BY <2>4, <3>2, <4>2 DEF Recursive
    <3>. QED  BY <3>1, <3>2
  <2>6. f = [n \in 0..L |-> IF n = 0 THEN <<>> ELSE Then(n, f[n - 1])]
    <3>. HIDE DEF Then
    <3>. QED  BY <2>5, Zenon
  <2>7. of = [n \in 0..L |-> IF n = 0 THEN <<>> ELSE Then(n, of[n - 1])]
    BY <2>6, Zenon
  <2>. DEFINE Good == {n \in 0..L : of[n] \in T}
  <2>. HIDE DEF of, Then
  <2>8. 0..L \subseteq Good
    <3>1. 0 \in 0..L /\ 0 \in Int /\ L \in Int
      BY <1>1
    <3>2. 0 \in Good
      BY <1>3, <2>7, <3>1
    <3>3. ASSUME NEW n \in 0..(L - 1), n \in Good
          PROVE  n + 1 \in Good
      <4>1. n + 1 \in 0..L /\ n + 1 \in 1..L /\ n + 1 # 0 /\ (n + 1) - 1 = n
        BY <1>1
      <4>2. of[n + 1] = IF n + 1 = 0 THEN <<>> ELSE Then(n + 1, of[(n + 1) - 1])
        BY <2>7, <4>1, Zenon
      <4>. QED  BY <1>3, <3>3, <4>1, <4>2
    <3>. HIDE DEF Good
    <3>. QED  BY <3>1, <3>2, <3>3, IntervalInduction
  <2>9. \A n \in 0..L : of[n] \in T
    BY <2>8
  <2>. QED  BY <2>7, <2>9, Zenon
<1>. HIDE DEF of
<1>5. of[0] = <<>>
  <2>1. 0 \in 0..L
    BY <1>1
  <2>. QED  BY <1>4, <2>1
<1>6. ASSUME NEW n \in 1..L
      PROVE  of[n] = Then(n, of[n - 1])
  <2>1. n \in 0..L /\ n # 0
    BY <1>1
  <2>. HIDE DEF Then
  <2>2. of[n] = IF n = 0 THEN <<>> ELSE Then(n, of[n - 1])
    BY <1>4, <2>1, Zenon
  <2>. QED  BY <2>1, <2>2
<1>7. \A n \in 0..L : of[n] \in T
  BY <1>4
<1>8. \A n \in 1..L : SelectedStep(frames, source, n)
  BY <1>2, <1>6 DEF SelectedStep
<1>. QED  BY <1>2, <1>5, <1>7, <1>8, Zenon DEF L, T

SelectedGrows(longer, frames, source, f) ==
    /\ \A n \in 0..Len(frames) : Selected(longer, source, n) = Selected(frames, source, n)
    /\ Selected(longer, source, Len(frames) + 1) =
            IF f.source = source THEN Append(Selected(frames, source, Len(frames)), f)
            ELSE Selected(frames, source, Len(frames))

LEMMA SelectedAppend ==
    ASSUME NEW S, NEW frames \in Seq(S), NEW source, NEW f \in S
    PROVE  SelectedGrows(Append(frames, f), frames, source, f)
<1>. DEFINE L == Len(frames)
            longer == Append(frames, f)
            Good == {n \in 0..L : Selected(longer, source, n) = Selected(frames, source, n)}
<1>1. /\ L \in Nat /\ longer \in Seq(S) /\ Len(longer) = L + 1
      /\ longer[L + 1] = f /\ \A n \in 1..L : longer[n] = frames[n]
  OBVIOUS
<1>. HIDE DEF longer
<1>2. /\ Selected(frames, source, 0) = <<>> /\ Selected(longer, source, 0) = <<>>
      /\ \A n \in 1..L : SelectedStep(frames, source, n)
      /\ \A n \in 1..(L + 1) : SelectedStep(longer, source, n)
  <2>1. /\ Selected(frames, source, 0) = <<>>
        /\ \A n \in 1..Len(frames) : SelectedStep(frames, source, n)
    BY SelectedSteps, Zenon
  <2>2. /\ Selected(longer, source, 0) = <<>>
        /\ \A n \in 1..Len(longer) : SelectedStep(longer, source, n)
    BY <1>1, SelectedSteps, Zenon
  <2>. QED  BY <1>1, <2>1, <2>2
<1>. HIDE DEF L
<1>3. 0 \in Good
  BY <1>1, <1>2
<1>4. ASSUME NEW n \in 0..(L - 1), n \in Good
      PROVE  n + 1 \in Good
  <2>1. n + 1 \in 1..L /\ n + 1 \in 1..(L + 1) /\ n + 1 \in 0..L /\ (n + 1) - 1 = n
    BY <1>1
  <2>2. longer[n + 1] = frames[n + 1]
    BY <1>1, <2>1
  <2>3. Selected(longer, source, n) = Selected(frames, source, n)
    BY <1>4
  <2>4. Selected(longer, source, n + 1) = Selected(frames, source, n + 1)
    BY <1>2, <2>1, <2>2, <2>3 DEF SelectedStep
  <2>. QED  BY <2>1, <2>4
<1>5. 0..L \subseteq Good
  <2>1. 0 \in Int /\ L \in Int
    BY <1>1
  <2>. HIDE DEF Good
  <2>. QED  BY <1>3, <1>4, <2>1, IntervalInduction
<1>6. \A n \in 0..L : Selected(longer, source, n) = Selected(frames, source, n)
  BY <1>5
<1>7. Selected(longer, source, L + 1) =
        IF f.source = source THEN Append(Selected(frames, source, L), f)
        ELSE Selected(frames, source, L)
  <2>1. L + 1 \in 1..(L + 1) /\ (L + 1) - 1 = L /\ L \in 0..L
    BY <1>1
  <2>. QED  BY <1>1, <1>2, <1>6, <2>1 DEF SelectedStep
<1>. QED  BY <1>6, <1>7 DEF SelectedGrows, L, longer

-----------------------------------------------------------------------------
(* The rings.                                                              *)
LEMMA SlotFacts ==
    ASSUME NEW len \in Nat \ {0}, NEW idx \in 0..(len - 1)
    PROVE  /\ \A k \in 0..(len - 1) : Slot(idx, k, len) \in 0..(len - 1)
           /\ \A p \in 0..(len - 1) : \E k \in 0..(len - 1) : p = Slot(idx, k, len)
<1>1. \A k \in 0..(len - 1) : Slot(idx, k, len) \in 0..(len - 1)
  BY DEF Slot
<1>2. ASSUME NEW p \in 0..(len - 1)
      PROVE  \E k \in 0..(len - 1) : p = Slot(idx, k, len)
  <2>1. CASE p < idx
    <3>1. idx - 1 - p \in 0..(len - 1) /\ p = Slot(idx, idx - 1 - p, len)
      BY <2>1 DEF Slot
    <3>. QED  BY <3>1
  <2>2. CASE ~(p < idx)
    <3>1. len + idx - 1 - p \in 0..(len - 1) /\ p = Slot(idx, len + idx - 1 - p, len)
      BY <2>2 DEF Slot
    <3>. QED  BY <3>1
  <2>. QED  BY <2>1, <2>2
<1>. QED  BY <1>1, <1>2

LEMMA NewHolds == ASSUME NEW len \in Nat \ {0} PROVE RingHolds(NewMax(len), len, <<>>)
<1>1. NewMax(len) \in [buf : [0..(len - 1) -> Int], idx : 0..(len - 1)]
  BY DEF NewMax
<1>2. \A k \in 0..(len - 1) : Slot(0, k, len) \in 0..(len - 1)
  BY DEF Slot
<1>3. \A k \in 0..(len - 1) : NewMax(len).buf[Slot(NewMax(len).idx, k, len)] = -1
  BY <1>2 DEF NewMax
<1>. QED  BY <1>1, <1>3 DEF RingHolds

LEMMA PushHolds ==
    ASSUME NEW S, NEW len \in Nat \ {0}, NEW r, NEW s \in Seq(S), NEW f \in S, f.mag \in Nat,
           RingHolds(r, len, s)
    PROVE  RingHolds(Push(r, f.mag), len, Append(s, f))
<1>. DEFINE x == f.mag
            idx == r.idx
            buf == r.buf
            next == IF idx + 1 = len THEN 0 ELSE idx + 1
            new == [buf EXCEPT ![idx] = x]
            q == [buf |-> new, idx |-> next]
            L == Len(s)
            t == Append(s, f)
<1>1. idx \in 0..(len - 1) /\ buf \in [0..(len - 1) -> Int] /\ x \in Int
  BY DEF RingHolds
<1>2. (idx + 1) % len = next
  <2>1. next \in 0..(len - 1) /\ idx + 1 \in Int
    BY <1>1
  <2>2. CASE idx + 1 = len
    <3>1. idx + 1 = (len * 1) + next /\ 1 \in Int
      BY <2>2
    <3>. HIDE DEF idx, next
    <3>. QED  BY <2>1, <3>1, ModUnique
  <2>3. CASE idx + 1 # len
    <3>1. idx + 1 = (len * 0) + next /\ 0 \in Int
      BY <1>1, <2>3
    <3>. HIDE DEF idx, next
    <3>. QED  BY <2>1, <3>1, ModUnique
  <2>. QED  BY <2>2, <2>3
<1>3. Push(r, x) = q
  <2>1. IsFiniteSet(0..(len - 1)) /\ Cardinality(0..(len - 1)) = len
    <3>. DEFINE hi == len - 1
    <3>1. 0 \in Int /\ hi \in Int /\ ~(0 > hi) /\ hi - 0 + 1 = len
      OBVIOUS
    <3>. HIDE DEF hi
    <3>2. IsFiniteSet(0..hi) /\ Cardinality(0..hi) = IF 0 > hi THEN 0 ELSE hi - 0 + 1
      BY <3>1, FS_Interval, Zenon
    <3>. QED  BY <3>1, <3>2 DEF hi
  <2>2. DOMAIN buf = 0..(len - 1)
    BY <1>1
  <2>. QED  BY <1>2, <2>1, <2>2 DEF Push
<1>4. /\ L \in Nat /\ Len(t) = L + 1 /\ t[L + 1] = f
      /\ \A i \in 1..L : t[i] = s[i]
  OBVIOUS
<1>5. \A k \in 0..(len - 1) : buf[Slot(idx, k, len)] = IF k < L THEN s[L - k].mag ELSE -1
  BY DEF RingHolds
<1>. HIDE DEF idx, buf, x, L, t
<1>6. new \in [0..(len - 1) -> Int] /\ next \in 0..(len - 1)
  BY <1>1
<1>7. /\ new[idx] = x
      /\ \A p \in 0..(len - 1) : p # idx => new[p] = buf[p]
  BY <1>1
<1>. HIDE DEF new
<1>8. ASSUME NEW k \in 0..(len - 1)
      PROVE  new[Slot(next, k, len)] = IF k < L + 1 THEN t[(L + 1) - k].mag ELSE -1
  <2>1. CASE k = 0
    <3>1. Slot(next, k, len) = idx
      BY <1>1, <2>1 DEF Slot
    <3>2. (L + 1) - k = L + 1 /\ k < L + 1
      BY <1>4, <2>1
    <3>. QED  BY <1>4, <1>7, <3>1, <3>2 DEF x
  <2>2. CASE k # 0
    <3>1. k - 1 \in 0..(len - 1)
      BY <2>2
    <3>2. /\ Slot(next, k, len) = Slot(idx, k - 1, len)
          /\ Slot(idx, k - 1, len) \in 0..(len - 1)
          /\ Slot(idx, k - 1, len) # idx
      BY <1>1, <2>2 DEF Slot
    <3>3. new[Slot(next, k, len)] = IF k - 1 < L THEN s[L - (k - 1)].mag ELSE -1
      BY <1>5, <1>7, <3>1, <3>2
    <3>4. k - 1 < L <=> k < L + 1
      BY <1>4
    <3>5. k - 1 < L => (L + 1) - k = L - (k - 1) /\ L - (k - 1) \in 1..L
      BY <1>4, <3>1
    <3>. QED  BY <1>4, <3>3, <3>4, <3>5
  <2>. QED  BY <2>1, <2>2
<1>9. q \in [buf : [0..(len - 1) -> Int], idx : 0..(len - 1)]
  BY <1>6
<1>10. RingHolds(q, len, t)
  <2>1. q.buf = new /\ q.idx = next /\ Len(t) = L + 1
    BY <1>4
  <2>2. ASSUME NEW k \in 0..(len - 1)
        PROVE  q.buf[Slot(q.idx, k, len)] = IF k < Len(t) THEN t[Len(t) - k].mag ELSE -1
    BY <1>8, <2>1
  <2>. HIDE DEF q
  <2>. QED  BY <1>9, <2>2, Zenon DEF RingHolds
<1>. QED  BY <1>3, <1>10 DEF x, t

(* The latest samples, and their maximum.                                    *)
LEMMA LatestFacts ==
    ASSUME NEW S, NEW s \in Seq(S), NEW n \in Nat \ {0}
    PROVE  /\ \A f \in ToSet(Latest(n, s)) : \E k \in 0..(n - 1) : k < Len(s) /\ f = s[Len(s) - k]
           /\ \A k \in 0..(n - 1) : k < Len(s) => s[Len(s) - k] \in ToSet(Latest(n, s))
           /\ ToSet(Latest(n, s)) \subseteq ToSet(s)
<1>. DEFINE L == Len(s)
            a == IF L > n THEN L - n + 1 ELSE 1
            t == SubSeq(s, a, L)
<1>1. L \in Nat /\ a \in Int /\ 1 <= a /\ a <= L + 1 /\ L - a < n
  OBVIOUS
<1>2. /\ t \in Seq(S) /\ DOMAIN t = 1..(L - a + 1)
      /\ \A i \in 1..(L - a + 1) : t[i] = s[a + i - 1]
  <2>. HIDE DEF a
  <2>1. Len(t) = L - a + 1 /\ DOMAIN t = 1..Len(t)
    BY <1>1
  <2>2. \A i \in 1..(L - a + 1) : t[i] = s[a + i - 1]
    BY <1>1
  <2>3. t \in Seq(S)
    BY <1>1
  <2>. QED  BY <2>1, <2>2, <2>3
<1>3. Latest(n, s) = t
  BY DEF Latest
<1>4. L > n => a = L - n + 1
  OBVIOUS
<1>5. ~(L > n) => a = 1
  OBVIOUS
<1>6. DOMAIN s = 1..L
  OBVIOUS
<1>. HIDE DEF t, a, L
<1>7. ASSUME NEW f \in ToSet(t)
      PROVE  f \in ToSet(s) /\ \E k \in 0..(n - 1) : k < L /\ f = s[L - k]
  <2>1. PICK i \in 1..(L - a + 1) : f = s[a + i - 1]
    BY <1>2 DEF ToSet
  <2>2. L - (a + i - 1) \in 0..(n - 1) /\ L - (a + i - 1) < L /\ L - (L - (a + i - 1)) = a + i - 1
    BY <1>1
  <2>3. a + i - 1 \in 1..L
    BY <1>1
  <2>4. f \in ToSet(s)
    BY <1>6, <2>1, <2>3 DEF ToSet
  <2>. QED  BY <2>1, <2>2, <2>4
<1>8. ASSUME NEW k \in 0..(n - 1), k < L
      PROVE  s[L - k] \in ToSet(t)
  <2>1. L - k - a + 1 \in 1..(L - a + 1) /\ a + (L - k - a + 1) - 1 = L - k
    BY <1>1, <1>4, <1>5, <1>8
  <2>2. t[L - k - a + 1] = s[L - k]
    BY <1>2, <2>1
  <2>. QED  BY <1>2, <2>1, <2>2 DEF ToSet
<1>. QED  BY <1>3, <1>7, <1>8 DEF L

LEMMA LargestIs ==
    ASSUME NEW s, \A f \in ToSet(s) : f.mag \in Nat,
           NEW v \in Nat, v = 0 \/ \E f \in ToSet(s) : v = f.mag,
           \A f \in ToSet(s) : f.mag <= v
    PROVE  Largest(s) = v
<1>. DEFINE M == {0} \cup {f.mag : f \in ToSet(s)}
<1>1. v \in M
  OBVIOUS
<1>2. \E x \in M : \A f \in ToSet(s) : f.mag <= x
  BY <1>1
<1>3. Largest(s) \in M /\ \A f \in ToSet(s) : f.mag <= Largest(s)
  BY <1>2 DEF Largest
<1>4. Largest(s) \in Nat
  BY <1>3
<1>5. Largest(s) <= v
  BY <1>3
<1>6. v <= Largest(s)
  BY <1>3, <1>4
<1>. QED  BY <1>4, <1>5, <1>6

LEMMA RingMax ==
    ASSUME NEW S, NEW len \in Nat \ {0}, NEW r, NEW s \in Seq(S), \A f \in S : f.mag \in Nat,
           RingHolds(r, len, s)
    PROVE  /\ Largest(Latest(len, s)) = (IF MaxOf(r) > 0 THEN MaxOf(r) ELSE 0)
           /\ s # <<>> => Largest(Latest(len, s)) = MaxOf(r)
           /\ Largest(Latest(len, s)) \in Nat
<1>. DEFINE V == {r.buf[p] : p \in DOMAIN r.buf}
            M == MaxOf(r)
            late == ToSet(Latest(len, s))
            v == IF M > 0 THEN M ELSE 0
<1>1. r.buf \in [0..(len - 1) -> Int] /\ r.idx \in 0..(len - 1) /\ Len(s) \in Nat
  BY DEF RingHolds
<1>2. M \in V /\ \A y \in V : y <= M
  <2>. DEFINE f == [i \in 1..len |-> r.buf[i - 1]]
  <2>1. f \in [1..len -> Int]
    BY <1>1
  <2>2. PICK i \in 1..len : \A j \in 1..len : f[j] <= f[i]
    <3>. HIDE DEF f
    <3>. QED  BY <2>1, LargestNumber
  <2>3. r.buf[i - 1] \in V
    BY <1>1
  <2>4. ASSUME NEW p \in 0..(len - 1)
        PROVE  r.buf[p] <= r.buf[i - 1]
    <3>1. p + 1 \in 1..len /\ f[p + 1] = r.buf[p] /\ f[i] = r.buf[i - 1]
      OBVIOUS
    <3>2. f[p + 1] <= f[i]
      BY <2>2, <3>1
    <3>. QED  BY <3>1, <3>2
  <2>5. \E x \in V : \A y \in V : y <= x
    BY <1>1, <2>3, <2>4
  <2>. QED  BY <2>5 DEF MaxOf
<1>3. \A f \in late : f.mag \in Nat
  <2>1. late \subseteq ToSet(s)
    BY LatestFacts
  <2>2. \A f \in ToSet(s) : f \in S
    BY DEF ToSet
  <2>. QED  BY <2>1, <2>2
<1>4. \A f \in late : \E k \in 0..(len - 1) : k < Len(s) /\ f = s[Len(s) - k]
  BY LatestFacts
<1>5. \A k \in 0..(len - 1) : k < Len(s) => s[Len(s) - k] \in late
  BY LatestFacts
<1>6. \A k \in 0..(len - 1) :
        r.buf[Slot(r.idx, k, len)] = IF k < Len(s) THEN s[Len(s) - k].mag ELSE -1
  BY DEF RingHolds
<1>7. \A k \in 0..(len - 1) : Slot(r.idx, k, len) \in 0..(len - 1)
  BY <1>1, SlotFacts
<1>8. \A p \in 0..(len - 1) : \E k \in 0..(len - 1) : p = Slot(r.idx, k, len)
  BY <1>1, SlotFacts
<1>. HIDE DEF M, late
<1>9. ASSUME NEW f \in late
      PROVE  f.mag <= M
  <2>1. PICK k \in 0..(len - 1) : k < Len(s) /\ f = s[Len(s) - k]
    BY <1>4
  <2>2. f.mag = r.buf[Slot(r.idx, k, len)]
    BY <1>6, <2>1
  <2>3. Slot(r.idx, k, len) \in DOMAIN r.buf
    BY <1>1, <1>7
  <2>4. f.mag \in V
    BY <2>2, <2>3
  <2>. HIDE DEF V
  <2>. QED  BY <1>2, <2>4
<1>10. M = -1 \/ \E f \in late : M = f.mag
  <2>1. PICK p \in 0..(len - 1) : M = r.buf[p]
    BY <1>1, <1>2
  <2>2. PICK k \in 0..(len - 1) : p = Slot(r.idx, k, len)
    BY <1>8
  <2>3. M = IF k < Len(s) THEN s[Len(s) - k].mag ELSE -1
    BY <1>6, <2>1, <2>2
  <2>. QED  BY <1>5, <2>3
<1>. HIDE DEF V
<1>11. v \in Nat /\ (v = 0 \/ \E f \in late : v = f.mag) /\ \A f \in late : f.mag <= v
  BY <1>3, <1>9, <1>10
<1>12. Largest(Latest(len, s)) = v
  <2>. HIDE DEF v
  <2>. QED  BY <1>3, <1>11, LargestIs DEF late
<1>13. s # <<>> => v = M
  <2>. SUFFICES ASSUME s # <<>> PROVE v = M
    OBVIOUS
  <2>1. Len(s) > 0 /\ 0 \in 0..(len - 1)
    OBVIOUS
  <2>2. s[Len(s) - 0] \in late
    BY <1>5, <2>1
  <2>3. M >= 0
    BY <1>3, <1>9, <1>10, <2>2
  <2>. QED  BY <1>3, <1>10, <2>3
<1>. QED  BY <1>11, <1>12, <1>13 DEF M

-----------------------------------------------------------------------------
(* A detector that is new.                                                 *)
LEMMA EffectiveFacts == ASSUME NEW c \in Settings PROVE Effective(c) \in Options
<1>. DEFINE k == Scale(c.sensitivity)
<1>1. c \in Options /\ k \in Nat
  BY DetectorAssumption
<1>. HIDE DEF k
<1>2. \A x \in Nat : k * x \in Nat
  BY <1>1
<1>. DEFINE hp == k * c.highpass_g
            mi == k * c.micro_g
            me == k * c.medium_g
            ma == k * c.major_g
            rm == k * c.gyro_ratio_min
            pm == k * c.gyro_peak_min
<1>3. hp \in Nat /\ mi \in Nat /\ me \in Nat /\ ma \in Nat /\ rm \in Nat /\ pm \in Nat
  BY <1>1, <1>2 DEF Options
<1>4. Effective(c) = [c EXCEPT !.highpass_g = hp, !.micro_g = mi, !.medium_g = me,
                  !.major_g = ma, !.gyro_ratio_min = rm,
                  !.gyro_peak_min = pm, !.sensitivity = "mid"]
  BY DEF Effective, k
<1>. HIDE DEF hp, mi, me, ma, rm, pm
<1>5. [c EXCEPT !.highpass_g = hp, !.micro_g = mi, !.medium_g = me, !.major_g = ma,
                !.gyro_ratio_min = rm, !.gyro_peak_min = pm, !.sensitivity = "mid"] \in Options
  BY <1>1, <1>3 DEF Options
<1>. QED  BY <1>4, <1>5

LEMMA NewInv == \A c \in Settings : New(Effective(c)) => DetectorInv
<1>. USE DetectorAssumption
<1>. SUFFICES ASSUME NEW c \in Settings, New(Effective(c)) PROVE DetectorInv
  OBVIOUS
<1>1. /\ trace = <<>> /\ hits = <<>> /\ cfg \in Options /\ warmup_remaining = WarmupSamples
      /\ peak_hold = NewMax(Hold) /\ amp_window = NewMax(Window) /\ last_fire_t = Nil
  BY EffectiveFacts DEF New
<1>2. <<>> \in Seq(Samples) /\ <<>> \in Seq(Detections) /\ Len(<<>>) = 0 /\ DOMAIN <<>> = {}
  OBVIOUS
<1>3. \A source : Of(source, 0) = <<>>
  BY <1>1, <1>2, SelectedSteps, Zenon DEF Of
<1>4. DetectorTypeOK
  BY <1>1, <1>2 DEF DetectorTypeOK
<1>5. WindowsInv
  BY <1>1, <1>2, <1>3, NewHolds, Zenon DEF WindowsInv
<1>6. WarmupInv
  BY <1>1, <1>2, <1>3 DEF WarmupInv
<1>7. ToSet(hits) = {}
  BY <1>1 DEF ToSet
<1>8. FireInv
  BY <1>1, <1>7 DEF FireInv
<1>9. ConfirmedInv /\ HitsAreSlaps
  <2>1. DOMAIN trace = {}
    BY <1>1, <1>2
  <2>. QED  BY <1>7, <2>1, Zenon DEF ConfirmedInv, HitsAreSlaps
<1>. QED  BY <1>4, <1>5, <1>6, <1>8, <1>9 DEF DetectorInv

LEMMA NewInvNext == \A c \in Settings : New(Effective(c))' => DetectorInv'
<1>1. (\A c \in Settings : New(Effective(c)) => DetectorInv)'
  BY NewInv, PTL
<1>. QED  BY <1>1

-----------------------------------------------------------------------------
(* What a frame adds to the trace.                                         *)
LEMMA AppendSet ==
    ASSUME NEW S, NEW s \in Seq(S), NEW e \in S
    PROVE  ToSet(Append(s, e)) = ToSet(s) \cup {e}
<1>1. /\ Len(s) \in Nat /\ DOMAIN s = 1..Len(s) /\ DOMAIN Append(s, e) = 1..(Len(s) + 1)
      /\ \A i \in 1..Len(s) : Append(s, e)[i] = s[i]
      /\ Append(s, e)[Len(s) + 1] = e
  OBVIOUS
<1>2. 1..(Len(s) + 1) = 1..Len(s) \cup {Len(s) + 1}
  BY <1>1
<1>. QED  BY <1>1, <1>2, Zenon DEF ToSet

LEMMA TraceStep ==
    ASSUME DetectorTypeOK, NEW f \in Samples, trace' = Append(trace, f)
    PROVE  /\ trace' \in Seq(Samples) /\ Len(trace') = Len(trace) + 1
           /\ DOMAIN trace' = DOMAIN trace \cup {Len(trace) + 1} /\ DOMAIN trace = 1..Len(trace)
           /\ trace'[Len(trace) + 1] = f
           /\ \A i \in DOMAIN trace : trace'[i] = trace[i] /\ i # Len(trace) + 1
           /\ \A i \in DOMAIN trace : \A source : Of(source, i)' = Of(source, i)
           /\ \A source : Of(source, Len(trace))' =
                IF f.source = source THEN Append(Of(source, Len(trace)), f)
                ELSE Of(source, Len(trace))
           /\ \A source : Of(source, Len(trace)) \in Seq(Samples)
<1>1. trace \in Seq(Samples)
  BY DEF DetectorTypeOK
<1>. DEFINE n == Len(trace)
<1>2. /\ n \in Nat /\ trace' \in Seq(Samples) /\ Len(trace') = n + 1 /\ DOMAIN trace = 1..n
      /\ DOMAIN trace' = 1..(n + 1) /\ trace'[n + 1] = f
      /\ \A i \in 1..n : trace'[i] = trace[i]
  BY <1>1
<1>3. 1..(n + 1) = 1..n \cup {n + 1} /\ \A i \in 1..n : i # n + 1 /\ i \in 0..n
  BY <1>2
<1>4. ASSUME NEW source
      PROVE  /\ \A i \in 0..n : Of(source, i)' = Of(source, i)
             /\ Of(source, n)' =
                    IF f.source = source THEN Append(Of(source, n), f) ELSE Of(source, n)
             /\ Of(source, n) \in Seq(Samples)
  <2>1. SelectedGrows(Append(trace, f), trace, source, f)
    BY <1>1, SelectedAppend, Zenon
  <2>2. SelectedGrows(trace', trace, source, f)
    BY <2>1
  <2>3. \A i \in 0..n : Of(source, i)' = Of(source, i)
    BY <2>2 DEF SelectedGrows, Of
  <2>4. Selected(trace', source, n + 1) =
            IF f.source = source THEN Append(Of(source, n), f) ELSE Of(source, n)
    BY <2>2, Zenon DEF SelectedGrows, Of
  <2>7. Of(source, n)' = Selected(trace', source, n + 1)
    BY <1>2 DEF Of
  <2>5. n \in 0..n
    BY <1>2
  <2>6. Of(source, n) \in Seq(Samples)
    BY <1>1, <2>5, SelectedSteps, Zenon DEF Of
  <2>. QED  BY <2>3, <2>4, <2>6, <2>7
<1>5. \A source : \A i \in DOMAIN trace : Of(source, i)' = Of(source, i)
  BY <1>2, <1>3, <1>4, Zenon
<1>6. \A source : Of(source, Len(trace))' =
                IF f.source = source THEN Append(Of(source, n), f) ELSE Of(source, n)
  BY <1>2, <1>4, Zenon
<1>. HIDE DEF n
<1>. QED  BY <1>2, <1>3, <1>4, <1>5, <1>6, Zenon DEF n

(* The samples before are judged as before.                                  *)
LEMMA OldSlaps ==
    ASSUME DetectorTypeOK, NEW f \in Samples, trace' = Append(trace, f), cfg' = cfg,
           NEW i \in DOMAIN trace
    PROVE  IsSlap(i)' = IsSlap(i)
<1>1. trace'[i] = trace[i] /\ \A source : Of(source, i)' = Of(source, i)
  BY TraceStep
<1>. DEFINE peak == Largest(Latest(Hold, Of("accel", i)))
            gyro == Largest(Latest(Window, Of("gyro", i)))
<1>2. peak' = peak /\ gyro' = gyro
  BY <1>1, Zenon
<1>3. Votes(trace[i])' = Votes(trace[i])
  BY <1>1 DEF Votes, OtherVotes
<1>4. Tier(peak)' = Tier(peak) /\ PassesGyro(peak, gyro)' = PassesGyro(peak, gyro)
  <2>. HIDE DEF peak, gyro
  <2>. QED  BY <1>2 DEF Tier, PassesGyro, Confirmed
<1>5. IsSlap(i) = (Votes(trace[i]) >= cfg.min_votes /\ Tier(peak) # Nil /\ PassesGyro(peak, gyro))
  BY Zenon DEF IsSlap, PassesGyro
<1>6. IsSlap(i)' =
        (Votes(trace[i])' >= cfg'.min_votes /\ Tier(peak)' # Nil /\ PassesGyro(peak, gyro)')
  BY Zenon DEF IsSlap, PassesGyro
<1>. HIDE DEF peak, gyro
<1>. QED  BY <1>3, <1>4, <1>5, <1>6

(* The detections of a step, if any, are of the frame that came.             *)
Reported(i) ==
    (\E h \in ToSet(hits) : h.t = trace[i].t) <=>
        /\ Len(Of("accel", i)) > WarmupSamples
        /\ \A h \in ToSet(hits) : h.t < trace[i].t => trace[i].t - h.t >= cfg.cooldown_s
        /\ IsSlap(i)

LEMMA SampleFacts ==
    ASSUME NEW f \in Samples
    PROVE  f.t \in Nat /\ f.t \in 1..MaxStamp /\ f.mag \in Nat
<1>1. f.t \in 1..MaxStamp /\ f.mag \in Mags
  <2>1. CASE f \in Frames("gyro", {0})
    BY <2>1 DEF Frames
  <2>2. CASE f \in Frames("accel", Agrees)
    BY <2>2 DEF Frames
  <2>. QED  BY <2>1, <2>2 DEF Samples
<1>2. (\A t \in 1..MaxStamp : t \in Nat) /\ Mags \subseteq Nat
  BY DetectorAssumption
<1>. QED  BY <1>1, <1>2, Zenon

LEMMA TimesFacts ==
    ASSUME NEW f, Arrives(f), NEW i \in DOMAIN trace, trace[i].source = f.source
    PROVE  trace[i].t < f.t
<1>1. trace[i] \in ToSet(trace)
  BY Zenon DEF ToSet
<1>2. trace[i].t \in Times(f.source)
  BY <1>1, Zenon DEF Times
<1>. QED  BY <1>2 DEF Arrives

LEMMA TimesGrow ==
    ASSUME DetectorTypeOK, NEW f \in Samples, Arrives(f)
    PROVE  /\ \A source : Times(source) \subseteq Times(source)'
           /\ f.t \in Times(f.source)'
<1>1. ToSet(trace') = ToSet(trace) \cup {f}
  BY AppendSet DEF DetectorTypeOK, Arrives
<1>2. \A source : Times(source)' = {g.t : g \in {h \in ToSet(trace') : h.source = source}}
  BY DEF Times
<1>. QED  BY <1>1, <1>2, Zenon DEF Times

(* No detection has the time of a new sample yet.                            *)
LEMMA HitsBefore ==
    ASSUME DetectorInv, NEW f, Arrives(f), f.source = "accel", NEW h \in ToSet(hits)
    PROVE  h.t < f.t /\ h.t \in Nat
<1>1. h.t \in Times("accel")
  BY DEF DetectorInv, FireInv
<1>2. h \in Detections
  BY DEF DetectorInv, DetectorTypeOK, ToSet
<1>. QED  BY <1>1, <1>2 DEF Arrives, Detections

LEMMA FrameStep ==
    ASSUME DetectorInv, NEW f \in Samples, Arrives(f), cfg' = cfg,
           ToSet(hits) \subseteq ToSet(hits'),
           \A h \in ToSet(hits') \ ToSet(hits) : f.source = "accel" /\ h.t = f.t,
           \A h \in ToSet(hits') \ ToSet(hits) :
                PassesGyro(h.peak_g, Largest(Latest(Window, Of("gyro", Len(trace))))),
           \A m : m = Len(trace) + 1 /\ f.source = "accel" => Reported(m)'
    PROVE  ConfirmedInv' /\ HitsAreSlaps'
<1>. DEFINE n == Len(trace)
            old == {i \in DOMAIN trace : trace[i].source = "accel"}
<1>1. DetectorTypeOK /\ trace' = Append(trace, f)
  BY DEF DetectorInv, Arrives
<1>2. /\ DOMAIN trace' = DOMAIN trace \cup {n + 1} /\ trace'[n + 1] = f
      /\ \A i \in DOMAIN trace : trace'[i] = trace[i]
      /\ \A i \in DOMAIN trace : \A source : Of(source, i)' = Of(source, i)
      /\ \A source : Of(source, n)' =
            IF f.source = source THEN Append(Of(source, n), f) ELSE Of(source, n)
      /\ n' = n + 1
  BY <1>1, TraceStep
<1>3. ASSUME NEW i \in old, f.source = "accel"
      PROVE  trace[i].t < f.t
  BY <1>3, TimesFacts
<1>4. f.t \in Nat /\ \A i \in old : trace[i].t \in Nat
  <2>1. \A i \in old : trace[i] \in Samples
    BY DEF DetectorInv, DetectorTypeOK
  <2>. QED  BY <2>1, SampleFacts
<1>5. ASSUME NEW i \in old
      PROVE  Reported(i)'
  <2>1. trace'[i] = trace[i] /\ Of("accel", i)' = Of("accel", i) /\ IsSlap(i)' = IsSlap(i)
    BY <1>1, <1>2, OldSlaps
  <2>2. Reported(i)
    BY Zenon DEF DetectorInv, HitsAreSlaps, Reported
  <2>3. \A h \in ToSet(hits') \ ToSet(hits) : h.t # trace[i].t /\ ~(h.t < trace[i].t)
    BY <1>3, <1>4
  <2>4. (\E h \in ToSet(hits') : h.t = trace[i].t) <=> (\E h \in ToSet(hits) : h.t = trace[i].t)
    BY <2>3
  <2>5. (\A h \in ToSet(hits') : h.t < trace[i].t => trace[i].t - h.t >= cfg.cooldown_s)
        <=> (\A h \in ToSet(hits) : h.t < trace[i].t => trace[i].t - h.t >= cfg.cooldown_s)
    BY <2>3
  <2>. QED  BY <2>1, <2>2, <2>4, <2>5 DEF Reported
<1>6. HitsAreSlaps'
  <2>1. ASSUME NEW i \in DOMAIN trace', trace'[i].source = "accel"
        PROVE  Reported(i)'
    <3>1. CASE i \in DOMAIN trace
      BY <1>2, <1>5, <2>1, <3>1
    <3>2. CASE i = n + 1
      BY <1>2, <2>1, <3>2
    <3>. QED  BY <1>2, <3>1, <3>2
  <2>. QED  BY <2>1, Zenon DEF HitsAreSlaps, Reported
<1>7. ConfirmedInv'
  <2>. SUFFICES ASSUME cfg'.gyro_mode = "require", NEW h \in ToSet(hits'),
                       NEW i \in DOMAIN trace', trace'[i].source = "accel", trace'[i].t = h.t
                PROVE  Confirmed(h.peak_g, Largest(Latest(Window, Of("gyro", i))))'
    BY Zenon DEF ConfirmedInv
  <2>1. CASE h \in ToSet(hits) /\ i \in DOMAIN trace
    <3>1. trace[i].source = "accel" /\ trace[i].t = h.t /\ Of("gyro", i)' = Of("gyro", i)
      BY <1>2, <2>1
    <3>2. Confirmed(h.peak_g, Largest(Latest(Window, Of("gyro", i))))
      BY <2>1, <3>1 DEF DetectorInv, ConfirmedInv
    <3>. QED  BY <3>1, <3>2 DEF Confirmed
  <2>2. CASE h \in ToSet(hits) /\ i = n + 1
    <3>1. f.source = "accel" /\ f.t = h.t
      BY <1>2, <2>2
    <3>. QED  BY <2>2, <3>1, HitsBefore
  <2>3. CASE h \notin ToSet(hits) /\ i \in DOMAIN trace
    BY <1>2, <1>3, <1>4, <2>3
  <2>4. CASE h \notin ToSet(hits) /\ i = n + 1
    <3>1. f.source = "accel"
      BY <2>4
    <3>2. Of("gyro", i)' = Of("gyro", n)
      <4>1. Of("gyro", n)' = Of("gyro", n)
        BY <1>2, <3>1
      <4>2. Of("gyro", i)' = Of("gyro", n)'
        BY <1>2, <2>4
      <4>. QED  BY <4>1, <4>2
    <3>3. PassesGyro(h.peak_g, Largest(Latest(Window, Of("gyro", n))))
      BY <2>4
    <3>. QED  BY <3>2, <3>3 DEF PassesGyro, Confirmed
  <2>. QED  BY <1>2, <2>1, <2>2, <2>3, <2>4
<1>. QED  BY <1>6, <1>7

-----------------------------------------------------------------------------
(* The steps.                                                              *)
LEMMA MagsAreNat == \A f \in Samples : f.mag \in Nat
BY SampleFacts

LEMMA GyroStep ==
    ASSUME DetectorInv, NEW f \in Frames("gyro", {0}), PushGyro(f)
    PROVE  DetectorInv'
<1>. USE DetectorAssumption
<1>. DEFINE n == Len(trace)
<1>1. /\ f \in Samples /\ f.source = "gyro" /\ f.mag \in Nat /\ Arrives(f)
      /\ amp_window' = Push(amp_window, f.mag)
      /\ UNCHANGED <<cfg, warmup_remaining, peak_hold, last_fire_t, hits>>
  <2>1. f.source = "gyro"
    BY DEF Frames
  <2>2. f \in Samples
    BY DEF Samples
  <2>. QED  BY <2>1, <2>2, MagsAreNat DEF PushGyro
<1>2. DetectorTypeOK /\ trace' = Append(trace, f)
  BY <1>1 DEF DetectorInv, Arrives
<1>3. /\ trace' \in Seq(Samples)
      /\ \A source : Of(source, n)' =
            IF f.source = source THEN Append(Of(source, n), f) ELSE Of(source, n)
      /\ \A source : Of(source, n) \in Seq(Samples)
  BY <1>1, <1>2, TraceStep
<1>4. DetectorTypeOK'
  BY <1>1, <1>2, <1>3 DEF DetectorTypeOK
<1>5. Of("accel", n)' = Of("accel", n) /\ Of("gyro", n)' = Append(Of("gyro", n), f)
  BY <1>1, <1>3
<1>6. WindowsInv'
  <2>1. RingHolds(amp_window, Window, Of("gyro", n)) /\ RingHolds(peak_hold, Hold, Of("accel", n))
    BY DEF DetectorInv, WindowsInv
  <2>2. Of("gyro", n) \in Seq(Samples) /\ Window \in Nat \ {0}
    BY <1>3
  <2>3. RingHolds(Push(amp_window, f.mag), Window, Append(Of("gyro", n), f))
    BY <1>1, <2>1, <2>2, PushHolds
  <2>. QED  BY <1>1, <1>5, <2>1, <2>3 DEF WindowsInv
<1>7. WarmupInv'
  BY <1>1, <1>5 DEF DetectorInv, WarmupInv
<1>8. FireInv'
  <2>1. Times("accel") \subseteq Times("accel")'
    BY <1>1, <1>2, TimesGrow
  <2>. QED  BY <1>1, <2>1 DEF DetectorInv, FireInv
<1>9. ConfirmedInv' /\ HitsAreSlaps'
  BY <1>1, FrameStep
<1>. QED  BY <1>4, <1>6, <1>7, <1>8, <1>9 DEF DetectorInv

(* A sample of the accelerometer, whatever comes of it.                      *)
LEMMA ListensStep ==
    ASSUME DetectorInv, NEW f \in Frames("accel", Agrees), Listens(f)
    PROVE  /\ f \in Samples /\ f.source = "accel" /\ Arrives(f) /\ trace' = Append(trace, f)
           /\ DetectorTypeOK /\ trace' \in Seq(Samples) /\ f.t \in 1..MaxStamp
           /\ cfg' = cfg /\ amp_window' = amp_window
           /\ Len(trace') = Len(trace) + 1 /\ trace'[Len(trace) + 1] = f
           /\ Of("accel", Len(trace))' = Append(Of("accel", Len(trace)), f)
           /\ Of("gyro", Len(trace))' = Of("gyro", Len(trace))
           /\ Len(Of("accel", Len(trace))) \in Nat
           /\ Len(Of("accel", Len(trace)))' = Len(Of("accel", Len(trace))) + 1
           /\ WindowsInv'
<1>. USE DetectorAssumption
<1>. DEFINE n == Len(trace)
<1>1. /\ f \in Samples /\ f.source = "accel" /\ f.mag \in Nat /\ f.t \in 1..MaxStamp
      /\ Arrives(f) /\ peak_hold' = Push(peak_hold, f.mag) /\ UNCHANGED <<cfg, amp_window>>
  <2>1. f.source = "accel"
    BY DEF Frames
  <2>2. f \in Samples
    BY DEF Samples
  <2>. QED  BY <2>1, <2>2, SampleFacts DEF Listens
<1>2. DetectorTypeOK /\ trace' = Append(trace, f)
  BY <1>1 DEF DetectorInv, Arrives
<1>3. /\ trace' \in Seq(Samples) /\ Len(trace') = n + 1 /\ trace'[n + 1] = f
      /\ \A source : Of(source, n)' =
            IF f.source = source THEN Append(Of(source, n), f) ELSE Of(source, n)
      /\ \A source : Of(source, n) \in Seq(Samples)
  BY <1>1, <1>2, TraceStep
<1>4. Of("gyro", n)' = Of("gyro", n) /\ Of("accel", n)' = Append(Of("accel", n), f)
  BY <1>1, <1>3
<1>5. Len(Of("accel", n)) \in Nat /\ Len(Of("accel", n))' = Len(Of("accel", n)) + 1
  <2>. DEFINE s == Of("accel", n)
  <2>1. s \in Seq(Samples)
    BY <1>3
  <2>2. Len(s)' = Len(Append(s, f))
    BY <1>4
  <2>3. Len(Append(s, f)) = Len(s) + 1 /\ Len(s) \in Nat
    <3>. HIDE DEF s
    <3>. QED  BY <1>1, <2>1
  <2>. QED  BY <2>2, <2>3
<1>6. WindowsInv'
  <2>1. RingHolds(amp_window, Window, Of("gyro", n)) /\ RingHolds(peak_hold, Hold, Of("accel", n))
    BY DEF DetectorInv, WindowsInv
  <2>2. Of("accel", n) \in Seq(Samples) /\ Hold \in Nat \ {0}
    BY <1>3
  <2>3. RingHolds(Push(peak_hold, f.mag), Hold, Append(Of("accel", n), f))
    BY <1>1, <2>1, <2>2, PushHolds
  <2>. QED  BY <1>1, <1>4, <2>1, <2>3 DEF WindowsInv
<1>. QED  BY <1>1, <1>2, <1>3, <1>4, <1>5, <1>6

(* What the code computes from its rings is what the definition says of the  *)
(* trace.                                                                    *)
LEMMA ImpactIsSlap ==
    ASSUME DetectorInv, NEW f \in Frames("accel", Agrees), Listens(f)
    PROVE  /\ \A m : m = Len(trace) + 1 => (IsSlap(m)' <=> Impact(f, MaxOf(peak_hold')))
           /\ Gyro = Largest(Latest(Window, Of("gyro", Len(trace))))
           /\ MaxOf(peak_hold') \in Nat /\ Gyro \in Nat
<1>. USE DetectorAssumption
<1>. DEFINE n == Len(trace)
            A == Append(Of("accel", n), f)
            G == Of("gyro", n)
            peak == Largest(Latest(Hold, A))
            gyro == Largest(Latest(Window, G))
<1>1. /\ Of("accel", n)' = A /\ Of("gyro", n)' = G /\ n' = n + 1 /\ trace'[n + 1] = f
      /\ WindowsInv' /\ cfg' = cfg /\ amp_window' = amp_window /\ f \in Samples
      /\ trace' = Append(trace, f) /\ DetectorTypeOK
  BY ListensStep
<1>2. \A source : Of(source, n) \in Seq(Samples)
  BY <1>1, TraceStep
<1>3. A \in Seq(Samples) /\ G \in Seq(Samples) /\ A # <<>>
  <2>. DEFINE s == Of("accel", n)
  <2>1. s \in Seq(Samples)
    BY <1>2
  <2>. HIDE DEF s
  <2>2. Append(s, f) \in Seq(Samples) /\ Append(s, f) # <<>>
    BY <1>1, <2>1
  <2>. QED  BY <1>2, <2>2 DEF s
<1>. HIDE DEF A, G
<1>4. RingHolds(peak_hold', Hold, A) /\ RingHolds(amp_window, Window, G)
  BY <1>1 DEF WindowsInv
<1>5. peak = MaxOf(peak_hold') /\ peak \in Nat
  BY <1>3, <1>4, MagsAreNat, RingMax
<1>6. gyro = Gyro /\ gyro \in Nat
  BY <1>3, <1>4, MagsAreNat, RingMax DEF Gyro
<1>7. ASSUME NEW m, m = n + 1
      PROVE  IsSlap(m)' <=> Impact(f, peak)
  <2>1. Of("accel", m)' = A /\ Of("gyro", m)' = G /\ trace'[m] = f
    <3>1. Of("accel", m)' = Of("accel", n)' /\ Of("gyro", m)' = Of("gyro", n)'
      BY <1>1, <1>7
    <3>. QED  BY <1>1, <1>7, <3>1
  <2>2. PICK p : p = peak
    OBVIOUS
  <2>3. PICK g : g = gyro
    OBVIOUS
  <2>4. Largest(Latest(Hold, Of("accel", m)))' = p /\ Largest(Latest(Window, Of("gyro", m)))' = g
    BY <2>1, <2>2, <2>3
  <2>5. IsSlap(m)' = (Votes(f)' >= cfg'.min_votes /\ Tier(p)' # Nil /\ PassesGyro(p, g)')
    BY <2>1, <2>4, Zenon DEF IsSlap, PassesGyro
  <2>6. Votes(f)' = Votes(f) /\ Tier(p)' = Tier(p)
    BY <1>1 DEF Votes, OtherVotes, Tier
  <2>7. PassesGyro(p, g)' = PassesGyro(p, g)
    BY <1>1, Zenon DEF PassesGyro, Confirmed
  <2>8. g = Gyro
    BY <1>6, <2>3
  <2>9. Impact(f, p) = (Votes(f) >= cfg.min_votes /\ Tier(p) # Nil /\ PassesGyro(p, g))
    BY <2>8, Zenon DEF Impact
  <2>10. Impact(f, p) = IsSlap(m)'
    BY <1>1, <2>5, <2>6, <2>7, <2>9, Zenon
  <2>. QED  BY <2>2, <2>10, Zenon
<1>. QED  BY <1>5, <1>6, <1>7 DEF G

(* A sample that is not reported, and should not be.                         *)
LEMMA UnreportedStep ==
    ASSUME DetectorInv, NEW f \in Frames("accel", Agrees), Listens(f),
           hits' = hits, last_fire_t' = last_fire_t, warmup_remaining' \in 0..WarmupSamples,
           WarmupInv',
           \/ Len(Of("accel", Len(trace))) < WarmupSamples
           \/ Cooling(f)
           \/ ~Impact(f, MaxOf(peak_hold'))
    PROVE  DetectorInv'
<1>. USE DetectorAssumption
<1>. DEFINE n == Len(trace)
            seen == Len(Of("accel", n))
<1>1. /\ f \in Samples /\ f.source = "accel" /\ Arrives(f) /\ trace' = Append(trace, f)
      /\ DetectorTypeOK /\ trace' \in Seq(Samples) /\ f.t \in 1..MaxStamp /\ cfg' = cfg
      /\ n' = n + 1 /\ trace'[n + 1] = f /\ seen \in Nat /\ seen' = seen + 1 /\ WindowsInv'
  BY ListensStep
<1>2. DetectorTypeOK'
  BY <1>1 DEF DetectorTypeOK
<1>3. FireInv'
  <2>1. Times("accel") \subseteq Times("accel")'
    BY <1>1, TimesGrow
  <2>. QED  BY <2>1 DEF DetectorInv, FireInv
<1>4. ASSUME NEW m, m = n + 1
      PROVE  Reported(m)'
  <2>1. ~(\E h \in ToSet(hits') : h.t = trace'[m].t)
    <3>1. trace'[m] = f
      BY <1>1, <1>4
    <3>2. \A h \in ToSet(hits) : h.t # f.t
      BY <1>1, HitsBefore, SampleFacts
    <3>. QED  BY <3>1, <3>2
  <2>2. Len(Of("accel", m))' = seen + 1
    <3>1. Len(Of("accel", m))' = seen'
      BY <1>1, <1>4
    <3>. QED  BY <1>1, <3>1
  <2>3. CASE seen < WarmupSamples
    <3>1. ~(Len(Of("accel", m))' > WarmupSamples)
      BY <1>1, <2>2, <2>3
    <3>. QED  BY <2>1, <3>1, Zenon DEF Reported
  <2>4. CASE Cooling(f)
    <3>1. last_fire_t # Nil /\ f.t - last_fire_t < cfg.cooldown_s
      BY <2>4 DEF Cooling
    <3>2. PICK h \in ToSet(hits) : h.t = last_fire_t
      BY <3>1 DEF DetectorInv, FireInv
    <3>3. h.t < f.t /\ h.t \in Nat
      BY <1>1, HitsBefore
    <3>4. cfg.cooldown_s \in Nat
      BY <1>1 DEF DetectorTypeOK, Options
    <3>5. ~(f.t - h.t >= cfg.cooldown_s) /\ f.t \in Nat
      BY <1>1, <3>1, <3>2, <3>3, <3>4, SampleFacts
    <3>6. trace'[m] = f /\ cfg'.cooldown_s = cfg.cooldown_s
      BY <1>1, <1>4
    <3>7. ~(\A x \in ToSet(hits') : x.t < trace'[m].t => trace'[m].t - x.t >= cfg'.cooldown_s)
      BY <3>2, <3>3, <3>5, <3>6
    <3>. QED  BY <2>1, <3>7, Zenon DEF Reported
  <2>5. CASE ~Impact(f, MaxOf(peak_hold'))
    <3>1. ~IsSlap(m)'
      BY <1>4, <2>5, ImpactIsSlap
    <3>. QED  BY <2>1, <3>1, Zenon DEF Reported
  <2>. QED  BY <2>3, <2>4, <2>5
<1>5. ConfirmedInv' /\ HitsAreSlaps'
  BY <1>1, <1>4, FrameStep
<1>. QED  BY <1>1, <1>2, <1>3, <1>5 DEF DetectorInv

LEMMA WarmsUpStep ==
    ASSUME DetectorInv, NEW f \in Frames("accel", Agrees), WarmsUp(f)
    PROVE  DetectorInv'
<1>. DEFINE seen == Len(Of("accel", Len(trace)))
<1>1. /\ Listens(f) /\ hits' = hits /\ last_fire_t' = last_fire_t
      /\ warmup_remaining > 0 /\ warmup_remaining' = warmup_remaining - 1
  BY DEF WarmsUp, Warming
<1>2. seen \in Nat /\ seen' = seen + 1 /\ WarmupSamples \in Nat
  BY <1>1, ListensStep, DetectorAssumption
<1>3. warmup_remaining = IF seen < WarmupSamples THEN WarmupSamples - seen ELSE 0
  BY DEF DetectorInv, WarmupInv
<1>4. WarmupInv'
  <2>1. warmup_remaining' = IF seen' < WarmupSamples THEN WarmupSamples - seen' ELSE 0
    <3>. HIDE DEF seen
    <3>. QED  BY <1>1, <1>2, <1>3
  <2>. QED  BY <2>1 DEF WarmupInv
<1>5. seen < WarmupSamples /\ warmup_remaining' \in 0..WarmupSamples
  <2>. HIDE DEF seen
  <2>. QED  BY <1>1, <1>2, <1>3
<1>. QED  BY <1>1, <1>4, <1>5, UnreportedStep

LEMMA WarmIsSeen ==
    ASSUME DetectorInv, NEW f \in Frames("accel", Agrees), Listens(f), ~Warming,
           warmup_remaining' = warmup_remaining
    PROVE  /\ WarmupInv' /\ warmup_remaining' \in 0..WarmupSamples
           /\ Len(Of("accel", Len(trace))) >= WarmupSamples
<1>. DEFINE seen == Len(Of("accel", Len(trace)))
<1>1. seen \in Nat /\ seen' = seen + 1 /\ WarmupSamples \in Nat
  BY ListensStep, DetectorAssumption
<1>2. warmup_remaining = IF seen < WarmupSamples THEN WarmupSamples - seen ELSE 0
  BY DEF DetectorInv, WarmupInv
<1>3. warmup_remaining \in 0..WarmupSamples /\ ~(warmup_remaining > 0)
  BY DEF DetectorInv, DetectorTypeOK, Warming
<1>4. /\ warmup_remaining' = IF seen' < WarmupSamples THEN WarmupSamples - seen' ELSE 0
      /\ seen >= WarmupSamples
  <2>. HIDE DEF seen
  <2>. QED  BY <1>1, <1>2, <1>3
<1>5. WarmupInv'
  BY <1>4 DEF WarmupInv
<1>. QED  BY <1>3, <1>4, <1>5

LEMMA SilentStep ==
    ASSUME DetectorInv, NEW f \in Frames("accel", Agrees), Silent(f)
    PROVE  DetectorInv'
<1>1. /\ Listens(f) /\ ~Warming /\ hits' = hits /\ last_fire_t' = last_fire_t
      /\ warmup_remaining' = warmup_remaining
      /\ Cooling(f) \/ ~Impact(f, MaxOf(peak_hold'))
  BY DEF Silent
<1>2. WarmupInv' /\ warmup_remaining' \in 0..WarmupSamples
  BY <1>1, WarmIsSeen
<1>. QED  BY <1>1, <1>2, UnreportedStep

LEMMA FiresStep ==
    ASSUME DetectorInv, NEW f \in Frames("accel", Agrees), Fires(f)
    PROVE  DetectorInv'
<1>. USE DetectorAssumption
<1>. DEFINE n == Len(trace)
            seen == Len(Of("accel", n))
            peak == MaxOf(peak_hold')
            d == [t |-> f.t, tier |-> Tier(peak), peak_g |-> peak, gyro_peak |-> Gyro,
                  gyro_confirmed |-> cfg.gyro_mode # "off" /\ Confirmed(peak, Gyro)]
<1>1. /\ Listens(f) /\ ~Warming /\ ~Cooling(f) /\ Impact(f, peak)
      /\ hits' = Append(hits, d) /\ last_fire_t' = f.t /\ warmup_remaining' = warmup_remaining
  BY DEF Fires
<1>2. /\ f \in Samples /\ f.source = "accel" /\ Arrives(f) /\ trace' = Append(trace, f)
      /\ DetectorTypeOK /\ trace' \in Seq(Samples) /\ f.t \in 1..MaxStamp /\ cfg' = cfg
      /\ n' = n + 1 /\ trace'[n + 1] = f /\ seen \in Nat /\ seen' = seen + 1 /\ WindowsInv'
  BY <1>1, ListensStep
<1>3. WarmupInv' /\ warmup_remaining' \in 0..WarmupSamples /\ seen >= WarmupSamples
  BY <1>1, WarmIsSeen
<1>4. /\ \A m : m = n + 1 => (IsSlap(m)' <=> Impact(f, peak))
      /\ Gyro = Largest(Latest(Window, Of("gyro", n)))
      /\ peak \in Nat /\ Gyro \in Nat
  BY <1>1, ImpactIsSlap
<1>5. Tier(peak) \in {"micro", "medium", "major"} /\ PassesGyro(peak, Gyro)
  BY <1>1 DEF Impact, Tier
<1>. HIDE DEF seen, peak
<1>6. d \in Detections /\ d.t = f.t /\ d.peak_g = peak
  <2>. DEFINE tier == Tier(peak)
              gyro == Gyro
              sure == cfg.gyro_mode # "off" /\ Confirmed(peak, Gyro)
  <2>1. sure \in BOOLEAN /\ tier \in {"micro", "medium", "major"} /\ gyro \in Nat
    BY <1>4, <1>5
  <2>. HIDE DEF tier, gyro, sure
  <2>2. [t |-> f.t, tier |-> tier, peak_g |-> peak, gyro_peak |-> gyro, gyro_confirmed |-> sure]
            \in Detections
    BY <1>2, <1>4, <2>1 DEF Detections
  <2>. QED  BY <2>2 DEF tier, gyro, sure
<1>. HIDE DEF d
<1>7. hits \in Seq(Detections) /\ hits' \in Seq(Detections) /\ hits' # <<>>
  BY <1>1, <1>2, <1>6 DEF DetectorTypeOK
<1>8. ToSet(hits') = ToSet(hits) \cup {d}
  BY <1>1, <1>6, <1>7, AppendSet
<1>9. DetectorTypeOK'
  BY <1>2, <1>1, <1>3, <1>7 DEF DetectorTypeOK
<1>10. \A h \in ToSet(hits) : h.t < f.t /\ h.t \in Nat
  BY <1>2, HitsBefore
<1>11. f.t \in Nat /\ f.t # Nil
  BY <1>2, SampleFacts
<1>12. FireInv'
  <2>1. Times("accel") \subseteq Times("accel")' /\ f.t \in Times("accel")'
    BY <1>2, TimesGrow
  <2>2. \A h \in ToSet(hits') : h.t <= f.t /\ h.t \in Times("accel")'
    BY <1>6, <1>8, <1>10, <1>11, <2>1 DEF DetectorInv, FireInv
  <2>3. d \in ToSet(hits')
    BY <1>8
  <2>. QED  BY <1>1, <1>6, <1>7, <1>11, <2>2, <2>3 DEF FireInv
<1>13. ASSUME NEW m, m = n + 1
       PROVE  Reported(m)'
  <2>1. trace'[m] = f /\ cfg'.cooldown_s = cfg.cooldown_s /\ cfg.cooldown_s \in Nat
    BY <1>2, <1>13 DEF DetectorTypeOK, Options
  <2>2. \E h \in ToSet(hits') : h.t = trace'[m].t
    BY <1>6, <1>8, <2>1
  <2>3. Len(Of("accel", m))' > WarmupSamples
    <3>1. Len(Of("accel", m))' = seen'
      BY <1>2, <1>13 DEF seen
    <3>. QED  BY <1>2, <1>3, <3>1
  <2>4. \A h \in ToSet(hits') : h.t < trace'[m].t => trace'[m].t - h.t >= cfg'.cooldown_s
    <3>. SUFFICES ASSUME NEW h \in ToSet(hits'), h.t < f.t
                  PROVE  f.t - h.t >= cfg.cooldown_s
      BY <2>1
    <3>1. h \in ToSet(hits)
      BY <1>6, <1>8, <1>11
    <3>2. last_fire_t # Nil /\ h.t <= last_fire_t
      <4>1. hits # <<>>
        BY <3>1 DEF ToSet
      <4>. QED  BY <3>1, <4>1 DEF DetectorInv, FireInv
    <3>3. last_fire_t \in Nat
      <4>1. last_fire_t \in 1..MaxStamp
        BY <1>2, <3>2 DEF DetectorTypeOK
      <4>. QED  BY <4>1
    <3>4. ~(f.t - last_fire_t < cfg.cooldown_s)
      BY <1>1, <3>2 DEF Cooling
    <3>. QED  BY <1>10, <1>11, <2>1, <3>1, <3>2, <3>3, <3>4
  <2>5. IsSlap(m)'
    BY <1>1, <1>4, <1>13
  <2>. QED  BY <2>2, <2>3, <2>4, <2>5, Zenon DEF Reported
<1>14. ConfirmedInv' /\ HitsAreSlaps'
  <2>1. \A h \in ToSet(hits') \ ToSet(hits) : f.source = "accel" /\ h.t = f.t
    BY <1>2, <1>6, <1>8
  <2>2. \A h \in ToSet(hits') \ ToSet(hits) :
            PassesGyro(h.peak_g, Largest(Latest(Window, Of("gyro", n))))
    BY <1>4, <1>5, <1>6, <1>8
  <2>3. ToSet(hits) \subseteq ToSet(hits')
    BY <1>8
  <2>. QED  BY <1>2, <1>13, <2>1, <2>2, <2>3, FrameStep
<1>. QED  BY <1>2, <1>3, <1>9, <1>12, <1>14 DEF DetectorInv

-----------------------------------------------------------------------------
(* The two invariants.                                                     *)
LEMMA InitDetectorInv == DetectorInit => DetectorInv
BY NewInv DEF DetectorInit

LEMMA ReconfigureStep == ASSUME NEW c \in Settings, Reconfigure(c) PROVE DetectorInv'
<1>1. New(Effective(c))'
  BY DEF Reconfigure, New, Effective
<1>. QED  BY <1>1, NewInvNext

LEMMA StutterDetectorInv == ASSUME DetectorInv, UNCHANGED detectorVars PROVE DetectorInv'
BY DEF detectorVars, DetectorInv, DetectorTypeOK, WindowsInv, WarmupInv, FireInv, ConfirmedInv,
       HitsAreSlaps, Confirmed, IsSlap, Votes, OtherVotes, Tier, Of, Times

LEMMA NextDetectorInv == DetectorInv /\ [DetectorNext]_detectorVars => DetectorInv'
<1>. SUFFICES ASSUME DetectorInv, [DetectorNext]_detectorVars PROVE DetectorInv'
  OBVIOUS
<1>1. ASSUME NEW f \in Frames("gyro", {0}), PushGyro(f) PROVE DetectorInv'
  BY <1>1, GyroStep
<1>2. ASSUME NEW f \in Frames("accel", Agrees), WarmsUp(f) \/ Silent(f) \/ Fires(f)
      PROVE  DetectorInv'
  BY <1>2, WarmsUpStep, SilentStep, FiresStep
<1>3. ASSUME NEW c \in Settings, Reconfigure(c) PROVE DetectorInv'
  BY <1>3, ReconfigureStep
<1>4. CASE UNCHANGED detectorVars
  BY <1>4, StutterDetectorInv
<1>. QED  BY <1>1, <1>2, <1>3, <1>4 DEF DetectorNext

LEMMA DetectorInvHolds == DetectorSpec => []DetectorInv
BY InitDetectorInv, NextDetectorInv, PTL DEF DetectorSpec

(* The detector's state stays within its types: the warmup counts down and   *)
(* never below none, and what is reported has a severity (detector.rs:384).  *)
THEOREM DetectorTypeCorrect == DetectorSpec => []DetectorTypeOK
<1>1. DetectorInv => DetectorTypeOK
  BY DEF DetectorInv
<1>. QED  BY <1>1, DetectorInvHolds, PTL

(* Past the warmup, and outside of the cooldowns, exactly the samples that   *)
(* are slaps by the latest samples of both streams are reported, for windows *)
(* of any length: what the two rings hold after they wrapped around is what  *)
(* the definition says of the trace (detector.rs:384-426, filters.rs:118).   *)
THEOREM ReportsSlaps == DetectorSpec => []HitsAreSlaps
<1>1. DetectorInv => HitsAreSlaps
  BY DEF DetectorInv
<1>. QED  BY <1>1, DetectorInvHolds, PTL

(* A stream that takes steps of at most one is at most k steps old k samples *)
(* before its last.                                                          *)
LEMMA StepsBack ==
    ASSUME NEW S, NEW s \in Seq(S), s # <<>>, \A f \in S : f.t \in Nat,
           \A j \in 1..(Len(s) - 1) : s[j + 1].t <= s[j].t + 1
    PROVE  \A k \in 0..(Len(s) - 1) : s[Len(s) - k].t >= s[Len(s)].t - k
<1>. DEFINE L == Len(s)
            Good == {k \in 0..(L - 1) : s[L - k].t >= s[L].t - k}
<1>1. L \in Nat \ {0} /\ \A i \in 1..L : s[i].t \in Nat
  OBVIOUS
<1>. HIDE DEF L
<1>2. 0 \in Good
  <2>1. L - 0 = L /\ L \in 1..L /\ s[L].t >= s[L].t - 0 /\ 0 \in 0..(L - 1)
    BY <1>1
  <2>. QED  BY <2>1
<1>3. ASSUME NEW k \in 0..((L - 1) - 1), k \in Good
      PROVE  k + 1 \in Good
  <2>1. /\ L - (k + 1) \in 1..(L - 1) /\ (L - (k + 1)) + 1 = L - k
        /\ L - k \in 1..L /\ L - (k + 1) \in 1..L /\ L \in 1..L /\ k + 1 \in 0..(L - 1)
    BY <1>1
  <2>2. s[L - k].t <= s[L - (k + 1)].t + 1
    BY <2>1 DEF L
  <2>3. s[L - k].t >= s[L].t - k
    BY <1>3
  <2>4. s[L - (k + 1)].t >= s[L].t - (k + 1)
    <3>1. \A x, y, z \in Nat : x <= z + 1 /\ x >= y - k => z >= y - (k + 1)
      BY <1>1
    <3>2. s[L - k].t \in Nat /\ s[L].t \in Nat /\ s[L - (k + 1)].t \in Nat
      BY <1>1, <2>1
    <3>. QED  BY <2>2, <2>3, <3>1, <3>2
  <2>. QED  BY <2>1, <2>4
<1>4. 0..(L - 1) \subseteq Good
  <2>1. 0 \in Int /\ L - 1 \in Int
    BY <1>1
  <2>. HIDE DEF Good
  <2>. QED  BY <1>2, <1>3, <2>1, IntervalInduction
<1>. QED  BY <1>4 DEF L

(* The largest of the latest samples is one of theirs.                       *)
LEMMA LargestOfLatest ==
    ASSUME NEW S, NEW s \in Seq(S), s # <<>>, \A f \in S : f.mag \in Nat, NEW n \in Nat \ {0}
    PROVE  \E f \in ToSet(Latest(n, s)) : f.mag = Largest(Latest(n, s))
<1>. DEFINE late == ToSet(Latest(n, s))
            M == {f.mag : f \in late}
            v == Largest(Latest(n, s))
<1>1. late \subseteq ToSet(s) /\ \A k \in 0..(n - 1) : k < Len(s) => s[Len(s) - k] \in late
  BY LatestFacts
<1>2. /\ Len(s) > 0 /\ 0 \in 0..(n - 1) /\ s[Len(s) - 0] \in late
  <2>1. Len(s) > 0 /\ 0 \in 0..(n - 1)
    OBVIOUS
  <2>. QED  BY <1>1, <2>1
<1>3. \A f \in late : f.mag \in Nat
  <2>1. \A f \in ToSet(s) : f \in S
    BY DEF ToSet
  <2>. QED  BY <1>1, <2>1
<1>4. \E x \in {0} \cup M : \A f \in late : f.mag <= x
  <2>. DEFINE m == [k \in 1..Len(s) |-> IF s[k] \in late THEN s[k].mag ELSE 0]
              L == Len(s)
  <2>1. L \in Nat \ {0} /\ m \in [1..L -> Int]
    BY <1>2, <1>3
  <2>2. PICK k \in 1..L : \A j \in 1..L : m[j] <= m[k]
    <3>. HIDE DEF m, L
    <3>. QED  BY <2>1, LargestNumber
  <2>3. m[k] \in {0} \cup M
    OBVIOUS
  <2>4. ASSUME NEW f \in late
        PROVE  f.mag <= m[k]
    <3>1. f \in ToSet(s) /\ DOMAIN s = 1..L
      BY <1>1
    <3>2. PICK j \in 1..L : f = s[j]
      BY <3>1, Zenon DEF ToSet
    <3>3. m[j] = f.mag
      BY <3>2
    <3>. QED  BY <2>2, <3>2, <3>3
  <2>. QED  BY <2>3, <2>4
<1>5. v \in {0} \cup M /\ \A f \in late : f.mag <= v
  <2>. HIDE DEF M
  <2>1. (CHOOSE x \in {0} \cup M : \A f \in late : f.mag <= x) = v
    BY DEF Largest, M
  <2>. QED  BY <1>4, <2>1
<1>6. CASE v \in M
  <2>1. \A x \in M : \E f \in late : f.mag = x
    BY Zenon
  <2>. QED  BY <1>6, <2>1, Zenon
<1>. HIDE DEF v, late
<1>7. CASE v = 0
  <2>1. s[Len(s) - 0].mag <= 0 /\ s[Len(s) - 0].mag \in Nat
    BY <1>2, <1>3, <1>5, <1>7
  <2>2. s[Len(s) - 0].mag = 0
    BY <2>1
  <2>. QED  BY <1>2, <1>7, <2>2, Zenon DEF v, late
<1>. QED  BY <1>5, <1>6, <1>7 DEF v, late

LEMMA InvIsRecent == DetectorInv => RotationIsRecent
<1>. USE DetectorAssumption
<1>. SUFFICES ASSUME DetectorInv, NEW h \in ToSet(hits), NEW i \in DOMAIN trace,
                     cfg.gyro_mode = "require", trace[i].source = "accel", trace[i].t = h.t,
                     KeepsPace(i)
              PROVE  \E g \in ToSet(Of("gyro", i)) :
                        g.t >= h.t - Window /\ Confirmed(h.peak_g, g.mag)
  BY Zenon DEF RotationIsRecent
<1>. DEFINE s == Of("gyro", i)
            L == Len(s)
<1>1. trace \in Seq(Samples) /\ i \in 0..Len(trace) /\ trace[i] \in Samples
  BY DEF DetectorInv, DetectorTypeOK
<1>2. s \in Seq(Samples)
  BY <1>1, SelectedSteps, Zenon DEF Of
<1>3. s # <<>> /\ s[L].t >= trace[i].t - 1 /\ \A j \in 1..(L - 1) : s[j + 1].t <= s[j].t + 1
  BY Zenon DEF KeepsPace
<1>4. Confirmed(h.peak_g, Largest(Latest(Window, s)))
  BY Zenon DEF DetectorInv, ConfirmedInv
<1>. HIDE DEF s
<1>5. PICK g \in ToSet(Latest(Window, s)) : g.mag = Largest(Latest(Window, s))
  BY <1>2, <1>3, MagsAreNat, LargestOfLatest
<1>6. PICK k \in 0..(Window - 1) : k < L /\ g = s[L - k]
  BY <1>2, LatestFacts
<1>7. g \in ToSet(s)
  BY <1>2, LatestFacts
<1>8. g.t >= s[L].t - k
  <2>1. \A k1 \in 0..(L - 1) : s[L - k1].t >= s[L].t - k1
    BY <1>2, <1>3, SampleFacts, StepsBack
  <2>2. k \in 0..(L - 1)
    BY <1>2, <1>6
  <2>. QED  BY <1>6, <2>1, <2>2
<1>9. g.t \in Nat /\ s[L].t \in Nat /\ trace[i].t \in Nat
  <2>1. L \in 1..L
    BY <1>2, <1>3
  <2>2. g \in Samples /\ s[L] \in Samples
    BY <1>2, <1>7, <2>1 DEF ToSet
  <2>. QED  BY <1>1, <2>2, SampleFacts
<1>10. g.t >= h.t - Window
  BY <1>3, <1>6, <1>8, <1>9
<1>. QED  BY <1>4, <1>5, <1>7, <1>10, Zenon DEF s

(* As long as the gyroscope keeps pace, the rotation that confirmed a        *)
(* detection is no older than the window, whatever the window's length: the  *)
(* window is counted in samples, and its ring forgets the oldest one         *)
(* (detector.rs:415, filters.rs:118).                                        *)
THEOREM RotationStaysRecent == DetectorSpec => []RotationIsRecent
BY InvIsRecent, DetectorInvHolds, PTL

-----------------------------------------------------------------------------
(* The merge takes both streams in full, each in its order.                  *)
TakenStep(a, g, k) ==
    Taken(a, g)[k] =
        IF TakesAccel(a, g, Taken(a, g)[k - 1] + 1, k - Taken(a, g)[k - 1])
        THEN Taken(a, g)[k - 1] + 1 ELSE Taken(a, g)[k - 1]

LEMMA TakenSteps ==
    ASSUME NEW a, NEW g, Len(a) \in Nat, Len(g) \in Nat
    PROVE  /\ Taken(a, g)[0] = 0
           /\ \A k \in 1..(Len(a) + Len(g)) : TakenStep(a, g, k)
<1>. DEFINE N == Len(a) + Len(g)
            Next1(k, i) == IF TakesAccel(a, g, i + 1, k - i) THEN i + 1 ELSE i
            of == CHOOSE f : f = [k \in 0..N |-> IF k = 0 THEN 0 ELSE Next1(k, f[k - 1])]
<1>1. N \in Nat /\ 0 <= N
  OBVIOUS
<1>2. Taken(a, g) = of
  BY DEF Taken
<1>3. \A k \in 0..N, i \in Int : Next1(k, i) \in Int
  OBVIOUS
<1>. HIDE DEF N, Next1
<1>4. of = [k \in 0..N |-> IF k = 0 THEN 0 ELSE Next1(k, of[k - 1])]
  <2>. DEFINE F == [p \in (0..N) \X Int |-> IF p[1] = 0 THEN 0 ELSE Next1(p[1], p[2])]
  <2>1. \A k \in 0..N, i \in Int : F[<<k, i>>] = IF k = 0 THEN 0 ELSE Next1(k, i)
    OBVIOUS
  <2>2. F \in [(0..N) \X Int -> Int]
    BY <1>3
  <2>. HIDE DEF F
  <2>3. 0 \in Int /\ N \in Int /\ 0 <= N
    BY <1>1
  <2>4. PICK f \in [0..N -> Int] : Recursive(f, 0, N, 0, F)
    BY <2>2, <2>3, RecursiveFunction, Zenon
  <2>5. ASSUME NEW k \in 0..N
        PROVE  f[k] = IF k = 0 THEN 0 ELSE Next1(k, f[k - 1])
    <3>1. CASE k = 0
      BY <2>4, <3>1 DEF Recursive
    <3>2. CASE k # 0
      <4>1. k - 1 \in 0..N
        BY <1>1, <3>2
      <4>2. F[<<k, f[k - 1]>>] = Next1(k, f[k - 1])
        BY <2>1, <3>2, <4>1
      <4>. QED  BY <2>4, <3>2, <4>2 DEF Recursive
    <3>. QED  BY <3>1, <3>2
  <2>6. f = [k \in 0..N |-> IF k = 0 THEN 0 ELSE Next1(k, f[k - 1])]
    BY <2>5, Zenon
  <2>. QED  BY <2>6, Zenon
<1>. HIDE DEF of
<1>5. of[0] = 0
  <2>1. 0 \in 0..N
    BY <1>1
  <2>. QED  BY <1>4, <2>1
<1>6. ASSUME NEW k \in 1..N
      PROVE  of[k] = Next1(k, of[k - 1])
  <2>1. k \in 0..N /\ k # 0
    BY <1>1
  <2>2. of[k] = IF k = 0 THEN 0 ELSE Next1(k, of[k - 1])
    BY <1>4, <2>1, Zenon
  <2>. QED  BY <2>1, <2>2
<1>7. \A k \in 1..N : TakenStep(a, g, k)
  BY <1>2, <1>6, Zenon DEF TakenStep, Next1
<1>. QED  BY <1>2, <1>5, <1>7, Zenon DEF N

LEMMA TakenBounds ==
    ASSUME NEW a, NEW g, Len(a) \in Nat, Len(g) \in Nat
    PROVE  /\ \A k \in 0..(Len(a) + Len(g)) :
                Taken(a, g)[k] \in 0..Len(a) /\ k - Taken(a, g)[k] \in 0..Len(g)
           /\ Taken(a, g)[Len(a) + Len(g)] = Len(a)
<1>. DEFINE N == Len(a) + Len(g)
            t == Taken(a, g)
            Good == {k \in 0..N : t[k] \in 0..Len(a) /\ k - t[k] \in 0..Len(g)}
<1>1. t[0] = 0 /\ \A k \in 1..N : TakenStep(a, g, k)
  BY TakenSteps
<1>2. 0 \in Good
  BY <1>1
<1>3. ASSUME NEW k \in 0..(N - 1), k \in Good
      PROVE  k + 1 \in Good
  <2>1. k + 1 \in 1..N /\ (k + 1) - 1 = k /\ k + 1 \in 0..N
    OBVIOUS
  <2>2. t[k + 1] = IF TakesAccel(a, g, t[k] + 1, (k + 1) - t[k]) THEN t[k] + 1 ELSE t[k]
    BY <1>1, <2>1 DEF TakenStep
  <2>3. t[k] \in 0..Len(a) /\ k - t[k] \in 0..Len(g)
    BY <1>3
  <2>. HIDE DEF t
  <2>4. CASE TakesAccel(a, g, t[k] + 1, (k + 1) - t[k])
    <3>1. t[k + 1] = t[k] + 1 /\ t[k] + 1 <= Len(a)
      BY <2>2, <2>4 DEF TakesAccel
    <3>. QED  BY <2>1, <2>3, <3>1
  <2>5. CASE ~TakesAccel(a, g, t[k] + 1, (k + 1) - t[k])
    <3>1. t[k + 1] = t[k]
      BY <2>2, <2>5
    <3>2. ~(t[k] + 1 <= Len(a)) \/ ~((k + 1) - t[k] > Len(g))
      BY <2>5 DEF TakesAccel
    <3>. QED  BY <2>1, <2>3, <3>1, <3>2
  <2>. QED  BY <2>4, <2>5
<1>4. 0..N \subseteq Good
  <2>1. 0 \in Int /\ N \in Int
    OBVIOUS
  <2>. HIDE DEF Good
  <2>. QED  BY <1>2, <1>3, <2>1, IntervalInduction
<1>5. \A k \in 0..N : t[k] \in 0..Len(a) /\ k - t[k] \in 0..Len(g)
  BY <1>4
<1>6. t[N] = Len(a)
  <2>1. N \in 0..N
    OBVIOUS
  <2>. QED  BY <1>5, <2>1
<1>. QED  BY <1>5, <1>6 DEF t

(* Line n of the merge is the next one of its stream.                        *)
LEMMA MergeFacts ==
    ASSUME NEW S, NEW a \in Seq(S), NEW g \in Seq(S)
    PROVE  /\ Len(Merge(a, g)) = Len(a) + Len(g)
           /\ DOMAIN Merge(a, g) = 1..(Len(a) + Len(g))
           /\ \A n \in 1..(Len(a) + Len(g)) :
                \/ /\ TakesAccel(a, g, Taken(a, g)[n - 1] + 1, n - Taken(a, g)[n - 1])
                   /\ Taken(a, g)[n] = Taken(a, g)[n - 1] + 1
                   /\ Taken(a, g)[n] \in 1..Len(a)
                   /\ Merge(a, g)[n] = <<"a", a[Taken(a, g)[n]]>>
                \/ /\ ~TakesAccel(a, g, Taken(a, g)[n - 1] + 1, n - Taken(a, g)[n - 1])
                   /\ Taken(a, g)[n] = Taken(a, g)[n - 1]
                   /\ n - Taken(a, g)[n] \in 1..Len(g)
                   /\ Merge(a, g)[n] = <<"g", g[n - Taken(a, g)[n]]>>
<1>. DEFINE N == Len(a) + Len(g)
            t == Taken(a, g)
            M == Merge(a, g)
<1>1. Len(a) \in Nat /\ Len(g) \in Nat /\ N \in Nat
  OBVIOUS
<1>2. M = [n \in 1..N |-> IF TakesAccel(a, g, t[n - 1] + 1, n - t[n - 1])
                          THEN <<"a", a[t[n - 1] + 1]>> ELSE <<"g", g[n - t[n - 1]]>>]
  BY DEF Merge
<1>3. \A k \in 1..N : TakenStep(a, g, k)
  BY <1>1, TakenSteps
<1>4. \A k \in 0..N : t[k] \in 0..Len(a) /\ k - t[k] \in 0..Len(g)
  BY <1>1, TakenBounds
<1>. HIDE DEF M
<1>5. DOMAIN M = 1..N /\ Len(M) = N
  BY <1>1, <1>2
<1>6. ASSUME NEW n \in 1..N
      PROVE  \/ /\ TakesAccel(a, g, t[n - 1] + 1, n - t[n - 1])
                /\ t[n] = t[n - 1] + 1 /\ t[n] \in 1..Len(a) /\ M[n] = <<"a", a[t[n]]>>
             \/ /\ ~TakesAccel(a, g, t[n - 1] + 1, n - t[n - 1])
                /\ t[n] = t[n - 1] /\ n - t[n] \in 1..Len(g) /\ M[n] = <<"g", g[n - t[n]]>>
  <2>1. n \in 0..N /\ n - 1 \in 0..N
    BY <1>1
  <2>2. t[n] = IF TakesAccel(a, g, t[n - 1] + 1, n - t[n - 1]) THEN t[n - 1] + 1 ELSE t[n - 1]
    BY <1>3 DEF TakenStep
  <2>3. M[n] = IF TakesAccel(a, g, t[n - 1] + 1, n - t[n - 1])
               THEN <<"a", a[t[n - 1] + 1]>> ELSE <<"g", g[n - t[n - 1]]>>
    BY <1>2, Zenon
  <2>4. /\ t[n] \in 0..Len(a) /\ n - t[n] \in 0..Len(g)
        /\ t[n - 1] \in 0..Len(a) /\ (n - 1) - t[n - 1] \in 0..Len(g)
    BY <1>4, <2>1
  <2>. HIDE DEF t
  <2>5. CASE TakesAccel(a, g, t[n - 1] + 1, n - t[n - 1])
    <3>1. t[n] = t[n - 1] + 1 /\ M[n] = <<"a", a[t[n - 1] + 1]>>
      BY <2>2, <2>3, <2>5, Zenon
    <3>2. t[n] \in 1..Len(a)
      BY <1>1, <2>4, <3>1
    <3>. QED  BY <2>5, <3>1, <3>2
  <2>6. CASE ~TakesAccel(a, g, t[n - 1] + 1, n - t[n - 1])
    <3>1. t[n] = t[n - 1] /\ M[n] = <<"g", g[n - t[n - 1]]>>
      BY <2>2, <2>3, <2>6, Zenon
    <3>2. n - t[n] \in 1..Len(g)
      BY <1>1, <2>4, <3>1
    <3>. QED  BY <2>6, <3>1, <3>2
  <2>. QED  BY <2>5, <2>6
<1>. QED  BY <1>5, <1>6, Zenon DEF t, M

-----------------------------------------------------------------------------
(* A set as a sequence has each element once.                                *)
LEMMA SetToSeqFacts ==
    ASSUME NEW S, IsFiniteSet(S)
    PROVE  /\ Cardinality(S) \in Nat
           /\ SetToSeq(S) \in [1..Cardinality(S) -> S]
           /\ \A x \in S : \E i \in 1..Cardinality(S) : SetToSeq(S)[i] = x
<1>. DEFINE n == Cardinality(S)
            I == 1..n
<1>1. n \in Nat
  BY FS_CardinalityType
<1>2. IsFiniteSet(I) /\ Cardinality(I) = n
  <2>1. 1 \in Int /\ n \in Int /\ (IF 1 > n THEN 0 ELSE n - 1 + 1) = n
    BY <1>1
  <2>. HIDE DEF n
  <2>2. IsFiniteSet(1..n) /\ Cardinality(1..n) = IF 1 > n THEN 0 ELSE n - 1 + 1
    BY <2>1, FS_Interval, Zenon
  <2>. QED  BY <2>1, <2>2
<1>. HIDE DEF I
<1>3. ExistsBijection(I, S)
  BY <1>2, FS_SameCardinalityBij, Zenon
<1>4. \E f \in [I -> S] : IsInjective(f)
  <2>1. PICK f : f \in Bijection(I, S)
    BY <1>3 DEF ExistsBijection
  <2>. QED  BY <2>1 DEF Bijection, Injection, IsInjective
<1>5. SetToSeq(S) \in [I -> S] /\ IsInjective(SetToSeq(S))
  BY <1>4 DEF SetToSeq, I
<1>6. SetToSeq(S) \in Injection(I, S)
  BY <1>5 DEF Injection, IsInjective
<1>7. SetToSeq(S) \in Surjection(I, S)
  BY <1>2, <1>6, FS_Injection, Zenon
<1>8. \A x \in S : \E i \in I : SetToSeq(S)[i] = x
  BY <1>7 DEF Surjection
<1>. QED  BY <1>1, <1>5, <1>8 DEF I

-----------------------------------------------------------------------------
(* What a line does to what was read before it.                              *)
First(s, k) == [i \in 1..k |-> s[i]]
Partial(label, expect, meta, a, i, g, j) ==
    [label |-> label, expect |-> expect, meta |-> meta,
     accel |-> First(a, i), gyro |-> First(g, j)]

LEMMA FirstGrows == ASSUME NEW s, NEW k \in Nat PROVE Append(First(s, k), s[k + 1]) = First(s, k + 1)
<1>. DEFINE S == {s[i] : i \in 1..(k + 1)}
            u == First(s, k)
            v == First(s, k + 1)
<1>1. u \in Seq(S) /\ Len(u) = k /\ s[k + 1] \in S /\ \A i \in 1..k : u[i] = s[i]
  <2>1. u \in [1..k -> S]
    BY DEF First
  <2>2. k + 1 \in 1..(k + 1)
    OBVIOUS
  <2>3. s[k + 1] \in S
    BY <2>2
  <2>4. \A i \in 1..k : u[i] = s[i]
    BY DEF First
  <2>. HIDE DEF u, S
  <2>. QED  BY <2>1, <2>3, <2>4
<1>2. v \in Seq(S) /\ Len(v) = k + 1 /\ \A i \in 1..(k + 1) : v[i] = s[i]
  <2>1. v \in [1..(k + 1) -> S]
    BY DEF First
  <2>2. \A i \in 1..(k + 1) : v[i] = s[i]
    BY DEF First
  <2>. HIDE DEF v, S
  <2>. QED  BY <2>1, <2>2
<1>. HIDE DEF u, v, S
<1>3. /\ Append(u, s[k + 1]) \in Seq(S) /\ Len(Append(u, s[k + 1])) = k + 1
      /\ \A i \in 1..(k + 1) : Append(u, s[k + 1])[i] = s[i]
  BY <1>1
<1>4. Append(u, s[k + 1]) = v
  <2>. DEFINE w == Append(u, s[k + 1])
  <2>1. Len(w) = Len(v) /\ \A i \in 1..Len(w) : w[i] = v[i]
    BY <1>2, <1>3
  <2>. HIDE DEF w
  <2>. QED  BY <1>2, <1>3, <2>1, SeqEqual DEF w
<1>. QED  BY <1>4 DEF u, v

LEMMA PartialIsFine ==
    \A label, expect, meta, a, i, g, j : Partial(label, expect, meta, a, i, g, j) # Bad
<1>1. \A label, expect, meta, a, i, g, j : "meta" \in DOMAIN Partial(label, expect, meta, a, i, g, j)
  BY DEF Partial
<1>2. "meta" \notin DOMAIN Bad
  BY DEF Bad
<1>. QED  BY <1>1, <1>2, Zenon

LEMMA ParsedLabel ==
    ASSUME NEW old, NEW expect, NEW meta, NEW a, NEW i, NEW g, NEW j, NEW label
    PROVE  Parsed(Partial(old, expect, meta, a, i, g, j), <<"#", "label", label>>) =
                Partial(label, expect, meta, a, i, g, j)
<1>. DEFINE line == <<"#", "label", label>>
            fx == Partial(old, expect, meta, a, i, g, j)
<1>1. line # Header /\ line[1] = "#" /\ line[2] = "label" /\ line[3] = label
  BY DEF Header
<1>2. fx # Bad
  BY PartialIsFine, Zenon
<1>3. [fx EXCEPT !.label = label] = Partial(label, expect, meta, a, i, g, j)
  BY DEF Partial
<1>. HIDE DEF line, fx
<1>4. Parsed(fx, line) = [fx EXCEPT !.label = label]
  BY <1>1, <1>2 DEF Parsed
<1>. QED  BY <1>3, <1>4 DEF line, fx

LEMMA ParsedExpect ==
    ASSUME NEW label, NEW meta, NEW a, NEW i, NEW g, NEW j, NEW x
    PROVE  Parsed(Partial(label, Nil, meta, a, i, g, j), <<"#", "expect", x>>) =
                Partial(label, x, meta, a, i, g, j)
<1>. DEFINE line == <<"#", "expect", x>>
            fx == Partial(label, Nil, meta, a, i, g, j)
<1>1. line # Header /\ line[1] = "#" /\ line[2] = "expect" /\ line[3] = x
  BY DEF Header
<1>2. fx # Bad
  BY PartialIsFine, Zenon
<1>3. [fx EXCEPT !.expect = x] = Partial(label, x, meta, a, i, g, j)
  BY DEF Partial
<1>. HIDE DEF line, fx
<1>4. Parsed(fx, line) = [fx EXCEPT !.expect = x]
  BY <1>1, <1>2 DEF Parsed
<1>. QED  BY <1>3, <1>4 DEF line, fx

Notes(line, key, value, meta, new) ==
    line = <<"#", key, value>> /\ key \notin {"label", "expect"} /\ new = meta \cup {<<key, value>>}

Reads(before, line, after) == Parsed(before, line) = after

LEMMA ParsedMeta ==
    ASSUME NEW label, NEW expect, NEW meta, NEW a, NEW i, NEW g, NEW j, NEW key, NEW value,
           NEW line, NEW new, Notes(line, key, value, meta, new)
    PROVE  Reads(Partial(label, expect, meta, a, i, g, j), line, Partial(label, expect, new, a, i, g, j))
<1>. DEFINE fx == Partial(label, expect, meta, a, i, g, j)
<1>1. line # Header /\ line[1] = "#" /\ line[2] = key /\ line[3] = value /\ key \notin {"label", "expect"}
  BY DEF Header, Notes
<1>2. fx # Bad
  BY PartialIsFine, Zenon
<1>3. [fx EXCEPT !.meta = new] = Partial(label, expect, new, a, i, g, j) /\ fx.meta = meta
  BY DEF Partial
<1>. HIDE DEF fx
<1>4. Parsed(fx, line) = [fx EXCEPT !.meta = fx.meta \cup {<<line[2], line[3]>>}]
  BY <1>1, <1>2 DEF Parsed
<1>5. Parsed(fx, line) = [fx EXCEPT !.meta = new]
  BY <1>1, <1>3, <1>4 DEF Notes
<1>. QED  BY <1>3, <1>5 DEF fx, Reads

LEMMA ParsedHeader ==
    ASSUME NEW label, NEW expect, NEW meta, NEW a, NEW i, NEW g, NEW j
    PROVE  Parsed(Partial(label, expect, meta, a, i, g, j), Header) = Partial(label, expect, meta, a, i, g, j)
<1>. DEFINE fx == Partial(label, expect, meta, a, i, g, j)
<1>1. Header[1] # "#" /\ Header[1] # "a" /\ Header[1] # "g"
  BY DEF Header
<1>2. fx # Bad
  BY PartialIsFine, Zenon
<1>. HIDE DEF fx
<1>3. Parsed(fx, Header) = fx
  BY <1>1, <1>2 DEF Parsed
<1>. QED  BY <1>3 DEF fx

LEMMA ParsedAccel ==
    ASSUME NEW label, NEW expect, NEW meta, NEW a, NEW i \in Nat, NEW g, NEW j
    PROVE  Parsed(Partial(label, expect, meta, a, i, g, j), <<"a", a[i + 1]>>) =
                Partial(label, expect, meta, a, i + 1, g, j)
<1>. DEFINE line == <<"a", a[i + 1]>>
            fx == Partial(label, expect, meta, a, i, g, j)
            new == First(a, i + 1)
<1>1. line # Header /\ line[1] = "a" /\ line[2] = a[i + 1]
  BY DEF Header
<1>2. fx # Bad
  BY PartialIsFine, Zenon
<1>3. [fx EXCEPT !.accel = new] = Partial(label, expect, meta, a, i + 1, g, j) /\ fx.accel = First(a, i)
  <2>. HIDE DEF new
  <2>1. [fx EXCEPT !.accel = new] =
            [label |-> label, expect |-> expect, meta |-> meta,
             accel |-> new, gyro |-> First(g, j)]
    BY DEF Partial
  <2>2. fx.accel = First(a, i)
    BY DEF Partial
  <2>. QED  BY <2>1, <2>2 DEF Partial, new
<1>. HIDE DEF line, fx, new
<1>4. Parsed(fx, line) = [fx EXCEPT !.accel = Append(fx.accel, line[2])]
  BY <1>1, <1>2 DEF Parsed
<1>5. Parsed(fx, line) = [fx EXCEPT !.accel = new]
  BY <1>1, <1>3, <1>4, FirstGrows DEF new
<1>. QED  BY <1>3, <1>5 DEF line, fx

LEMMA ParsedGyro ==
    ASSUME NEW label, NEW expect, NEW meta, NEW a, NEW i, NEW g, NEW j \in Nat
    PROVE  Parsed(Partial(label, expect, meta, a, i, g, j), <<"g", g[j + 1]>>) =
                Partial(label, expect, meta, a, i, g, j + 1)
<1>. DEFINE line == <<"g", g[j + 1]>>
            fx == Partial(label, expect, meta, a, i, g, j)
            new == First(g, j + 1)
<1>1. line # Header /\ line[1] = "g" /\ line[2] = g[j + 1]
  BY DEF Header
<1>2. fx # Bad
  BY PartialIsFine, Zenon
<1>3. [fx EXCEPT !.gyro = new] = Partial(label, expect, meta, a, i, g, j + 1) /\ fx.gyro = First(g, j)
  <2>. HIDE DEF new
  <2>1. [fx EXCEPT !.gyro = new] =
            [label |-> label, expect |-> expect, meta |-> meta,
             accel |-> First(a, i), gyro |-> new]
    BY DEF Partial
  <2>2. fx.gyro = First(g, j)
    BY DEF Partial
  <2>. QED  BY <2>1, <2>2 DEF Partial, new
<1>. HIDE DEF line, fx, new
<1>4. Parsed(fx, line) = [fx EXCEPT !.gyro = Append(fx.gyro, line[2])]
  BY <1>1, <1>2 DEF Parsed
<1>5. Parsed(fx, line) = [fx EXCEPT !.gyro = new]
  BY <1>1, <1>3, <1>4, FirstGrows DEF new
<1>. QED  BY <1>3, <1>5 DEF line, fx

-----------------------------------------------------------------------------
(* A text of the shape that to_text writes is read line by line.             *)
MetaOf(q, m) == {<<q[i][2], q[i][3]>> : i \in 1..m}

IsText(text, label, expect, e, q, m, a, g, t, N) ==
    /\ Len(text) = e + m + N + 3
    /\ text[1] = Magic
    /\ text[2] = <<"#", "label", label>>
    /\ e = 0 => expect = Nil
    /\ e = 1 => text[3] = <<"#", "expect", expect>>
    /\ \A i \in 1..m :
        /\ text[2 + e + i] = <<"#", q[i][2], q[i][3]>>
        /\ q[i][2] \notin {"label", "expect"}
    /\ text[3 + e + m] = Header
    /\ t[0] = 0 /\ \A i \in 0..N : t[i] \in Nat /\ i - t[i] \in Nat
    /\ \A i \in 1..N :
        \/ t[i] = t[i - 1] + 1 /\ text[3 + e + m + i] = <<"a", a[t[i]]>>
        \/ t[i] = t[i - 1] /\ text[3 + e + m + i] = <<"g", g[i - t[i]]>>

LEMMA ReadsText ==
    ASSUME NEW text, NEW label, NEW expect, NEW e \in 0..1, NEW q, NEW m \in Nat, NEW a, NEW g, NEW t,
           NEW N \in Nat, IsText(text, label, expect, e, q, m, a, g, t, N)
    PROVE  FromText(text) = Partial(label, expect, MetaOf(q, m), a, t[N], g, N - t[N])
<1>0. PICK none : none = ""
  OBVIOUS
<1>. DEFINE L == e + m + N + 3
            h == 3 + e + m
            Tag(n) == IF n = 1 THEN none ELSE label
            Data(n) == IF n <= h THEN 0 ELSE n - h
            Note(n) == IF n <= 2 THEN Nil ELSE expect
            Meta(n) == {<<q[i][2], q[i][3]>> : i \in {j \in 1..m : j + e + 2 <= n}}
            W(n) == Partial(Tag(n), Note(n), Meta(n), a, t[Data(n)], g, Data(n) - t[Data(n)])
            Read(f, n) == IF n = 1 THEN Blank ELSE Parsed(f[n - 1], text[n])
            read == CHOOSE f : f = [n \in 1..Len(text) |-> Read(f, n)]
            w == [n \in 1..L |-> W(n)]
<1>1. L \in Nat /\ 3 <= L /\ 1 \in 1..L /\ L \in 1..L /\ Len(text) = L
  BY DEF IsText
<1>2. t[0] = 0 /\ \A i \in 0..N : t[i] \in Nat /\ i - t[i] \in Nat
  BY DEF IsText
<1>3. FromText(text) = read[L]
  <2>1. text # <<>>
    BY <1>1
  <2>2. text[1] \in {Magic, Legacy}
    BY DEF IsText
  <2>. QED  BY <1>1, <2>1, <2>2, Zenon DEF FromText
<1>4. W(1) = Blank
  <2>1. First(a, 0) = <<>> /\ First(g, 0) = <<>>
    BY DEF First
  <2>2. Data(1) = 0 /\ Tag(1) = none /\ Note(1) = Nil /\ Meta(1) = {} /\ t[Data(1)] = 0 /\ Data(1) - t[Data(1)] = 0
    BY <1>2
  <2>. QED  BY <1>0, <2>1, <2>2, Zenon DEF Partial, Blank
<1>5. ASSUME NEW n \in 2..L
      PROVE  W(n) = Parsed(W(n - 1), text[n])
  <2>0. CASE n = 2
    <3>1. /\ Data(n) = 0 /\ Data(n - 1) = 0 /\ Note(n) = Nil /\ Note(n - 1) = Nil
          /\ Tag(n) = label /\ Tag(n - 1) = none /\ Meta(n) = Meta(n - 1)
      BY <2>0
    <3>2. text[n] = <<"#", "label", label>>
      BY <2>0 DEF IsText
    <3>. DEFINE M == Meta(n - 1)
                i == t[0]
                j == 0 - t[0]
    <3>. HIDE DEF Data, Tag, Note, Meta, M, i, j
    <3>3. W(n - 1) = Partial(none, Nil, M, a, i, g, j) /\ W(n) = Partial(label, Nil, M, a, i, g, j)
      BY <3>1, Zenon DEF M, i, j
    <3>4. Parsed(Partial(none, Nil, M, a, i, g, j), <<"#", "label", label>>) =
                Partial(label, Nil, M, a, i, g, j)
      BY ParsedLabel
    <3>. QED  BY <3>2, <3>3, <3>4
  <2>5. ASSUME n # 2
        PROVE  Tag(n) = label /\ Tag(n - 1) = label
    BY <2>5
  <2>1. CASE 2 < n /\ n <= 2 + e
    <3>1. e = 1 /\ n = 3 /\ n - 1 = 2
      BY <2>1
    <3>2. /\ Data(n) = 0 /\ Data(n - 1) = 0 /\ Note(n) = expect /\ Note(n - 1) = Nil
          /\ Meta(n) = Meta(n - 1) /\ Tag(n) = label /\ Tag(n - 1) = label
      BY <3>1
    <3>3. text[n] = <<"#", "expect", expect>>
      BY <3>1 DEF IsText
    <3>. DEFINE M == Meta(n - 1)
                i == t[0]
                j == 0 - t[0]
    <3>. HIDE DEF Data, Tag, Note, Meta, M, i, j
    <3>4. W(n - 1) = Partial(label, Nil, M, a, i, g, j) /\ W(n) = Partial(label, expect, M, a, i, g, j)
      BY <3>2, Zenon DEF M, i, j
    <3>5. Parsed(Partial(label, Nil, M, a, i, g, j), <<"#", "expect", expect>>) =
                Partial(label, expect, M, a, i, g, j)
      BY ParsedExpect
    <3>. QED  BY <3>3, <3>4, <3>5
  <2>2. CASE 2 + e < n /\ n <= 2 + e + m
    <3>. DEFINE i == n - 2 - e
    <3>1. i \in 1..m /\ 2 + e + i = n
      BY <2>2
    <3>2. text[n] = <<"#", q[i][2], q[i][3]>> /\ q[i][2] \notin {"label", "expect"}
      BY <3>1 DEF IsText
    <3>3. Data(n) = 0 /\ Data(n - 1) = 0
      BY <2>2
    <3>4. Note(n) = expect /\ Note(n - 1) = expect /\ Tag(n) = label /\ Tag(n - 1) = label
      <4>1. n > 2 /\ (n - 1 <= 2 => e = 0)
        BY <2>2
      <4>2. e = 0 => expect = Nil
        BY DEF IsText
      <4>. QED  BY <2>5, <4>1, <4>2
    <3>5. Meta(n) = Meta(n - 1) \cup {<<q[i][2], q[i][3]>>}
      <4>1. {j \in 1..m : j + e + 2 <= n} = {j \in 1..m : j + e + 2 <= n - 1} \cup {i}
        BY <3>1
      <4>. HIDE DEF i
      <4>. QED  BY <4>1, Zenon
    <3>. DEFINE M == Meta(n - 1)
                key == q[i][2]
                val == q[i][3]
                more == M \cup {<<key, val>>}
                x == t[0]
                y == 0 - t[0]
    <3>. HIDE DEF Data, Tag, Note, Meta
    <3>6. W(n - 1) = Partial(label, expect, M, a, x, g, y)
      BY <3>3, <3>4, Zenon
    <3>7. W(n) = Partial(label, expect, more, a, x, g, y)
      BY <3>3, <3>4, <3>5, Zenon
    <3>8. key \notin {"label", "expect"} /\ text[n] = <<"#", key, val>>
      BY <3>2
    <3>9. Notes(text[n], key, val, M, more)
      BY <3>8, Zenon DEF Notes
    <3>. HIDE DEF W, M, key, val, x, y, more
    <3>10. Reads(Partial(label, expect, M, a, x, g, y), text[n], Partial(label, expect, more, a, x, g, y))
      BY <3>9, ParsedMeta, Zenon
    <3>. QED  BY <3>6, <3>7, <3>10 DEF Reads
  <2>3. CASE n = h
    <3>1. text[n] = Header
      BY <2>3 DEF IsText
    <3>2. Data(n) = 0 /\ Data(n - 1) = 0
      BY <2>3
    <3>3. Note(n) = expect /\ Note(n - 1) = expect /\ Tag(n) = label /\ Tag(n - 1) = label
      <4>1. n > 2 /\ (n - 1 <= 2 => e = 0)
        BY <2>3
      <4>2. e = 0 => expect = Nil
        BY DEF IsText
      <4>. QED  BY <2>5, <4>1, <4>2
    <3>4. Meta(n) = Meta(n - 1)
      <4>1. {j \in 1..m : j + e + 2 <= n} = {j \in 1..m : j + e + 2 <= n - 1}
        BY <2>3
      <4>. QED  BY <4>1, Zenon
    <3>. DEFINE M == Meta(n - 1)
                i == t[0]
                j == 0 - t[0]
    <3>. HIDE DEF Data, Tag, Note, Meta
    <3>5. W(n - 1) = Partial(label, expect, M, a, i, g, j) /\ W(n) = Partial(label, expect, M, a, i, g, j)
      BY <3>2, <3>3, <3>4, Zenon
    <3>. HIDE DEF W, M, i, j
    <3>6. Parsed(Partial(label, expect, M, a, i, g, j), Header) = Partial(label, expect, M, a, i, g, j)
      BY ParsedHeader, Zenon
    <3>. QED  BY <3>1, <3>5, <3>6
  <2>4. CASE h < n
    <3>. DEFINE i == n - h
                k == t[i - 1]
    <3>1. /\ i \in 1..N /\ 3 + e + m + i = n /\ Data(n) = i /\ Data(n - 1) = i - 1
          /\ i - 1 \in 0..N /\ i \in 0..N
      BY <2>4
    <3>2. Note(n) = expect /\ Note(n - 1) = expect /\ Tag(n) = label /\ Tag(n - 1) = label
      <4>1. n > 2 /\ n - 1 > 2
        BY <2>4
      <4>. QED  BY <2>5, <4>1
    <3>3. Meta(n) = Meta(n - 1)
      <4>1. {j \in 1..m : j + e + 2 <= n} = {j \in 1..m : j + e + 2 <= n - 1}
        BY <2>4
      <4>. QED  BY <4>1, Zenon
    <3>4. k \in Nat /\ (i - 1) - k \in Nat /\ t[i] \in Nat
      BY <1>2, <3>1
    <3>5. \/ t[i] = t[i - 1] + 1 /\ text[3 + e + m + i] = <<"a", a[t[i]]>>
          \/ t[i] = t[i - 1] /\ text[3 + e + m + i] = <<"g", g[i - t[i]]>>
      BY <3>1 DEF IsText
    <3>. HIDE DEF Meta, Data, Tag, Note, i
    <3>6. W(n - 1) = Partial(label, expect, Meta(n - 1), a, k, g, (i - 1) - k)
      BY <3>1, <3>2, Zenon
    <3>7. W(n) = Partial(label, expect, Meta(n - 1), a, t[i], g, i - t[i])
      BY <3>1, <3>2, <3>3, Zenon
    <3>8. CASE t[i] = t[i - 1] + 1 /\ text[3 + e + m + i] = <<"a", a[t[i]]>>
      <4>1. t[i] = k + 1 /\ i - t[i] = (i - 1) - k /\ text[n] = <<"a", a[k + 1]>>
        BY <3>1, <3>4, <3>8
      <4>2. Parsed(Partial(label, expect, Meta(n - 1), a, k, g, (i - 1) - k), <<"a", a[k + 1]>>)
                = Partial(label, expect, Meta(n - 1), a, k + 1, g, (i - 1) - k)
        <5>. DEFINE j == (i - 1) - k
                    M == Meta(n - 1)
        <5>. HIDE DEF j, M, k
        <5>1. Parsed(Partial(label, expect, M, a, k, g, j), <<"a", a[k + 1]>>)
                = Partial(label, expect, M, a, k + 1, g, j)
          BY <3>4, ParsedAccel
        <5>. QED  BY <5>1 DEF j, M
      <4>. QED  BY <3>6, <3>7, <4>1, <4>2
    <3>9. CASE t[i] = t[i - 1] /\ text[3 + e + m + i] = <<"g", g[i - t[i]]>>
      <4>. DEFINE j == (i - 1) - k
      <4>1. t[i] = k /\ i - t[i] = j + 1 /\ text[n] = <<"g", g[j + 1]>>
        BY <3>1, <3>4, <3>9
      <4>2. Parsed(Partial(label, expect, Meta(n - 1), a, k, g, j), <<"g", g[j + 1]>>)
                = Partial(label, expect, Meta(n - 1), a, k, g, j + 1)
        <5>. DEFINE M == Meta(n - 1)
        <5>1. j \in Nat
          BY <3>4
        <5>. HIDE DEF j, M, k
        <5>2. Parsed(Partial(label, expect, M, a, k, g, j), <<"g", g[j + 1]>>)
                = Partial(label, expect, M, a, k, g, j + 1)
          BY <5>1, ParsedGyro
        <5>. QED  BY <5>2 DEF M
      <4>. QED  BY <3>6, <3>7, <4>1, <4>2
    <3>. QED  BY <3>5, <3>8, <3>9
  <2>6. n = 2 \/ (2 < n /\ n <= 2 + e) \/ (2 + e < n /\ n <= 2 + e + m) \/ n = h \/ h < n
    OBVIOUS
  <2>. HIDE DEF W, h
  <2>. QED  BY <2>0, <2>1, <2>2, <2>3, <2>4, <2>6
<1>. HIDE DEF W, L
<1>6. w = [n \in 1..Len(text) |-> Read(w, n)]
  <2>1. ASSUME NEW n \in 1..L
        PROVE  W(n) = Read(w, n)
    <3>1. CASE n = 1
      BY <1>4, <3>1
    <3>2. CASE n # 1
      <4>1. n \in 2..L /\ n - 1 \in 1..L
        BY <1>1, <3>2
      <4>2. w[n - 1] = W(n - 1)
        BY <4>1
      <4>. QED  BY <1>5, <3>2, <4>1, <4>2
    <3>. QED  BY <3>1, <3>2
  <2>. HIDE DEF Read
  <2>2. [n \in 1..L |-> W(n)] = [n \in 1..L |-> Read(w, n)]
    BY <2>1, Zenon
  <2>. QED  BY <1>1, <2>2, Zenon
<1>7. read = [n \in 1..L |-> Read(read, n)]
  <2>. HIDE DEF Read, w
  <2>1. read = [n \in 1..Len(text) |-> Read(read, n)]
    BY <1>6, Zenon
  <2>. QED  BY <1>1, <2>1, Zenon
<1>. HIDE DEF read
<1>8. \A n \in 1..L : read[n] = Read(read, n)
  BY <1>7, Zenon
<1>. DEFINE Good == {n \in 1..L : read[n] = W(n)}
<1>9. 1 \in Good
  BY <1>1, <1>4, <1>8
<1>10. ASSUME NEW n \in 1..(L - 1), n \in Good
       PROVE  n + 1 \in Good
  <2>1. n + 1 \in 2..L /\ n + 1 \in 1..L /\ n + 1 # 1 /\ (n + 1) - 1 = n
    BY <1>1
  <2>2. read[n + 1] = Parsed(W(n), text[n + 1])
    BY <1>8, <1>10, <2>1
  <2>3. W(n + 1) = Parsed(W(n), text[n + 1])
    BY <1>5, <2>1
  <2>. QED  BY <2>1, <2>2, <2>3
<1>11. 1..L \subseteq Good
  <2>1. 1 \in Int /\ L \in Int
    BY <1>1
  <2>. HIDE DEF Good
  <2>. QED  BY <1>9, <1>10, <2>1, IntervalInduction
<1>12. read[L] = W(L)
  BY <1>1, <1>11
<1>13. W(L) = Partial(label, expect, MetaOf(q, m), a, t[N], g, N - t[N])
  <2>1. Data(L) = N
    BY DEF L
  <2>2. Note(L) = expect /\ Tag(L) = label
    <3>1. L \in Int /\ ~(L <= 2) /\ L # 1
      BY DEF L
    <3>2. Note(L) = expect
      BY <3>1, Zenon
    <3>3. Tag(L) = label
      BY <3>1, Zenon
    <3>. QED  BY <3>2, <3>3
  <2>3. Meta(L) = MetaOf(q, m)
    <3>1. {j \in 1..m : j + e + 2 <= L} = 1..m
      BY DEF L
    <3>. QED  BY <3>1, Zenon DEF MetaOf
  <2>. HIDE DEF Data, Tag, Note, Meta
  <2>. QED  BY <2>1, <2>2, <2>3, Zenon DEF W
<1>. QED  BY <1>3, <1>12, <1>13

-----------------------------------------------------------------------------
(* What to_text writes is such a text.                                       *)
Joined(x, p, q, r, s, u) ==
    /\ Len(x) = Len(p) + Len(q) + Len(r) + Len(s) + Len(u)
    /\ \A i \in 1..Len(p) : x[i] = p[i]
    /\ \A i \in 1..Len(q) : x[Len(p) + i] = q[i]
    /\ \A i \in 1..Len(r) : x[Len(p) + Len(q) + i] = r[i]
    /\ \A i \in 1..Len(s) : x[Len(p) + Len(q) + Len(r) + i] = s[i]
    /\ \A i \in 1..Len(u) : x[Len(p) + Len(q) + Len(r) + Len(s) + i] = u[i]

ConcatIs(x, s, t) ==
    /\ Len(x) = Len(s) + Len(t)
    /\ \A i \in 1..Len(s) : x[i] = s[i]
    /\ \A i \in 1..Len(t) : x[Len(s) + i] = t[i]

LEMMA ConcatFacts ==
    ASSUME NEW S, NEW s \in Seq(S), NEW t \in Seq(S)
    PROVE  s \o t \in Seq(S) /\ ConcatIs(s \o t, s, t)
<1>. DEFINE x == s \o t
<1>1. /\ x \in Seq(S) /\ Len(x) = Len(s) + Len(t)
      /\ \A i \in 1..(Len(s) + Len(t)) : x[i] = IF i <= Len(s) THEN s[i] ELSE t[i - Len(s)]
  BY ConcatProperties
<1>2. Len(s) \in Nat /\ Len(t) \in Nat
  OBVIOUS
<1>. HIDE DEF x
<1>3. ASSUME NEW i \in 1..Len(t)
      PROVE  x[Len(s) + i] = t[i]
  <2>1. Len(s) + i \in 1..(Len(s) + Len(t)) /\ ~(Len(s) + i <= Len(s)) /\ (Len(s) + i) - Len(s) = i
    BY <1>2
  <2>. QED  BY <1>1, <2>1
<1>4. \A i \in 1..Len(s) : x[i] = s[i]
  BY <1>1, <1>2
<1>. QED  BY <1>1, <1>3, <1>4, Zenon DEF ConcatIs, x

LEMMA JoinedFacts ==
    ASSUME NEW S, NEW p \in Seq(S), NEW q \in Seq(S), NEW r \in Seq(S), NEW s \in Seq(S),
           NEW u \in Seq(S)
    PROVE  Joined(p \o q \o r \o s \o u, p, q, r, s, u)
<1>. DEFINE a == p \o q
            b == a \o r
            c == b \o s
            d == c \o u
<1>1. a \in Seq(S) /\ ConcatIs(a, p, q)
  BY ConcatFacts, Zenon
<1>. HIDE DEF a
<1>2. b \in Seq(S) /\ ConcatIs(b, a, r)
  BY <1>1, ConcatFacts, Zenon
<1>. HIDE DEF b
<1>3. c \in Seq(S) /\ ConcatIs(c, b, s)
  BY <1>2, ConcatFacts, Zenon
<1>. HIDE DEF c
<1>4. d \in Seq(S) /\ ConcatIs(d, c, u)
  BY <1>3, ConcatFacts, Zenon
<1>. HIDE DEF d
<1>5. Len(p) \in Nat /\ Len(q) \in Nat /\ Len(r) \in Nat /\ Len(s) \in Nat /\ Len(u) \in Nat
  OBVIOUS
<1>6. /\ Len(a) = Len(p) + Len(q) /\ Len(b) = Len(a) + Len(r)
      /\ Len(c) = Len(b) + Len(s) /\ Len(d) = Len(c) + Len(u)
  BY <1>1, <1>2, <1>3, <1>4 DEF ConcatIs
<1>7. \A i \in 1..Len(p) : d[i] = p[i]
  <2>1. \A i \in 1..Len(p) : i \in 1..Len(a) /\ i \in 1..Len(b) /\ i \in 1..Len(c)
    BY <1>5, <1>6
  <2>. QED  BY <2>1, <1>1, <1>2, <1>3, <1>4, Zenon DEF ConcatIs
<1>8. \A i \in 1..Len(q) : d[Len(p) + i] = q[i]
  <2>1. \A i \in 1..Len(q) :
            Len(p) + i \in 1..Len(a) /\ Len(p) + i \in 1..Len(b) /\ Len(p) + i \in 1..Len(c)
    BY <1>5, <1>6
  <2>2. \A k \in 1..Len(a) : k \in 1..Len(b) /\ k \in 1..Len(c) => d[k] = a[k]
    BY <1>2, <1>3, <1>4, Zenon DEF ConcatIs
  <2>3. \A i \in 1..Len(q) : a[Len(p) + i] = q[i]
    BY <1>1, Zenon DEF ConcatIs
  <2>. QED  BY <2>1, <2>2, <2>3, Zenon
<1>9. \A i \in 1..Len(r) : d[Len(p) + Len(q) + i] = r[i]
  <2>1. \A i \in 1..Len(r) : Len(a) + i \in 1..Len(b) /\ Len(a) + i \in 1..Len(c)
    BY <1>5, <1>6
  <2>2. \A i \in 1..Len(r) : d[Len(a) + i] = r[i]
    BY <2>1, <1>2, <1>3, <1>4, Zenon DEF ConcatIs
  <2>. QED  BY <1>6, <2>2
<1>10. \A i \in 1..Len(s) : d[Len(p) + Len(q) + Len(r) + i] = s[i]
  <2>1. \A i \in 1..Len(s) : Len(b) + i \in 1..Len(c)
    BY <1>5, <1>6
  <2>2. \A i \in 1..Len(s) : d[Len(b) + i] = s[i]
    BY <2>1, <1>3, <1>4, Zenon DEF ConcatIs
  <2>. QED  BY <1>6, <2>2
<1>11. \A i \in 1..Len(u) : d[Len(p) + Len(q) + Len(r) + Len(s) + i] = u[i]
  <2>1. \A i \in 1..Len(u) : d[Len(c) + i] = u[i]
    BY <1>4, Zenon DEF ConcatIs
  <2>. QED  BY <1>6, <2>1
<1>12. Len(d) = Len(p) + Len(q) + Len(r) + Len(s) + Len(u)
  BY <1>6
<1>. QED  BY <1>7, <1>8, <1>9, <1>10, <1>11, <1>12, Zenon DEF Joined, a, b, c, d

Provenance(meta) ==
    /\ IsFiniteSet(meta)
    /\ \A kv \in meta : kv \in STRING \X STRING /\ kv[1] \notin {"label", "expect"}

MetaLines(meta) == {<<"#", kv[1], kv[2]>> : kv \in meta}

LEMMA MetaLinesFacts ==
    ASSUME NEW meta, Provenance(meta)
    PROVE  /\ Cardinality(MetaLines(meta)) \in Nat
           /\ SetToSeq(MetaLines(meta)) \in [1..Cardinality(MetaLines(meta)) -> MetaLines(meta)]
           /\ \A i \in 1..Cardinality(MetaLines(meta)) :
                LET line == SetToSeq(MetaLines(meta))[i]
                IN  line = <<"#", line[2], line[3]>> /\ line[2] \notin {"label", "expect"}
           /\ MetaOf(SetToSeq(MetaLines(meta)), Cardinality(MetaLines(meta))) = meta
<1>. DEFINE Q == MetaLines(meta)
            m == Cardinality(Q)
            q == SetToSeq(Q)
<1>1. IsFiniteSet(Q)
  <2>. DEFINE f == [kv \in meta |-> <<"#", kv[1], kv[2]>>]
  <2>1. f \in Surjection(meta, Q)
    BY DEF Surjection, MetaLines
  <2>2. IsFiniteSet(meta)
    BY DEF Provenance
  <2>. HIDE DEF f, Q
  <2>. QED  BY <2>1, <2>2, FS_Surjection, Zenon
<1>. HIDE DEF Q
<1>2. m \in Nat /\ q \in [1..m -> Q] /\ \A x \in Q : \E i \in 1..m : q[i] = x
  BY <1>1, SetToSeqFacts, Zenon
<1>. HIDE DEF q, m
<1>3. ASSUME NEW i \in 1..m
      PROVE  q[i] = <<"#", q[i][2], q[i][3]>> /\ q[i][2] \notin {"label", "expect"} /\ <<q[i][2], q[i][3]>> \in meta
  <2>1. q[i] \in Q
    BY <1>2
  <2>2. PICK kv \in meta : q[i] = <<"#", kv[1], kv[2]>>
    BY <2>1 DEF Q, MetaLines
  <2>3. kv \in STRING \X STRING /\ kv[1] \notin {"label", "expect"}
    BY DEF Provenance
  <2>4. kv = <<kv[1], kv[2]>>
    BY <2>3
  <2>. QED  BY <2>2, <2>3, <2>4
<1>4. ASSUME NEW kv \in meta
      PROVE  \E i \in 1..m : <<q[i][2], q[i][3]>> = kv
  <2>1. <<"#", kv[1], kv[2]>> \in Q
    BY DEF Q, MetaLines
  <2>2. PICK i \in 1..m : q[i] = <<"#", kv[1], kv[2]>>
    BY <1>2, <2>1, Zenon
  <2>3. kv \in STRING \X STRING
    BY DEF Provenance
  <2>4. kv = <<kv[1], kv[2]>>
    BY <2>3
  <2>5. q[i][2] = kv[1] /\ q[i][3] = kv[2]
    BY <2>2
  <2>6. <<q[i][2], q[i][3]>> = kv
    BY <2>4, <2>5
  <2>. QED  BY <2>6
<1>5. MetaOf(q, m) = meta
  BY <1>3, <1>4, Zenon DEF MetaOf
<1>. QED  BY <1>2, <1>3, <1>5, Zenon DEF Q, q, m

-----------------------------------------------------------------------------
(* So what was written is read back.                                         *)
LEMMA RoundedFacts ==
    ASSUME NEW S, NEW s \in Seq(S)
    PROVE  /\ Len(RoundedStream(s)) = Len(s) /\ DOMAIN RoundedStream(s) = 1..Len(s)
           /\ RoundedStream(s) = First(RoundedStream(s), Len(s))
           /\ \A i \in 1..Len(s) : RoundedStream(s)[i] = Rounded(s[i])
<1>. DEFINE r == RoundedStream(s)
<1>1. Len(s) \in Nat /\ r = [i \in 1..Len(s) |-> Rounded(s[i])]
  BY DEF RoundedStream
<1>2. Len(r) = Len(s) /\ DOMAIN r = 1..Len(s) /\ r = [i \in 1..Len(s) |-> r[i]]
  BY <1>1
<1>3. \A i \in 1..Len(s) : r[i] = Rounded(s[i])
  BY <1>1, Zenon
<1>. QED  BY <1>2, <1>3, Zenon DEF First

Content(label, expect, meta, a, g) ==
    [label |-> label, expect |-> expect, meta |-> meta, accel |-> a, gyro |-> g]

LEMMA ReadsBack ==
    ASSUME NEW label, NEW expect, NEW meta, Provenance(meta), NEW S, NEW a \in Seq(S),
           NEW g \in Seq(S)
    PROVE  /\ FromText(ToText(Content(label, expect, meta, a, g))) =
                Content(label, expect, meta, RoundedStream(a), RoundedStream(g))
           /\ ToText(Content(label, expect, meta, a, g))[1] = Magic
<1>. DEFINE text == ToText(Content(label, expect, meta, a, g))
            note == IF expect = Nil THEN <<>> ELSE <<<<"#", "expect", expect>>>>
            q == SetToSeq(MetaLines(meta))
            m == Cardinality(MetaLines(meta))
            M == Merge(a, g)
            N == Len(a) + Len(g)
            data == [i \in 1..Len(M) |-> Line(M[i])]
            head == <<Magic, <<"#", "label", label>>>>
            T == {Magic, Header, <<"#", "label", label>>, <<"#", "expect", expect>>} \cup MetaLines(meta)
                    \cup {data[i] : i \in 1..N}
            e == IF expect = Nil THEN 0 ELSE 1
            t == Taken(a, g)
            ra == RoundedStream(a)
            rg == RoundedStream(g)
<1>1. text = head \o note \o q \o <<Header>> \o data
  BY DEF ToText, Content, MetaLines
<1>2. /\ m \in Nat /\ q \in [1..m -> MetaLines(meta)] /\ MetaOf(q, m) = meta
      /\ \A i \in 1..m : q[i] = <<"#", q[i][2], q[i][3]>> /\ q[i][2] \notin {"label", "expect"}
  BY MetaLinesFacts
<1>3. Len(a) \in Nat /\ Len(g) \in Nat /\ N \in Nat /\ Len(M) = N
  BY MergeFacts
<1>4. /\ head \in Seq(T) /\ Len(head) = 2 /\ head[1] = Magic /\ head[2] = <<"#", "label", label>>
      /\ <<Header>> \in Seq(T) /\ Len(<<Header>>) = 1 /\ <<Header>>[1] = Header
  <2>1. Magic \in T /\ Header \in T /\ <<"#", "label", label>> \in T
    OBVIOUS
  <2>. HIDE DEF T
  <2>. QED  BY <2>1
<1>5. note \in Seq(T) /\ Len(note) = e /\ (e = 1 => note[1] = <<"#", "expect", expect>>)
  <2>1. <<"#", "expect", expect>> \in T
    OBVIOUS
  <2>. HIDE DEF T
  <2>2. CASE expect = Nil
    BY <2>2
  <2>3. CASE expect # Nil
    BY <2>1, <2>3
  <2>. QED  BY <2>2, <2>3
<1>6. q \in Seq(T) /\ Len(q) = m
  <2>1. MetaLines(meta) \subseteq T
    OBVIOUS
  <2>2. q \in [1..m -> T]
    BY <1>2, <2>1
  <2>. HIDE DEF T, q, m
  <2>. QED  BY <1>2, <2>2
<1>7. data \in Seq(T) /\ Len(data) = N
  <2>1. \A i \in 1..N : data[i] \in T
    OBVIOUS
  <2>2. data = [i \in 1..N |-> data[i]]
    BY <1>3
  <2>. HIDE DEF T, data, N
  <2>3. data \in [1..N -> T]
    BY <2>1, <2>2
  <2>. QED  BY <1>3, <2>3
<1>8. Joined(text, head, note, q, <<Header>>, data)
  <2>. HIDE DEF head, note, q, data, T, text
  <2>. QED  BY <1>1, <1>4, <1>5, <1>6, <1>7, JoinedFacts
<1>9. t[0] = 0 /\ (\A i \in 0..N : t[i] \in 0..Len(a) /\ i - t[i] \in 0..Len(g)) /\ t[N] = Len(a)
  BY <1>3, TakenSteps, TakenBounds
<1>10. ASSUME NEW i \in 1..N
       PROVE  \/ t[i] = t[i - 1] + 1 /\ data[i] = <<"a", ra[t[i]]>>
              \/ t[i] = t[i - 1] /\ data[i] = <<"g", rg[i - t[i]]>>
  <2>1. data[i] = Line(M[i])
    BY <1>3
  <2>2. \/ t[i] = t[i - 1] + 1 /\ t[i] \in 1..Len(a) /\ M[i] = <<"a", a[t[i]]>>
        \/ t[i] = t[i - 1] /\ i - t[i] \in 1..Len(g) /\ M[i] = <<"g", g[i - t[i]]>>
    BY MergeFacts
  <2>3. /\ \A k \in 1..Len(a) : ra[k] = Rounded(a[k])
        /\ \A k \in 1..Len(g) : rg[k] = Rounded(g[k])
    BY RoundedFacts
  <2>. HIDE DEF data, t, M, ra, rg
  <2>4. CASE t[i] = t[i - 1] + 1 /\ t[i] \in 1..Len(a) /\ M[i] = <<"a", a[t[i]]>>
    <3>1. M[i][1] = "a" /\ M[i][2] = a[t[i]]
      BY <2>4
    <3>. QED  BY <2>1, <2>3, <2>4, <3>1 DEF Line
  <2>5. CASE t[i] = t[i - 1] /\ i - t[i] \in 1..Len(g) /\ M[i] = <<"g", g[i - t[i]]>>
    <3>1. M[i][1] = "g" /\ M[i][2] = g[i - t[i]]
      BY <2>5
    <3>. QED  BY <2>1, <2>3, <2>5, <3>1 DEF Line
  <2>. QED  BY <2>2, <2>4, <2>5
<1>. HIDE DEF head, text, note, q, m, M, data, T, t, ra, rg
<1>11. IsText(text, label, expect, e, q, m, ra, rg, t, N)
  <2>1. Len(text) = e + m + N + 3
    <3>1. Len(text) = Len(head) + Len(note) + Len(q) + Len(<<Header>>) + Len(data)
      BY <1>8 DEF Joined
    <3>2. Len(text) = 2 + e + m + 1 + N
      BY <1>4, <1>5, <1>6, <1>7, <3>1
    <3>3. e \in Nat /\ m \in Nat /\ N \in Nat
      BY <1>2, <1>3
    <3>. HIDE DEF e, N
    <3>. QED  BY <3>2, <3>3
  <2>2. text[1] = Magic
    BY <1>4, <1>8 DEF Joined
  <2>9. text[2] = <<"#", "label", label>>
    BY <1>4, <1>8 DEF Joined
  <2>3. (e = 0 => expect = Nil) /\ (e = 1 => text[3] = <<"#", "expect", expect>>)
    BY <1>4, <1>5, <1>8 DEF Joined
  <2>4. \A i \in 1..m : text[2 + e + i] = <<"#", q[i][2], q[i][3]>> /\ q[i][2] \notin {"label", "expect"}
    <3>1. \A i \in 1..m : text[2 + e + i] = q[i]
      BY <1>4, <1>5, <1>6, <1>8 DEF Joined
    <3>. QED  BY <1>2, <3>1
  <2>5. text[3 + e + m] = Header
    <3>1. text[2 + e + m + 1] = Header
      BY <1>4, <1>5, <1>6, <1>8 DEF Joined
    <3>2. 2 + e + m + 1 = 3 + e + m
      BY <1>2
    <3>. QED  BY <3>1, <3>2
  <2>6. \A i \in 1..N : text[3 + e + m + i] = data[i]
    <3>1. \A i \in 1..N : text[2 + e + m + 1 + i] = data[i]
      BY <1>4, <1>5, <1>6, <1>7, <1>8 DEF Joined
    <3>2. 2 + e + m + 1 = 3 + e + m
      BY <1>2
    <3>. QED  BY <3>1, <3>2
  <2>7. t[0] = 0 /\ \A i \in 0..N : t[i] \in Nat /\ i - t[i] \in Nat
    BY <1>9
  <2>8. \A i \in 1..N :
            \/ t[i] = t[i - 1] + 1 /\ text[3 + e + m + i] = <<"a", ra[t[i]]>>
            \/ t[i] = t[i - 1] /\ text[3 + e + m + i] = <<"g", rg[i - t[i]]>>
    BY <1>10, <2>6
  <2>. HIDE DEF e, N
  <2>. QED  BY <2>1, <2>2, <2>3, <2>4, <2>5, <2>7, <2>8, <2>9 DEF IsText
<1>12. FromText(text) = Partial(label, expect, MetaOf(q, m), ra, t[N], rg, N - t[N])
  <2>1. e \in 0..1
    OBVIOUS
  <2>2. m \in Nat /\ N \in Nat
    BY <1>2, <1>3
  <2>. HIDE DEF e, N
  <2>. QED  BY <1>11, <2>1, <2>2, ReadsText, Zenon
<1>13. First(ra, t[N]) = ra /\ First(rg, N - t[N]) = rg
  <2>1. First(ra, Len(a)) = ra /\ First(rg, Len(g)) = rg
    BY RoundedFacts DEF ra, rg
  <2>2. t[N] = Len(a) /\ N - t[N] = Len(g)
    BY <1>3, <1>9
  <2>. QED  BY <2>1, <2>2
<1>14. text[1] = Magic
  BY <1>11, Zenon DEF IsText
<1>15. FromText(text) = Content(label, expect, meta, ra, rg)
  BY <1>2, <1>12, <1>13 DEF Partial, Content
<1>. QED  BY <1>14, <1>15 DEF text, ra, rg

LEMMA StreamFacts ==
    ASSUME DetectorTypeOK, NEW source
    PROVE  /\ Stream(source) \in Seq([t : Nat, mag : Nat])
           /\ Len(Stream(source)) = Len(Of(source, Len(trace)))
           /\ \A i \in 1..Len(Of(source, Len(trace))) :
                Stream(source)[i] = Frame(Of(source, Len(trace))[i])
<1>. DEFINE s == Of(source, Len(trace))
            F == [t : Nat, mag : Nat]
<1>1. s \in Seq(Samples)
  <2>1. trace \in Seq(Samples) /\ Len(trace) \in 0..Len(trace)
    BY DEF DetectorTypeOK
  <2>. QED  BY <2>1, SelectedSteps, Zenon DEF Of
<1>2. Stream(source) = [i \in 1..Len(s) |-> Frame(s[i])]
  BY DEF Stream
<1>. HIDE DEF s
<1>3. Len(s) \in Nat /\ \A i \in 1..Len(s) : s[i] \in Samples
  BY <1>1
<1>4. \A i \in 1..Len(s) : Frame(s[i]) \in F
  BY <1>3, SampleFacts DEF Frame
<1>. HIDE DEF F
<1>5. Stream(source) \in [1..Len(s) -> F]
  BY <1>2, <1>4
<1>6. \A i \in 1..Len(s) : Stream(source)[i] = Frame(s[i])
  BY <1>2, Zenon
<1>7. Stream(source) \in Seq(F) /\ Len(Stream(source)) = Len(s)
  <2>. DEFINE l == Len(s)
              u == Stream(source)
  <2>1. l \in Nat /\ u \in [1..l -> F]
    BY <1>3, <1>5
  <2>. HIDE DEF l, u
  <2>. QED  BY <2>1 DEF l, u
<1>. QED  BY <1>6, <1>7, Zenon DEF s, F

LEMMA InvRoundTrips == DetectorTypeOK => RoundTrip
<1>. SUFFICES ASSUME DetectorTypeOK, NEW label \in Labels, NEW expect \in Expects,
                     NEW meta \in Metas, NEW gz \in BOOLEAN
              PROVE  FromBytes(Write(Recorded(label, expect, meta), gz)) =
                        [Recorded(label, expect, meta) EXCEPT !.accel = RoundedStream(@),
                                                       !.gyro = RoundedStream(@)]
  BY Zenon DEF RoundTrip
<1>. DEFINE a == Stream("accel")
            g == Stream("gyro")
            fx == Content(label, expect, meta, a, g)
            text == ToText(fx)
<1>1. Recorded(label, expect, meta) = fx
  BY DEF Recorded, Content
<1>2. Provenance(meta)
  BY RecordingAssumption DEF Provenance
<1>3. FromText(text) = Content(label, expect, meta, RoundedStream(a), RoundedStream(g)) /\ text[1] = Magic
  BY <1>2, StreamFacts, ReadsBack
<1>4. [fx EXCEPT !.accel = RoundedStream(@), !.gyro = RoundedStream(@)] =
        Content(label, expect, meta, RoundedStream(a), RoundedStream(g))
  <2>. DEFINE ra == RoundedStream(a)
              rg == RoundedStream(g)
  <2>1. fx.accel = a /\ fx.gyro = g
    BY DEF Content
  <2>. HIDE DEF a, g, ra, rg
  <2>2. [fx EXCEPT !.accel = ra, !.gyro = rg] = Content(label, expect, meta, ra, rg)
    <3>1. [fx EXCEPT !.accel = ra] = Content(label, expect, meta, ra, g)
      BY DEF Content
    <3>2. [Content(label, expect, meta, ra, g) EXCEPT !.gyro = rg] = Content(label, expect, meta, ra, rg)
      BY DEF Content
    <3>. HIDE DEF fx
    <3>3. [fx EXCEPT !.accel = ra, !.gyro = rg] = [[fx EXCEPT !.accel = ra] EXCEPT !.gyro = rg]
      OBVIOUS
    <3>. QED  BY <3>1, <3>2, <3>3
  <2>. HIDE DEF fx
  <2>. QED  BY <2>1, <2>2, Zenon DEF ra, rg
<1>5. FromBytes(Write(fx, gz)) = FromText(text)
  <2>1. CASE gz
    <3>1. Write(fx, gz) = <<Gzip, text>>
      BY <2>1 DEF Write
    <3>. HIDE DEF text, fx
    <3>2. <<Gzip, text>>[1] = Gzip /\ <<Gzip, text>>[2] = text
      OBVIOUS
    <3>. QED  BY <3>1, <3>2, Zenon DEF FromBytes
  <2>2. CASE ~gz
    <3>1. Write(fx, gz) = text
      BY <2>2 DEF Write
    <3>2. Magic # Gzip
      BY DEF Magic, Gzip
    <3>. HIDE DEF text, fx
    <3>. QED  BY <1>3, <3>1, <3>2, Zenon DEF FromBytes
  <2>. QED  BY <2>1, <2>2
<1>. QED  BY <1>1, <1>3, <1>4, <1>5

(* What is recorded comes back, to the digits of the file: whichever frames  *)
(* of whatever times and magnitudes, however many, with any annotation, a    *)
(* label and provenance that fit in their lines, compressed or not.  The     *)
(* parser reads line by line what the writer interleaved                     *)
(* (fixture.rs:151-250).                                                     *)
THEOREM RecordingsSurvive == DetectorSpec => []RoundTrip
BY InvRoundTrips, DetectorTypeCorrect, PTL

-----------------------------------------------------------------------------
(* The order of a replay.                                                  *)
Later(frames, source, n, m) ==
    /\ Len(Selected(frames, source, n)) <= Len(Selected(frames, source, m))
    /\ \A k \in 1..Len(Selected(frames, source, n)) :
            Selected(frames, source, m)[k] = Selected(frames, source, n)[k]
    /\ \A k \in (Len(Selected(frames, source, n)) + 1)..Len(Selected(frames, source, m)) :
            \E j \in (n + 1)..m :
                frames[j].source = source /\ Selected(frames, source, m)[k] = frames[j]

LEMMA SelectedLater ==
    ASSUME NEW S, NEW frames \in Seq(S), NEW source, NEW n \in 0..Len(frames),
           NEW m \in n..Len(frames)
    PROVE  Later(frames, source, n, m)
<1>. DEFINE L == Len(frames)
            Good == {k \in n..L : Later(frames, source, n, k)}
            sel(k) == Selected(frames, source, k)
<1>1. /\ \A k \in 1..L : SelectedStep(frames, source, k)
      /\ \A k \in 0..L : sel(k) \in Seq(S)
  BY SelectedSteps, Zenon
<1>2. L \in Nat
  OBVIOUS
<1>. HIDE DEF L
<1>3. n \in 0..L /\ m \in n..L
  BY DEF L
<1>4. n \in Good
  <2>1. Len(sel(n)) \in Nat
    BY <1>1, <1>3
  <2>. QED  BY <1>2, <1>3, <2>1 DEF Later
<1>5. ASSUME NEW k \in n..(L - 1), k \in Good
      PROVE  k + 1 \in Good
  <2>1. k \in 0..L /\ k + 1 \in 1..L /\ k + 1 \in n..L /\ (k + 1) - 1 = k
    BY <1>2, <1>3
  <2>2. sel(k) \in Seq(S) /\ sel(n) \in Seq(S) /\ Len(sel(k)) \in Nat /\ Len(sel(n)) \in Nat
    BY <1>1, <1>3, <2>1
  <2>3. /\ Len(sel(n)) <= Len(sel(k))
        /\ \A i \in 1..Len(sel(n)) : sel(k)[i] = sel(n)[i]
        /\ \A i \in (Len(sel(n)) + 1)..Len(sel(k)) :
                \E j \in (n + 1)..k : frames[j].source = source /\ sel(k)[i] = frames[j]
    BY <1>5 DEF Later
  <2>4. sel(k + 1) = IF frames[k + 1].source = source THEN Append(sel(k), frames[k + 1]) ELSE sel(k)
    BY <1>1, <2>1 DEF SelectedStep
  <2>5. \A j \in (n + 1)..k : j \in (n + 1)..(k + 1)
    BY <2>1, <1>3
  <2>6. CASE frames[k + 1].source # source
    <3>1. sel(k + 1) = sel(k)
      BY <2>4, <2>6
    <3>. HIDE DEF sel
    <3>2. /\ Len(sel(n)) <= Len(sel(k + 1))
          /\ \A i \in 1..Len(sel(n)) : sel(k + 1)[i] = sel(n)[i]
          /\ \A i \in (Len(sel(n)) + 1)..Len(sel(k + 1)) :
                \E j \in (n + 1)..(k + 1) : frames[j].source = source /\ sel(k + 1)[i] = frames[j]
      BY <2>3, <2>5, <3>1
    <3>. QED  BY <2>1, <3>2 DEF Later, sel
  <2>7. CASE frames[k + 1].source = source
    <3>. DEFINE e == frames[k + 1]
                T == S \cup {e}
    <3>1. sel(k + 1) = Append(sel(k), e)
      BY <2>4, <2>7
    <3>2. sel(k) \in Seq(T) /\ e \in T
      BY <2>2
    <3>. HIDE DEF sel, e, T
    <3>3. /\ Len(sel(k + 1)) = Len(sel(k)) + 1 /\ sel(k + 1)[Len(sel(k)) + 1] = e
          /\ \A i \in 1..Len(sel(k)) : sel(k + 1)[i] = sel(k)[i]
      BY <3>1, <3>2
    <3>4. k + 1 \in (n + 1)..(k + 1)
      BY <2>1, <1>3
    <3>5. ASSUME NEW i \in (Len(sel(n)) + 1)..Len(sel(k + 1))
          PROVE  \E j \in (n + 1)..(k + 1) : frames[j].source = source /\ sel(k + 1)[i] = frames[j]
      <4>1. CASE i = Len(sel(k)) + 1
        BY <2>7, <3>3, <3>4, <4>1 DEF e
      <4>2. CASE i # Len(sel(k)) + 1
        <5>1. i \in (Len(sel(n)) + 1)..Len(sel(k)) /\ i \in 1..Len(sel(k))
          BY <2>2, <3>3, <4>2
        <5>2. sel(k + 1)[i] = sel(k)[i]
          BY <3>3, <5>1
        <5>3. PICK j \in (n + 1)..k : frames[j].source = source /\ sel(k)[i] = frames[j]
          BY <2>3, <5>1
        <5>. QED  BY <2>5, <5>2, <5>3
      <4>. QED  BY <4>1, <4>2
    <3>6. Len(sel(n)) <= Len(sel(k + 1)) /\ \A i \in 1..Len(sel(n)) : sel(k + 1)[i] = sel(n)[i]
      BY <2>2, <2>3, <3>3
    <3>. QED  BY <2>1, <3>5, <3>6 DEF Later, sel
  <2>. QED  BY <2>6, <2>7
<1>6. n..L \subseteq Good
  <2>1. n \in Int /\ L \in Int
    BY <1>2, <1>3
  <2>. HIDE DEF Good
  <2>. QED  BY <1>4, <1>5, <2>1, IntervalInduction
<1>. QED  BY <1>3, <1>6

LEMMA NearestIsInt == \A t \in Nat : Nearest(t, Res) \in Int
<1>. SUFFICES ASSUME NEW t \in Nat PROVE Nearest(t, Res) \in Int
  OBVIOUS
<1>1. Res \in Nat \ {0}
  BY RecordingAssumption
<1>2. (t + Res \div 2) \div Res \in Int
  <2>1. Res \div 2 \in Int
    BY <1>1
  <2>2. t + Res \div 2 \in Int
    BY <2>1
  <2>. QED  BY <1>1, <2>2
<1>3. \A x \in Int : x * Res \in Int
  BY <1>1
<1>. QED  BY <1>2, <1>3 DEF Nearest

(* How the streams of a trace lie in it.                                     *)
LEMMA StreamsInTrace ==
    ASSUME DetectorTypeOK, NEW n \in 1..Len(trace)
    PROVE  /\ Len(Of("accel", n)) \in Nat /\ Len(Of("gyro", n)) \in Nat
           /\ Len(Of("accel", n)) + Len(Of("gyro", n)) = n
           /\ trace[n].source \in {"accel", "gyro"}
           /\ \A source \in {"accel", "gyro"} :
                /\ Later(trace, source, n, Len(trace))
                /\ trace[n].source = source =>
                        /\ Len(Of(source, n)) = Len(Of(source, n - 1)) + 1
                        /\ Of(source, n)[Len(Of(source, n))] = trace[n]
                /\ trace[n].source # source => Of(source, n) = Of(source, n - 1)
<1>. DEFINE L == Len(trace)
            a(k) == Of("accel", k)
            g(k) == Of("gyro", k)
            Good == {k \in 0..L : Len(a(k)) + Len(g(k)) = k}
<1>1. trace \in Seq(Samples) /\ L \in Nat /\ n \in 0..L /\ L \in n..L
  BY DEF DetectorTypeOK
<1>2. ASSUME NEW source
      PROVE  /\ Of(source, 0) = <<>> /\ \A k \in 0..L : Of(source, k) \in Seq(Samples)
             /\ \A k \in 1..L : SelectedStep(trace, source, k)
  BY <1>1, SelectedSteps, Zenon DEF Of
<1>3. ASSUME NEW source, NEW k \in 1..L
      PROVE  /\ trace[k].source = source =>
                    /\ Len(Of(source, k)) = Len(Of(source, k - 1)) + 1
                    /\ Of(source, k)[Len(Of(source, k))] = trace[k]
             /\ trace[k].source # source => Of(source, k) = Of(source, k - 1)
             /\ Len(Of(source, k)) \in Nat /\ Len(Of(source, k - 1)) \in Nat
  <2>1. Of(source, k) = IF trace[k].source = source THEN Append(Of(source, k - 1), trace[k])
                        ELSE Of(source, k - 1)
    BY <1>2, Zenon DEF SelectedStep, Of
  <2>2. k - 1 \in 0..L /\ k \in 0..L /\ trace[k] \in Samples
    BY <1>1
  <2>. DEFINE s == Of(source, k - 1)
              u == Of(source, k)
  <2>3. s \in Seq(Samples) /\ u \in Seq(Samples)
    BY <1>2, <2>2
  <2>4. u = IF trace[k].source = source THEN Append(s, trace[k]) ELSE s
    BY <2>1
  <2>. HIDE DEF s, u
  <2>5. /\ trace[k].source = source => Len(u) = Len(s) + 1 /\ u[Len(u)] = trace[k]
        /\ trace[k].source # source => u = s
        /\ Len(u) \in Nat /\ Len(s) \in Nat
    BY <2>2, <2>3, <2>4
  <2>. QED  BY <2>5 DEF s, u
<1>4. \A k \in 1..L : trace[k].source \in {"accel", "gyro"}
  <2>1. \A f \in Samples : f.source \in {"accel", "gyro"}
    BY DEF Samples, Frames
  <2>. QED  BY <1>1, <2>1
<1>. HIDE DEF L
<1>5. 0..L \subseteq Good
  <2>1. 0 \in Good
    <3>1. Len(<<>>) = 0
      OBVIOUS
    <3>. QED  BY <1>1, <1>2, <3>1
  <2>2. ASSUME NEW k \in 0..(L - 1), k \in Good
        PROVE  k + 1 \in Good
    <3>1. k + 1 \in 1..L /\ k + 1 \in 0..L /\ (k + 1) - 1 = k
      BY <1>1
    <3>2. Len(a(k)) + Len(g(k)) = k
      BY <2>2
    <3>3. Len(a(k)) \in Nat /\ Len(g(k)) \in Nat
      BY <1>3, <3>1
    <3>4. CASE trace[k + 1].source = "accel"
      <4>1. Len(a(k + 1)) = Len(a(k)) + 1 /\ g(k + 1) = g(k)
        BY <1>3, <3>1, <3>4
      <4>. HIDE DEF a, g
      <4>. QED  BY <3>1, <3>2, <3>3, <4>1
    <3>5. CASE trace[k + 1].source = "gyro"
      <4>1. Len(g(k + 1)) = Len(g(k)) + 1 /\ a(k + 1) = a(k)
        BY <1>3, <3>1, <3>5
      <4>. HIDE DEF a, g
      <4>. QED  BY <3>1, <3>2, <3>3, <4>1
    <3>. QED  BY <1>4, <3>1, <3>4, <3>5
  <2>3. 0 \in Int /\ L \in Int
    BY <1>1
  <2>. HIDE DEF Good
  <2>. QED  BY <2>1, <2>2, <2>3, IntervalInduction
<1>6. Len(a(n)) + Len(g(n)) = n
  BY <1>1, <1>5
<1>7. \A source : Later(trace, source, n, Len(trace))
  BY <1>1, SelectedLater, Zenon DEF L
<1>. QED  BY <1>3, <1>4, <1>6, <1>7 DEF L

LEMMA InvReplays == DetectorTypeOK => ReplayInterleaves
<1>. SUFFICES ASSUME DetectorTypeOK, Orderly, NEW label \in Labels
              PROVE  LET replayed == Replayed(FromBytes(Write(Recorded(label, Nil, {}), TRUE)))
                     IN  /\ Len(replayed) = Len(trace)
                         /\ \A i \in DOMAIN trace :
                            /\ replayed[i][1] = (IF trace[i].source = "accel" THEN "a" ELSE "g")
                            /\ replayed[i][2] = Rounded(trace[i])
  BY Zenon DEF ReplayInterleaves
<1>. DEFINE L == Len(trace)
            A == Of("accel", L)
            G == Of("gyro", L)
            a == RoundedStream(Stream("accel"))
            g == RoundedStream(Stream("gyro"))
            M == Merge(a, g)
            t == Taken(a, g)
            now(f) == Rounded(f)
<1>1. Replayed(FromBytes(Write(Recorded(label, Nil, {}), TRUE))) = M
  <2>. DEFINE fx == Content(label, Nil, {}, Stream("accel"), Stream("gyro"))
              text == ToText(fx)
  <2>1. Provenance({})
    BY FS_EmptySet DEF Provenance
  <2>2. FromText(text) = Content(label, Nil, {}, a, g)
    BY <2>1, StreamFacts, ReadsBack
  <2>3. Recorded(label, Nil, {}) = fx
    BY DEF Recorded, Content
  <2>4. Write(fx, TRUE) = <<Gzip, text>>
    BY DEF Write
  <2>5. FromBytes(<<Gzip, text>>) = FromText(text)
    <3>. HIDE DEF text
    <3>1. <<Gzip, text>>[1] = Gzip /\ <<Gzip, text>>[2] = text
      OBVIOUS
    <3>. QED  BY <3>1, Zenon DEF FromBytes
  <2>. HIDE DEF fx, text
  <2>6. FromBytes(Write(Recorded(label, Nil, {}), TRUE)) = Content(label, Nil, {}, a, g)
    BY <2>2, <2>3, <2>4, <2>5
  <2>7. Content(label, Nil, {}, a, g).accel = a /\ Content(label, Nil, {}, a, g).gyro = g
    BY DEF Content
  <2>. QED  BY <2>6, <2>7, Zenon DEF Replayed
<1>2. /\ trace \in Seq(Samples) /\ L \in Nat /\ DOMAIN trace = 1..L
      /\ \A i \in 1..L : trace[i].t \in Nat
  <2>1. trace \in Seq(Samples)
    BY DEF DetectorTypeOK
  <2>. QED  BY <2>1, SampleFacts
<1>3. /\ A \in Seq(Samples) /\ G \in Seq(Samples)
      /\ Len(Stream("accel")) = Len(A) /\ Len(Stream("gyro")) = Len(G)
  <2>1. L \in 0..L
    BY <1>2
  <2>. QED  BY <1>2, <2>1, SelectedSteps, StreamFacts, Zenon DEF Of
<1>4. /\ Len(a) = Len(A) /\ \A i \in 1..Len(A) : a[i] = now(A[i])
      /\ Len(g) = Len(G) /\ \A i \in 1..Len(G) : g[i] = now(G[i])
  <2>1. \A source : /\ Stream(source) \in Seq([t : Nat, mag : Nat])
                    /\ Len(Stream(source)) = Len(Of(source, L))
                    /\ \A i \in 1..Len(Of(source, L)) : Stream(source)[i] = Frame(Of(source, L)[i])
    BY StreamFacts
  <2>2. ASSUME NEW source
        PROVE  /\ Len(RoundedStream(Stream(source))) = Len(Of(source, L))
               /\ \A i \in 1..Len(Of(source, L)) :
                    RoundedStream(Stream(source))[i] = now(Of(source, L)[i])
    <3>. DEFINE s == Stream(source)
    <3>1. s \in Seq([t : Nat, mag : Nat])
      BY <2>1
    <3>2. /\ Len(RoundedStream(s)) = Len(s)
          /\ \A i \in 1..Len(s) : RoundedStream(s)[i] = Rounded(s[i])
      BY <3>1, RoundedFacts
    <3>3. \A f : Rounded(Frame(f)) = now(f)
      BY DEF Frame, Rounded
    <3>. QED  BY <2>1, <3>2, <3>3
  <2>. QED  BY <2>2
<1>5. \A f : now(f).t = Nearest(f.t, Res) /\ Rounded(f).t = Nearest(f.t, Res)
  BY DEF Rounded
<1>6. Len(a) + Len(g) = L
  <2>1. CASE L = 0
    <3>1. Of("accel", 0) = <<>> /\ Of("gyro", 0) = <<>>
      BY <1>2, SelectedSteps, Zenon DEF Of
    <3>2. Len(A) = 0 /\ Len(G) = 0
      BY <2>1, <3>1
    <3>. QED  BY <1>4, <2>1, <3>2
  <2>2. CASE L # 0
    <3>1. L \in 1..L
      BY <1>2, <2>2
    <3>2. Len(A) + Len(G) = L
      BY <3>1, StreamsInTrace
    <3>. QED  BY <1>4, <3>2
  <2>. QED  BY <2>1, <2>2
<1>. DEFINE Good == {n \in 0..L : t[n] = Len(Of("accel", n))}
<1>. HIDE DEF A, G, a, g, M, now, L
<1>7. /\ t[0] = 0
      /\ \A k \in 1..L : TakenStep(a, g, k)
      /\ \A k \in 0..L : t[k] \in 0..Len(a) /\ k - t[k] \in 0..Len(g)
  <2>1. Len(a) \in Nat /\ Len(g) \in Nat
    BY <1>3, <1>4
  <2>. QED  BY <1>6, <2>1, TakenSteps, TakenBounds
<1>. HIDE DEF t
<1>8. 0 \in Good
  <2>1. Of("accel", 0) = <<>>
    BY <1>2, SelectedSteps, Zenon DEF Of
  <2>2. Len(<<>>) = 0 /\ 0 \in 0..L
    BY <1>2
  <2>. QED  BY <1>7, <2>1, <2>2
<1>9. ASSUME NEW n \in 0..(L - 1), n \in Good
      PROVE  /\ n + 1 \in Good
             /\ t[n + 1] = t[n] + 1 => a[t[n + 1]] = now(trace[n + 1]) /\ trace[n + 1].source = "accel"
             /\ t[n + 1] = t[n] => g[(n + 1) - t[n + 1]] = now(trace[n + 1])
                                    /\ trace[n + 1].source = "gyro"
  <2>. DEFINE m == n + 1
              i == Len(Of("accel", n))
              j == n - i
  <2>1. m \in 1..L /\ m - 1 = n /\ m \in 0..L /\ n \in 0..L
    BY <1>2
  <2>2. t[n] = i /\ t[n] \in Int
    BY <1>7, <1>9, <2>1
  <2>. HIDE DEF i
  <2>3. t[m] = IF TakesAccel(a, g, i + 1, m - i) THEN i + 1 ELSE i
    BY <1>7, <2>1, <2>2 DEF TakenStep, t
  <2>4. /\ Len(Of("accel", m)) \in Nat /\ Len(Of("gyro", m)) \in Nat
        /\ Len(Of("accel", m)) + Len(Of("gyro", m)) = m
        /\ trace[m].source \in {"accel", "gyro"}
        /\ Later(trace, "accel", m, L) /\ Later(trace, "gyro", m, L)
        /\ trace[m].source = "accel" =>
                Len(Of("accel", m)) = i + 1 /\ Of("accel", m)[Len(Of("accel", m))] = trace[m]
        /\ trace[m].source = "gyro" =>
                Of("accel", m) = Of("accel", n) /\ Of("gyro", m)[Len(Of("gyro", m))] = trace[m]
    BY <2>1, StreamsInTrace DEF L, i
  <2>5. /\ Len(Of("accel", m)) <= Len(A) /\ Len(Of("gyro", m)) <= Len(G)
        /\ \A k \in 1..Len(Of("accel", m)) : A[k] = Of("accel", m)[k]
        /\ \A k \in 1..Len(Of("gyro", m)) : G[k] = Of("gyro", m)[k]
        /\ \A k \in (Len(Of("accel", m)) + 1)..Len(A) :
                \E p \in (m + 1)..L : trace[p].source = "accel" /\ A[k] = trace[p]
        /\ \A k \in (Len(Of("gyro", m)) + 1)..Len(G) :
                \E p \in (m + 1)..L : trace[p].source = "gyro" /\ G[k] = trace[p]
    BY <2>4, Zenon DEF Later, Of, A, G
  <2>6. \A p \in (m + 1)..L :
            \/ Nearest(trace[m].t, Res) < Nearest(trace[p].t, Res)
            \/ Nearest(trace[m].t, Res) = Nearest(trace[p].t, Res) /\ trace[p].source = "gyro"
    <3>1. \A p \in (m + 1)..L : m < p /\ p \in DOMAIN trace /\ m \in DOMAIN trace
      BY <1>2, <2>1
    <3>. QED  BY <1>5, <3>1 DEF Orderly
  <2>7. \A p \in 1..L : Nearest(trace[p].t, Res) \in Int
    BY <1>2, NearestIsInt
  <2>8. i \in Nat /\ Len(A) \in Nat /\ Len(G) \in Nat
    BY <1>3, <1>7, <2>1, <2>2
  <2>9. CASE trace[m].source = "accel"
    <3>1. Len(Of("accel", m)) = i + 1 /\ Len(Of("gyro", m)) = m - (i + 1)
      BY <2>1, <2>4, <2>8, <2>9
    <3>2. i + 1 \in 1..Len(A) /\ A[i + 1] = trace[m]
      <4>1. i + 1 \in 1..Len(A) /\ i + 1 \in 1..Len(Of("accel", m))
        BY <2>5, <2>8, <3>1
      <4>. QED  BY <2>4, <2>5, <2>9, <3>1, <4>1
    <3>3. a[i + 1] = now(trace[m]) /\ a[i + 1].t = Nearest(trace[m].t, Res)
      BY <1>4, <1>5, <3>2
    <3>4. TakesAccel(a, g, i + 1, m - i)
      <4>1. CASE m - i > Len(g)
        BY <1>4, <2>8, <3>2, <4>1 DEF TakesAccel
      <4>2. CASE ~(m - i > Len(g))
        <5>1. m - i \in (Len(Of("gyro", m)) + 1)..Len(G) /\ m - i \in 1..Len(G)
          BY <1>4, <2>1, <2>4, <2>8, <3>1, <4>2
        <5>2. PICK p \in (m + 1)..L : trace[p].source = "gyro" /\ G[m - i] = trace[p]
          BY <2>5, <5>1
        <5>3. g[m - i] = now(trace[p]) /\ g[m - i].t = Nearest(trace[p].t, Res)
          BY <1>4, <1>5, <5>1, <5>2
        <5>4. p \in 1..L
          BY <2>1
        <5>5. Nearest(trace[m].t, Res) <= Nearest(trace[p].t, Res)
          BY <2>1, <2>6, <2>7, <5>4
        <5>. QED  BY <1>4, <2>8, <3>2, <3>3, <5>3, <5>5 DEF TakesAccel
      <4>. QED  BY <4>1, <4>2
    <3>5. t[m] = i + 1
      BY <2>3, <3>4
    <3>. QED  BY <2>1, <2>2, <2>8, <2>9, <3>1, <3>3, <3>5
  <2>10. CASE trace[m].source = "gyro"
    <3>1. Len(Of("accel", m)) = i /\ Len(Of("gyro", m)) = m - i
      BY <2>1, <2>4, <2>8, <2>10 DEF i
    <3>2. m - i \in 1..Len(G) /\ G[m - i] = trace[m]
      <4>1. t[n] <= n /\ m - i >= 1
        BY <1>7, <1>2, <2>1, <2>2
      <4>2. m - i \in 1..Len(G) /\ m - i \in 1..Len(Of("gyro", m))
        BY <2>1, <2>4, <2>5, <2>8, <3>1, <4>1
      <4>. QED  BY <2>4, <2>5, <2>10, <3>1, <4>2
    <3>3. g[m - i] = now(trace[m]) /\ g[m - i].t = Nearest(trace[m].t, Res)
      BY <1>4, <1>5, <3>2
    <3>4. ~TakesAccel(a, g, i + 1, m - i)
      <4>. SUFFICES ASSUME i + 1 <= Len(a), a[i + 1].t <= g[m - i].t \/ m - i > Len(g) PROVE FALSE
        BY DEF TakesAccel
      <4>1. i + 1 \in (Len(Of("accel", m)) + 1)..Len(A) /\ i + 1 \in 1..Len(A)
        BY <1>4, <2>8, <3>1
      <4>2. PICK p \in (m + 1)..L : trace[p].source = "accel" /\ A[i + 1] = trace[p]
        BY <2>5, <4>1
      <4>3. a[i + 1].t = Nearest(trace[p].t, Res)
        BY <1>4, <1>5, <4>1, <4>2
      <4>4. p \in 1..L
        BY <2>1
      <4>5. Nearest(trace[m].t, Res) < Nearest(trace[p].t, Res)
        BY <2>6, <4>2
      <4>6. ~(a[i + 1].t <= g[m - i].t)
        BY <2>1, <2>7, <3>3, <4>3, <4>4, <4>5
      <4>. QED  BY <1>4, <2>8, <3>2, <4>6
    <3>5. t[m] = i
      BY <2>3, <3>4
    <3>. QED  BY <2>1, <2>2, <2>8, <2>10, <3>1, <3>3, <3>5
  <2>. QED  BY <2>4, <2>9, <2>10
<1>10. 0..L \subseteq Good
  <2>1. 0 \in Int /\ L \in Int
    BY <1>2
  <2>2. \A n \in 0..(L - 1) : n \in Good => n + 1 \in Good
    BY <1>9, Zenon
  <2>. HIDE DEF Good
  <2>. QED  BY <1>8, <2>1, <2>2, IntervalInduction
<1>11. ASSUME NEW m \in 1..L
       PROVE  /\ M[m][1] = (IF trace[m].source = "accel" THEN "a" ELSE "g")
              /\ M[m][2] = now(trace[m])
  <2>. DEFINE n == m - 1
  <2>1. n \in 0..(L - 1) /\ n \in 0..L /\ n + 1 = m
    BY <1>2
  <2>2. n \in Good
    BY <1>10, <2>1
  <2>3. /\ t[m] = t[n] + 1 => a[t[m]] = now(trace[m]) /\ trace[m].source = "accel"
        /\ t[m] = t[n] => g[m - t[m]] = now(trace[m]) /\ trace[m].source = "gyro"
    <3>1. /\ t[n + 1] = t[n] + 1 => a[t[n + 1]] = now(trace[n + 1]) /\ trace[n + 1].source = "accel"
          /\ t[n + 1] = t[n] => g[(n + 1) - t[n + 1]] = now(trace[n + 1])
                                    /\ trace[n + 1].source = "gyro"
      <4>. HIDE DEF n, Good
      <4>. QED  BY <1>9, <2>1, <2>2, Zenon
    <3>. HIDE DEF n
    <3>. QED  BY <2>1, <3>1
  <2>4. \/ t[m] = t[m - 1] + 1 /\ M[m] = <<"a", a[t[m]]>>
        \/ t[m] = t[m - 1] /\ M[m] = <<"g", g[m - t[m]]>>
    <3>. DEFINE S == {a[k] : k \in 1..Len(a)} \cup {g[k] : k \in 1..Len(g)}
    <3>1. a \in Seq(S) /\ g \in Seq(S)
      <4>1. /\ a = [k \in 1..Len(a) |-> a[k]] /\ Len(a) \in Nat
            /\ g = [k \in 1..Len(g) |-> g[k]] /\ Len(g) \in Nat
        <5>1. \A source : /\ Stream(source) \in Seq([t : Nat, mag : Nat])
          BY StreamFacts
        <5>. QED  BY <5>1, <1>3, <1>4, RoundedFacts DEF a, g, First
      <4>2. a \in [1..Len(a) -> S] /\ g \in [1..Len(g) -> S]
        BY <4>1
      <4>. DEFINE la == Len(a)
                  lg == Len(g)
      <4>3. la \in Nat /\ lg \in Nat /\ a \in [1..la -> S] /\ g \in [1..lg -> S]
        BY <4>1, <4>2
      <4>. HIDE DEF S, la, lg
      <4>. QED  BY <4>3
    <3>. HIDE DEF S
    <3>2. m \in 1..(Len(a) + Len(g))
      BY <1>6
    <3>. QED  BY <3>1, <3>2, MergeFacts DEF M, t
  <2>5. t[n] = t[m - 1]
    OBVIOUS
  <2>. HIDE DEF n
  <2>6. CASE t[m] = t[m - 1] + 1 /\ M[m] = <<"a", a[t[m]]>>
    <3>1. M[m][1] = "a" /\ M[m][2] = a[t[m]]
      BY <2>6
    <3>. QED  BY <2>3, <2>5, <2>6, <3>1
  <2>7. CASE t[m] = t[m - 1] /\ M[m] = <<"g", g[m - t[m]]>>
    <3>1. M[m][1] = "g" /\ M[m][2] = g[m - t[m]]
      BY <2>7
    <3>. QED  BY <2>3, <2>5, <2>7, <3>1
  <2>. QED  BY <2>4, <2>6, <2>7
<1>12. Len(M) = L
  <2>1. M = [n \in 1..(Len(a) + Len(g)) |->
                LET i == Taken(a, g)[n - 1]
                IN  IF TakesAccel(a, g, i + 1, n - i) THEN <<"a", a[i + 1]>> ELSE <<"g", g[n - i]>>]
    BY DEF M, Merge
  <2>. QED  BY <1>2, <1>6, <2>1
<1>13. \A i \in DOMAIN trace :
        /\ M[i][1] = (IF trace[i].source = "accel" THEN "a" ELSE "g")
        /\ M[i][2] = Rounded(trace[i])
  BY <1>2, <1>11, Zenon DEF now
<1>. QED  BY <1>1, <1>12, <1>13, Zenon DEF L

(* A replay feeds the detector the frames in the order in which they came,   *)
(* whenever that order can be told from the times in the file               *)
(* (fixture.rs:163-180, replay.rs:30-52).                                    *)
THEOREM ReplaysInOrder == DetectorSpec => []ReplayInterleaves
BY InvReplays, DetectorTypeCorrect, PTL

===============================================================================
