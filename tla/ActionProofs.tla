------------------------------ MODULE ActionProofs ------------------------------
(***************************************************************************)
(* What happens to a spank.  The worker's list of pending jobs stays sorted *)
(* and the worker wakes in time for it, for any set of jobs and any lengths *)
(* of time (ActionWorker).  The executor picks sounds in the order its      *)
(* configuration asks for, from any playlist and any disk (Executor).       *)
(***************************************************************************)
EXTENDS ActionWorker, Executor, DataLemmas

-----------------------------------------------------------------------------
(* The operators the model is built from.                                  *)

(* Inserting moves what comes after one place on.                            *)
LEMMA InsertAtElements ==
    ASSUME NEW S, NEW s \in Seq(S), NEW e \in S, NEW at \in 1..(Len(s) + 1)
    PROVE  /\ InsertAt(s, at, e) \in Seq(S)
           /\ Len(InsertAt(s, at, e)) = Len(s) + 1
           /\ \A i \in 1..(Len(s) + 1) :
                InsertAt(s, at, e)[i] = IF i < at THEN s[i]
                                        ELSE IF i = at THEN e ELSE s[i - 1]
<1>. DEFINE front == SubSeq(s, 1, at - 1)
            back == SubSeq(s, at, Len(s))
<1>1. /\ front \in Seq(S) /\ Len(front) = at - 1
      /\ \A i \in 1..(at - 1) : front[i] = s[i]
  OBVIOUS
<1>2. /\ back \in Seq(S) /\ Len(back) = Len(s) - at + 1
      /\ \A i \in 1..(Len(s) - at + 1) : back[i] = s[at + i - 1]
  OBVIOUS
<1>3. <<e>> \in Seq(S) /\ Len(<<e>>) = 1 /\ <<e>>[1] = e
  OBVIOUS
<1>. HIDE DEF front, back
<1>. DEFINE start == front \o <<e>>
<1>4. /\ start \in Seq(S) /\ Len(start) = at
      /\ \A i \in 1..(at - 1) : start[i] = s[i]
      /\ start[at] = e
  BY <1>1, <1>3
<1>5. InsertAt(s, at, e) = start \o back
  BY DEF InsertAt, front, back
<1>. HIDE DEF start
<1>6. InsertAt(s, at, e) \in Seq(S) /\ Len(InsertAt(s, at, e)) = Len(s) + 1
  BY <1>2, <1>4, <1>5
<1>7. ASSUME NEW i \in 1..(Len(s) + 1)
      PROVE  InsertAt(s, at, e)[i] = IF i < at THEN s[i]
                                     ELSE IF i = at THEN e ELSE s[i - 1]
  <2>1. CASE i <= at
    BY <2>1, <1>2, <1>4, <1>5
  <2>2. CASE i > at
    <3>1. InsertAt(s, at, e)[i] = back[i - at]
      BY <2>2, <1>2, <1>4, <1>5
    <3>2. back[i - at] = s[i - 1]
      BY <2>2, <1>2
    <3>. QED  BY <2>2, <3>1, <3>2
  <2>. QED  BY <2>1, <2>2
<1>. QED  BY <1>6, <1>7

(* Waiting time never grows as time passes, and never drops below zero.      *)
LEMMA LessIsLess ==
    /\ \A n \in Nat : Less(n) \in Nat /\ Less(n) <= n
    /\ Less(0) = 0
    /\ \A n, k \in Nat : n <= k => Less(n) <= Less(k)
BY DEF Less

LEMMA BoundsHold ==
    ASSUME NEW n \in Nat
    PROVE  /\ AtMost(AtLeast(n, SchedTick), IdlePoll) \in 0..IdlePoll
           /\ AtMost(AtLeast(n, SchedTick), IdlePoll) <= AtLeast(n, SchedTick)
BY WorkerAssumption DEF AtMost, AtLeast

-----------------------------------------------------------------------------
LEMMA InitIInv == Init => IInv
<1>. SUFFICES ASSUME Init PROVE IInv
  OBVIOUS
<1>. USE WorkerAssumption DEF Init
<1>1. <<>> \in Seq(Jobs) /\ Len(<<>>) = 0
  OBVIOUS
<1>2. left \in [Jobs -> 0..MaxDelay]
  OBVIOUS
<1>3. TypeOK
  BY <1>1, <1>2 DEF TypeOK
<1>4. RunsInTurn
  BY <1>1 DEF RunsInTurn
<1>5. BatchInv /\ WakesInTime /\ WarmInv
  BY <1>1 DEF BatchInv, WakesInTime, WarmInv
<1>. QED  BY <1>3, <1>4, <1>5 DEF IInv

-----------------------------------------------------------------------------
(* The steps, each with the parts of the invariant it can disturb.          *)

(* A job is sent only when the worker has none of that name, so the moments  *)
(* of what it has are left alone.                                            *)
LEMMA SendStep ==
    ASSUME IInv, NEW j \in Jobs, NEW what \in {"sound", "exec", "webhook"},
           NEW delay \in 0..MaxDelay, Send(j, what, delay)
    PROVE  IInv'
<1>. USE WorkerAssumption DEF IInv
<1>1. /\ channel' \in Seq(Jobs)
      /\ kind' \in [Jobs -> {"sound", "exec", "webhook"}]
      /\ left' \in [Jobs -> 0..MaxDelay]
  BY DEF Send, TypeOK
<1>2. UNCHANGED <<pending, pc, batch, job, wait, audio, age, warm>>
  BY DEF Send, device
<1>3. TypeOK'
  BY <1>1, <1>2 DEF TypeOK
<1>4. job # j /\ \A i \in 1..Len(pending) : pending[i] # j
  BY DEF Send, Outstanding, ToSet, TypeOK
<1>5. \A i \in 1..Len(pending) : pending[i] \in Jobs
  BY DEF TypeOK
<1>6. /\ \A i \in 1..Len(pending) : left'[pending[i]] = left[pending[i]]
      /\ job # None => left'[job] = left[job]
  BY <1>4, <1>5 DEF Send, TypeOK
<1>7. RunsInTurn'
  BY <1>2, <1>6 DEF RunsInTurn
<1>8. BatchInv'
  <2>1. \A i \in 1..batch : i \in 1..Len(pending)
    BY DEF TypeOK
  <2>2. \A i \in 1..batch : left'[pending[i]] = 0
    BY <2>1, <1>6 DEF BatchInv
  <2>. QED  BY <1>2, <2>2 DEF BatchInv
<1>9. WakesInTime'
  BY <1>2, <1>6 DEF WakesInTime
<1>10. WarmInv'
  BY <1>2 DEF WarmInv
<1>. QED  BY <1>3, <1>7, <1>8, <1>9, <1>10

(* Time takes the same from every moment, so their order stays.              *)
LEMMA TimeStep == ASSUME IInv, TimePasses PROVE IInv'
<1>. USE WorkerAssumption DEF IInv
<1>1. UNCHANGED <<channel, kind, pending, pc, batch, job, audio, warm>>
  BY DEF TimePasses, jobs
<1>2. \A j \in Jobs : left'[j] = Less(left[j]) /\ left[j] \in 0..MaxDelay
  BY DEF TimePasses, TypeOK
<1>3. /\ left' \in [Jobs -> 0..MaxDelay]
      /\ wait' = Less(wait) /\ wait' \in 0..IdlePoll
      /\ age' \in 0..(IdleTimeout + 1)
  BY DEF TimePasses, TypeOK, Less
<1>4. TypeOK'
  BY <1>1, <1>3 DEF TypeOK
<1>5. \A i \in 1..Len(pending) : pending[i] \in Jobs
  BY DEF TypeOK
<1>6. RunsInTurn'
  <2>1. ASSUME NEW i \in 1..Len(pending), NEW k \in 1..Len(pending), i < k
        PROVE  left'[pending[i]] <= left'[pending[k]]
    <3>1. left[pending[i]] <= left[pending[k]]
      BY <2>1 DEF RunsInTurn
    <3>2. left[pending[i]] \in Nat /\ left[pending[k]] \in Nat
      BY <1>2, <1>5
    <3>. QED  BY <3>1, <3>2, <1>2, <1>5, LessIsLess
  <2>2. job # None => left'[job] = 0
    BY <1>2, LessIsLess DEF RunsInTurn, TypeOK
  <2>. QED  BY <1>1, <2>1, <2>2 DEF RunsInTurn
<1>7. BatchInv'
  <2>1. \A i \in 1..batch : i \in 1..Len(pending)
    BY DEF TypeOK
  <2>2. \A i \in 1..batch : left'[pending[i]] = 0
    BY <2>1, <1>2, <1>5, LessIsLess DEF BatchInv
  <2>. QED  BY <1>1, <2>2 DEF BatchInv
<1>8. WakesInTime'
  <2>. SUFFICES ASSUME pc = "wait", NEW i \in 1..Len(pending)
                PROVE  wait' <= AtLeast(left'[pending[i]], SchedTick)
    BY <1>1 DEF WakesInTime
  <2>1. wait <= AtLeast(left[pending[i]], SchedTick)
    BY DEF WakesInTime
  <2>2. left[pending[i]] \in Nat /\ left'[pending[i]] = Less(left[pending[i]]) /\ wait \in Nat
    BY <1>2, <1>5 DEF TypeOK
  <2>. QED  BY <2>1, <2>2, <1>3 DEF AtLeast, Less
<1>9. WarmInv'
  BY <1>1 DEF WarmInv
<1>. QED  BY <1>4, <1>6, <1>7, <1>8, <1>9

LEMMA TurnStep == ASSUME IInv, Turn PROVE IInv'
<1>. USE DEF IInv
<1>1. PICK n \in 0..Len(pending) : Due(n) /\ batch' = n
  BY DEF Turn
<1>2. pc' = "due" /\ UNCHANGED <<channel, kind, pending, left, job, wait, audio, age, warm>>
  BY DEF Turn, jobs, device
<1>3. TypeOK'
  BY <1>1, <1>2 DEF TypeOK
<1>4. BatchInv'
  BY <1>1, <1>2 DEF BatchInv, Due
<1>5. RunsInTurn' /\ WakesInTime' /\ WarmInv'
  BY <1>2 DEF RunsInTurn, WakesInTime, WarmInv
<1>. QED  BY <1>3, <1>4, <1>5

(* The first of this turn's jobs leaves the list.                            *)
LEMMA RunDueStep == ASSUME IInv, RunDue PROVE IInv'
<1>. USE DEF IInv
<1>1. batch > 0 /\ batch \in Nat /\ pending \in Seq(Jobs) /\ batch <= Len(pending)
  BY DEF RunDue, TypeOK
<1>2. /\ pending' \in Seq(Jobs)
      /\ Len(pending') = Len(pending) - 1
      /\ \A i \in 1..Len(pending') : pending'[i] = pending[i + 1]
      /\ pending # <<>> /\ Head(pending) = pending[1] /\ pending[1] \in Jobs
  BY <1>1 DEF RunDue
<1>3. /\ pc' = "execute" /\ batch' = batch - 1 /\ job' = pending[1]
      /\ warm' = warm \ {pending[1]}
      /\ UNCHANGED <<channel, kind, left, wait, audio>>
  BY <1>2 DEF RunDue, Begin, jobs
<1>4. age' \in 0..(IdleTimeout + 1)
  BY WorkerAssumption DEF RunDue, Begin, TypeOK
<1>5. TypeOK'
  <2>1. batch' \in 0..Len(pending')
    BY <1>1, <1>2, <1>3
  <2>2. job' \in Jobs \cup {None} /\ warm' \subseteq Jobs
    BY <1>2, <1>3 DEF TypeOK
  <2>. QED  BY <2>1, <2>2, <1>2, <1>3, <1>4 DEF TypeOK
<1>6. left[pending[1]] = 0
  BY <1>1 DEF BatchInv
<1>7. RunsInTurn'
  <2>1. ASSUME NEW i \in 1..Len(pending'), NEW k \in 1..Len(pending'), i < k
        PROVE  left[pending'[i]] <= left[pending'[k]]
    BY <2>1, <1>1, <1>2 DEF RunsInTurn
  <2>. QED  BY <2>1, <1>3, <1>6 DEF RunsInTurn
<1>8. BatchInv'
  BY <1>1, <1>2, <1>3 DEF BatchInv
<1>9. WakesInTime'
  BY <1>3 DEF WakesInTime
<1>10. WarmInv'
  <2>1. ASSUME NEW j \in warm'
        PROVE  \E i \in 1..Len(pending') : pending'[i] = j
    <3>1. PICK i \in 1..Len(pending) : pending[i] = j
      BY <1>3 DEF WarmInv
    <3>2. i # 1
      BY <3>1, <1>3
    <3>3. i - 1 \in 1..Len(pending') /\ pending'[i - 1] = pending[i]
      BY <3>2, <1>1, <1>2
    <3>. QED  BY <3>1, <3>3
  <2>2. warm' # {} => audio' = "open"
    BY <1>3 DEF WarmInv
  <2>. QED  BY <2>1, <2>2 DEF WarmInv
<1>. QED  BY <1>5, <1>7, <1>8, <1>9, <1>10

(* The list is sorted, so the wait is short enough for every job in it.      *)
LEMMA SleepStep == ASSUME IInv, Sleep PROVE IInv'
<1>. USE DEF IInv
<1>1. pc' = "wait" /\ batch = 0
      /\ UNCHANGED <<channel, kind, pending, left, batch, job, audio, age, warm>>
  BY DEF Sleep, jobs, device
<1>2. \A i \in 1..Len(pending) : pending[i] \in Jobs /\ left[pending[i]] \in Nat
  BY DEF TypeOK
<1>3. CASE pending = <<>>
  <2>1. wait' = IdlePoll /\ Len(pending) = 0
    BY <1>3 DEF Sleep
  <2>2. wait' \in 0..IdlePoll
    BY <2>1, WorkerAssumption
  <2>. QED
    BY <1>1, <2>1, <2>2 DEF TypeOK, RunsInTurn, BatchInv, WakesInTime, WarmInv
<1>4. CASE pending # <<>>
  <2>1. 1 \in 1..Len(pending) /\ Head(pending) = pending[1]
    BY <1>4 DEF TypeOK
  <2>2. wait' = AtMost(AtLeast(left[pending[1]], SchedTick), IdlePoll)
    BY <1>4, <2>1 DEF Sleep
  <2>3. wait' \in 0..IdlePoll /\ wait' <= AtLeast(left[pending[1]], SchedTick)
    BY <1>2, <2>1, <2>2, BoundsHold
  <2>4. ASSUME NEW i \in 1..Len(pending)
        PROVE  wait' <= AtLeast(left[pending[i]], SchedTick)
    <3>1. left[pending[1]] <= left[pending[i]]
      BY <1>2, <2>1 DEF RunsInTurn
    <3>. QED  BY <3>1, <1>2, <2>1, <2>3, WorkerAssumption DEF AtLeast
  <2>5. TypeOK' /\ WakesInTime'
    BY <1>1, <2>3, <2>4 DEF TypeOK, WakesInTime
  <2>. QED  BY <1>1, <2>5 DEF RunsInTurn, BatchInv, WarmInv
<1>. QED  BY <1>3, <1>4

(* A job that is due on arrival is executed at once; the list stays.         *)
LEMMA ReceiveDueStep == ASSUME IInv, ReceiveDue PROVE IInv'
<1>. USE DEF IInv
<1>1. /\ channel' \in Seq(Jobs) /\ Head(channel) \in Jobs /\ left[Head(channel)] = 0
      /\ job' = Head(channel) /\ warm' = warm \ {Head(channel)}
      /\ pc' = "late" /\ batch = 0
      /\ UNCHANGED <<kind, pending, left, batch, wait, audio>>
  BY DEF ReceiveDue, Begin, TypeOK, BatchInv
<1>2. age' \in 0..(IdleTimeout + 1)
  BY WorkerAssumption DEF ReceiveDue, Begin, TypeOK
<1>3. TypeOK'
  BY <1>1, <1>2 DEF TypeOK
<1>4. RunsInTurn'
  BY <1>1 DEF RunsInTurn
<1>5. BatchInv' /\ WakesInTime' /\ WarmInv'
  BY <1>1 DEF BatchInv, WakesInTime, WarmInv
<1>. QED  BY <1>3, <1>4, <1>5

(* A job for later goes between those due before it and those due after.     *)
LEMMA ReceiveLaterStep == ASSUME IInv, ReceiveLater PROVE IInv'
<1>. USE DEF IInv
<1>. PICK j \in Jobs : j = Head(channel)
  BY DEF ReceiveLater, TypeOK
<1>1. /\ channel' \in Seq(Jobs) /\ pc' = "top" /\ batch = 0
      /\ UNCHANGED <<kind, left, batch, job, wait, age>>
  BY DEF ReceiveLater, TypeOK, BatchInv
<1>2. PICK at \in 1..(Len(pending) + 1) :
        /\ at > 1 => left[pending[at - 1]] <= left[j]
        /\ at <= Len(pending) => left[j] <= left[pending[at]]
        /\ pending' = InsertAt(pending, at, j)
  BY DEF ReceiveLater
<1>3. warm' = warm \/ (warm' = warm \cup {j} /\ audio' = "open")
  BY DEF ReceiveLater
<1>4. audio' \in {"open", audio}
  BY DEF ReceiveLater, EnsureAudio
<1>5. pending \in Seq(Jobs) /\ Len(pending) \in Nat
  BY DEF TypeOK
<1>6. /\ pending' \in Seq(Jobs)
      /\ Len(pending') = Len(pending) + 1
      /\ \A i \in 1..(Len(pending) + 1) :
           pending'[i] = IF i < at THEN pending[i]
                         ELSE IF i = at THEN j ELSE pending[i - 1]
  <2>1. /\ InsertAt(pending, at, j) \in Seq(Jobs)
        /\ Len(InsertAt(pending, at, j)) = Len(pending) + 1
    BY <1>5, InsertAtElements, Zenon
  <2>2. \A i \in 1..(Len(pending) + 1) :
            InsertAt(pending, at, j)[i] = IF i < at THEN pending[i]
                                          ELSE IF i = at THEN j ELSE pending[i - 1]
    BY <1>5, InsertAtElements
  <2>3. pending' = InsertAt(pending, at, j)
    BY <1>2
  <2>. QED  BY <2>1, <2>2, <2>3
<1>7. TypeOK'
  <2>1. batch' \in 0..Len(pending')
    BY <1>1, <1>5, <1>6
  <2>2. audio' \in {"open", "closed"} /\ warm' \subseteq Jobs
    BY <1>1, <1>3, <1>4 DEF TypeOK
  <2>. QED  BY <2>1, <2>2, <1>1, <1>6 DEF TypeOK
<1>8. RunsInTurn'
  <2>1. \A i \in 1..Len(pending) : left[pending[i]] \in Nat
    BY DEF TypeOK
  <2>2. left[j] \in Nat
    BY <1>1 DEF TypeOK
  <2>3. ASSUME NEW i \in 1..Len(pending), i < at
        PROVE  left[pending[i]] <= left[j]
    <3>1. at - 1 \in 1..Len(pending) /\ (i < at - 1 \/ i = at - 1)
      BY <2>3, <1>5
    <3>2. left[pending[i]] <= left[pending[at - 1]]
      BY <3>1, <2>1 DEF RunsInTurn
    <3>. QED  BY <3>1, <3>2, <1>2, <2>1, <2>2
  <2>4. ASSUME NEW i \in 1..Len(pending), i >= at
        PROVE  left[j] <= left[pending[i]]
    <3>1. at \in 1..Len(pending) /\ (at < i \/ i = at)
      BY <2>4, <1>5
    <3>2. left[pending[at]] <= left[pending[i]]
      BY <3>1, <2>1 DEF RunsInTurn
    <3>. QED  BY <3>1, <3>2, <1>2, <2>1, <2>2
  <2>5. ASSUME NEW i \in 1..Len(pending'), NEW k \in 1..Len(pending'), i < k
        PROVE  left[pending'[i]] <= left[pending'[k]]
    <3>. i \in 1..(Len(pending) + 1) /\ k \in 1..(Len(pending) + 1)
      BY <1>6
    <3>1. CASE k < at
      <4>1. /\ i \in 1..Len(pending) /\ k \in 1..Len(pending)
            /\ pending'[i] = pending[i] /\ pending'[k] = pending[k]
        BY <3>1, <2>5, <1>5, <1>6
      <4>. QED  BY <4>1, <2>5 DEF RunsInTurn
    <3>2. CASE k = at
      <4>1. i \in 1..Len(pending) /\ i < at /\ pending'[i] = pending[i] /\ pending'[k] = j
        BY <3>2, <2>5, <1>5, <1>6
      <4>. QED  BY <4>1, <2>3
    <3>3. CASE k > at
      <4>1. k - 1 \in 1..Len(pending) /\ k - 1 >= at /\ pending'[k] = pending[k - 1]
        BY <3>3, <1>5, <1>6
      <4>2. CASE i < at
        <5>1. i \in 1..Len(pending) /\ i < k - 1 /\ pending'[i] = pending[i]
          BY <4>2, <4>1, <1>5, <1>6
        <5>. QED  BY <5>1, <4>1 DEF RunsInTurn
      <4>3. CASE i = at
        BY <4>3, <4>1, <1>6, <2>4
      <4>4. CASE i > at
        <5>1. i - 1 \in 1..Len(pending) /\ i - 1 < k - 1 /\ pending'[i] = pending[i - 1]
          BY <4>4, <2>5, <1>5, <1>6
        <5>. QED  BY <5>1, <4>1 DEF RunsInTurn
      <4>. QED  BY <4>2, <4>3, <4>4
    <3>. QED  BY <3>1, <3>2, <3>3
  <2>6. job # None => left[job] = 0
    BY DEF RunsInTurn
  <2>. QED  BY <1>1, <2>5, <2>6 DEF RunsInTurn
<1>9. BatchInv' /\ WakesInTime'
  BY <1>1 DEF BatchInv, WakesInTime
<1>10. WarmInv'
  <2>1. pending'[at] = j /\ at \in 1..Len(pending')
    BY <1>5, <1>6
  <2>2. ASSUME NEW h \in warm
        PROVE  \E i \in 1..Len(pending') : pending'[i] = h
    <3>1. PICK i \in 1..Len(pending) : pending[i] = h
      BY DEF WarmInv
    <3>2. CASE i < at
      BY <3>1, <3>2, <1>5, <1>6
    <3>3. CASE i >= at
      <4>1. i + 1 \in 1..Len(pending') /\ pending'[i + 1] = pending[i]
        BY <3>3, <1>5, <1>6
      <4>. QED  BY <3>1, <4>1
    <3>. QED  BY <3>2, <3>3
  <2>3. warm' # {} => audio' = "open"
    BY <1>3, <1>4 DEF WarmInv
  <2>. QED  BY <1>3, <2>1, <2>2, <2>3 DEF WarmInv
<1>. QED  BY <1>7, <1>8, <1>9, <1>10

(* The device is released only when nothing is pending, so no sound waits.   *)
LEMMA TimeoutStep == ASSUME IInv, Timeout PROVE IInv'
<1>. USE DEF IInv
<1>1. /\ pc' = "top" /\ batch = 0
      /\ UNCHANGED <<channel, kind, pending, left, batch, job, wait, age, warm>>
  BY DEF Timeout, BatchInv, jobs
<1>2. audio' = audio \/ (audio' = "closed" /\ pending = <<>>)
  BY DEF Timeout
<1>3. TypeOK'
  BY <1>1, <1>2 DEF TypeOK
<1>4. RunsInTurn' /\ BatchInv' /\ WakesInTime'
  BY <1>1 DEF RunsInTurn, BatchInv, WakesInTime
<1>5. WarmInv'
  <2>1. pending = <<>> => warm = {}
    BY DEF WarmInv
  <2>. QED  BY <1>1, <1>2, <2>1 DEF WarmInv
<1>. QED  BY <1>3, <1>4, <1>5

LEMMA FinishStep == ASSUME IInv, Finish PROVE IInv'
<1>. USE DEF IInv
<1>1. /\ job' = None /\ audio' \in {"open", audio}
      /\ UNCHANGED <<channel, kind, pending, left, batch, wait, age, warm>>
  BY DEF Finish, EnsureAudio, jobs
<1>2. pc' = "due" \/ (pc' = "top" /\ batch = 0)
  BY DEF Finish, BatchInv
<1>3. TypeOK'
  BY <1>1, <1>2 DEF TypeOK
<1>4. RunsInTurn' /\ BatchInv' /\ WakesInTime' /\ WarmInv'
  BY <1>1, <1>2 DEF RunsInTurn, BatchInv, WakesInTime, WarmInv
<1>. QED  BY <1>3, <1>4

-----------------------------------------------------------------------------
LEMMA NextIInv == IInv /\ [Next]_vars => IInv'
<1>. SUFFICES ASSUME IInv, [Next]_vars PROVE IInv'
  OBVIOUS
<1>1. CASE UNCHANGED vars
  BY <1>1 DEF vars, jobs, device, IInv, TypeOK, RunsInTurn, BatchInv, WakesInTime, WarmInv
<1>2. CASE Worker
  BY <1>2, TurnStep, RunDueStep, SleepStep, ReceiveDueStep, ReceiveLaterStep, TimeoutStep,
     FinishStep DEF Worker
<1>. QED  BY <1>1, <1>2, SendStep, TimeStep DEF Next

LEMMA Inductive == Spec => []IInv
BY InitIInv, NextIInv, PTL DEF Spec

(* The list and the batch taken from it stay well formed                     *)
(* (actions.rs:368-415).                                                     *)
THEOREM TypeCorrect == Spec => []TypeOK
<1>. IInv => TypeOK
  BY DEF IInv
<1>. QED  BY Inductive, PTL

(* For any delays and any number of jobs, jobs leave the list in the order   *)
(* in which they are due and none is executed early (actions.rs:373, 398).   *)
THEOREM RunsInTurnHolds == Spec => []RunsInTurn
<1>. IInv => RunsInTurn
  BY DEF IInv
<1>. QED  BY Inductive, PTL

(* The worker never sleeps past the moment of any pending job by more than a *)
(* tick, whatever the tick and the idle poll are (actions.rs:379-383).       *)
THEOREM WakesInTimeHolds == Spec => []WakesInTime
<1>. IInv => WakesInTime
  BY DEF IInv
<1>. QED  BY Inductive, PTL

(* A sound the device was opened for in advance finds it open: no release    *)
(* comes in between (actions.rs:390-396, 405-408).                           *)
THEOREM DeviceWaits == Spec => []DeviceWaitsForSound
<1>. IInv => DeviceWaitsForSound
  BY DEF IInv, WarmInv, DeviceWaitsForSound
<1>. QED  BY Inductive, PTL

-----------------------------------------------------------------------------
(* The executor (Executor).                                                *)
(* The files of a finite set have an order, and Sorted is it.                *)
LEMMA AddLargest ==
    ASSUME NEW S, NEW n \in Nat, NEW s \in [1..n -> S], NEW m \in S,
           S \subseteq Nat,
           \A i, j \in 1..n : i < j => s[i] < s[j],
           \A i \in 1..n : s[i] < m
    PROVE  \E t \in [1..(n + 1) -> S] : \A i, j \in 1..(n + 1) : i < j => t[i] < t[j]
<1>. DEFINE t == [i \in 1..(n + 1) |-> IF i = n + 1 THEN m ELSE s[i]]
<1>1. t \in [1..(n + 1) -> S]
  OBVIOUS
<1>2. ASSUME NEW i \in 1..(n + 1), NEW j \in 1..(n + 1), i < j
      PROVE  t[i] < t[j]
  <2>1. i \in 1..n /\ t[i] = s[i]
    BY <1>2
  <2>2. CASE j = n + 1
    BY <2>1, <2>2
  <2>3. CASE j # n + 1
    BY <2>1, <2>3, <1>2
  <2>. QED  BY <2>2, <2>3
<1>. QED  BY <1>1, <1>2

LEMMA LargestElement ==
    ASSUME NEW S, S \subseteq Nat, IsFiniteSet(S), S # {}
    PROVE  \E m \in S : \A x \in S : x <= m
<1>. DEFINE n == Cardinality(S)
<1>1. n \in Nat /\ n # 0
  BY FS_CardinalityType, FS_EmptySet
<1>2. PICK f \in [1..n -> S] : \A x \in S : \E i \in 1..n : f[i] = x
  <2>1. PICK f \in Bijection(1..n, S) : TRUE
    BY FS_CardinalityType DEF ExistsBijection
  <2>. QED  BY <2>1, Zenon DEF Bijection, Surjection
<1>. HIDE DEF n
<1>3. f \in [1..n -> Int]
  <2>1. \A i \in 1..n : f[i] \in S
    OBVIOUS
  <2>2. \A x \in S : x \in Int
    OBVIOUS
  <2>. QED  BY <2>1, <2>2, Zenon
<1>4. PICK i \in 1..n : \A j \in 1..n : f[j] <= f[i]
  BY <1>1, <1>3, LargestNumber
<1>5. f[i] \in S /\ \A x \in S : x <= f[i]
  BY <1>2, <1>4
<1>. QED  BY <1>5

LEMMA OrderExists ==
    ASSUME NEW S, S \subseteq Nat, IsFiniteSet(S)
    PROVE  \E s \in [1..Cardinality(S) -> S] :
                \A i, j \in 1..Cardinality(S) : i < j => s[i] < s[j]
<1>. DEFINE Ordered(T) == \E s \in [1..Cardinality(T) -> T] :
                              \A i, j \in 1..Cardinality(T) : i < j => s[i] < s[j]
            N == {n \in Nat : \A T \in SUBSET S : IsFiniteSet(T) /\ Cardinality(T) = n => Ordered(T)}
<1>1. 0 \in N
  <2>. SUFFICES ASSUME NEW T \in SUBSET S, IsFiniteSet(T), Cardinality(T) = 0
                PROVE  Ordered(T)
    OBVIOUS
  <2>1. T = {}
    BY FS_EmptySet
  <2>2. <<>> \in [1..0 -> T] /\ \A i, j \in 1..0 : i < j => <<>>[i] < <<>>[j]
    OBVIOUS
  <2>. QED  BY <2>2
<1>2. ASSUME NEW n \in Nat, n \in N
      PROVE  n + 1 \in N
  <2>. SUFFICES ASSUME NEW T \in SUBSET S, IsFiniteSet(T), Cardinality(T) = n + 1
                PROVE  Ordered(T)
    OBVIOUS
  <2>1. T # {} /\ T \subseteq Nat
    <3>1. T # {}
      <4>1. Cardinality({}) = 0 /\ n + 1 # 0
        BY FS_EmptySet
      <4>. QED  BY <4>1
    <3>. QED  BY <3>1
  <2>2. PICK m \in T : \A x \in T : x <= m
    BY <2>1, LargestElement
  <2>. DEFINE U == T \ {m}
  <2>3. IsFiniteSet(U) /\ Cardinality(U) = n
    <3>1. IsFiniteSet(U) /\ Cardinality(U) = Cardinality(T) - 1
      BY FS_RemoveElement
    <3>. QED  BY <3>1
  <2>4. Ordered(U)
    BY <1>2, <2>3
  <2>5. PICK s \in [1..n -> U] : \A i, j \in 1..n : i < j => s[i] < s[j]
    BY <2>3, <2>4
  <2>6. s \in [1..n -> T] /\ \A i \in 1..n : s[i] < m
    <3>1. \A x \in U : x < m /\ x \in T
      BY <2>1, <2>2
    <3>. HIDE DEF U
    <3>2. \A i \in 1..n : s[i] \in U
      BY <2>5
    <3>. QED  BY <2>5, <3>1, <3>2
  <2>7. \E t \in [1..(n + 1) -> T] : \A i, j \in 1..(n + 1) : i < j => t[i] < t[j]
    BY <2>1, <2>5, <2>6, AddLargest
  <2>. QED  BY <2>7
<1>3. Nat \subseteq N
  <2>. HIDE DEF N
  <2>. QED  BY <1>1, <1>2, SetInduction
<1>4. Cardinality(S) \in N
  BY <1>3, FS_CardinalityType
<1>. QED  BY <1>4

LEMMA SortedFacts ==
    ASSUME NEW files, files \subseteq Nat, IsFiniteSet(files)
    PROVE  /\ Sorted(files) \in Seq(files)
           /\ Len(Sorted(files)) = Cardinality(files)
           /\ \A i, j \in DOMAIN Sorted(files) : i < j => Sorted(files)[i] < Sorted(files)[j]
           /\ ToSet(Sorted(files)) = files
<1>. DEFINE n == Cardinality(files)
            s == Sorted(files)
<1>1. n \in Nat
  BY FS_CardinalityType
<1>2. s \in [1..n -> files] /\ \A i, j \in DOMAIN s : i < j => s[i] < s[j]
  <2>1. \E t \in [1..n -> files] : \A i, j \in 1..n : i < j => t[i] < t[j]
    BY OrderExists
  <2>2. \E t \in [1..n -> files] : \A i, j \in DOMAIN t : i < j => t[i] < t[j]
    BY <2>1
  <2>. QED  BY <2>2 DEF Sorted
<1>. HIDE DEF n, s
<1>3. s \in Seq(files) /\ Len(s) = n
  BY <1>1, <1>2
<1>4. s \in Surjection(1..n, files)
  <2>1. \A i, j \in 1..n : s[i] = s[j] => i = j
    <3>1. DOMAIN s = 1..n /\ \A i \in 1..n : s[i] \in Nat
      BY <1>2
    <3>2. \A i, j \in 1..n : i < j => s[i] # s[j]
      BY <1>2, <3>1
    <3>. QED  BY <3>2
  <2>2. s \in Injection(1..n, files)
    BY <1>2, <2>1 DEF Injection, IsInjective
  <2>3. IsFiniteSet(1..n) /\ Cardinality(1..n) = n
    BY <1>1, FS_Interval
  <2>4. Cardinality(1..n) = Cardinality(files)
    BY <2>3 DEF n
  <2>. QED  BY <2>2, <2>4, FS_Injection
<1>5. ToSet(s) = files
  BY <1>2, <1>4 DEF Surjection, ToSet
<1>. QED  BY <1>2, <1>3, <1>5 DEF n, s

-----------------------------------------------------------------------------
LEMMA ConcatSet ==
    ASSUME NEW S, NEW s \in Seq(S), NEW t \in Seq(S)
    PROVE  s \o t \in Seq(S) /\ ToSet(s \o t) = ToSet(s) \cup ToSet(t)
<1>1. s \o t \in Seq(S) /\ Len(s \o t) = Len(s) + Len(t)
  OBVIOUS
<1>2. /\ \A i \in 1..Len(s) : (s \o t)[i] = s[i]
      /\ \A i \in 1..Len(t) : (s \o t)[Len(s) + i] = t[i]
      /\ \A i \in 1..(Len(s) + Len(t)) : i > Len(s) => (s \o t)[i] = t[i - Len(s)]
  OBVIOUS
<1>3. /\ DOMAIN s = 1..Len(s) /\ DOMAIN t = 1..Len(t) /\ Len(s) \in Nat /\ Len(t) \in Nat
      /\ DOMAIN (s \o t) = 1..(Len(s) + Len(t))
  BY <1>1
<1>4. ASSUME NEW i \in 1..(Len(s) + Len(t))
      PROVE  (s \o t)[i] \in ToSet(s) \cup ToSet(t)
  <2>1. CASE i \in 1..Len(s)
    BY <1>2, <1>3, <2>1, Zenon DEF ToSet
  <2>2. CASE i > Len(s)
    <3>1. i - Len(s) \in 1..Len(t)
      BY <1>3, <2>2
    <3>. QED  BY <1>2, <1>3, <2>2, <3>1, Zenon DEF ToSet
  <2>. QED  BY <1>3, <2>1, <2>2
<1>5. ASSUME NEW i \in 1..Len(s)
      PROVE  s[i] \in ToSet(s \o t)
  <2>1. i \in 1..(Len(s) + Len(t))
    BY <1>3
  <2>. QED  BY <1>2, <1>3, <2>1, Zenon DEF ToSet
<1>6. ASSUME NEW i \in 1..Len(t)
      PROVE  t[i] \in ToSet(s \o t)
  <2>1. Len(s) + i \in 1..(Len(s) + Len(t))
    BY <1>3
  <2>. QED  BY <1>2, <1>3, <2>1, Zenon DEF ToSet
<1>. QED  BY <1>1, <1>3, <1>4, <1>5, <1>6, Zenon DEF ToSet

(* A list of lists, one after the other.                                    *)
LEMMA FlattenFacts ==
    ASSUME NEW S, NEW seqs \in Seq(Seq(S))
    PROVE  /\ FlattenSeq(seqs) \in Seq(S)
           /\ ToSet(FlattenSeq(seqs)) = UNION {ToSet(seqs[i]) : i \in DOMAIN seqs}
<1>. DEFINE L == Len(seqs)
            flat == CHOOSE f : f = [i \in 1..L |-> IF i = 1 THEN seqs[i] ELSE f[i - 1] \o seqs[i]]
<1>1. CASE L = 0
  <2>1. seqs = <<>> /\ FlattenSeq(seqs) = <<>>
    BY <1>1 DEF FlattenSeq
  <2>2. <<>> \in Seq(S) /\ DOMAIN seqs = {}
    BY <2>1
  <2>. QED  BY <2>1, <2>2 DEF ToSet
<1>2. CASE L # 0
  <2>1. L \in Nat /\ L >= 1 /\ DOMAIN seqs = 1..L
    BY <1>2
  <2>2. \A i \in 1..L : seqs[i] \in Seq(S)
    OBVIOUS
  <2>3. FlattenSeq(seqs) = flat[L]
    BY <1>2 DEF FlattenSeq
  <2>. HIDE DEF L
  <2>4. flat = [i \in 1..L |-> IF i = 1 THEN seqs[i] ELSE flat[i - 1] \o seqs[i]]
    <3>. DEFINE F == [p \in (1..L) \X Seq(S) |-> p[2] \o seqs[p[1]]]
    <3>1. F \in [(1..L) \X Seq(S) -> Seq(S)]
      BY <2>2
    <3>2. \A i \in 1..L, s \in Seq(S) : F[<<i, s>>] = s \o seqs[i]
      OBVIOUS
    <3>3. seqs[1] \in Seq(S) /\ 1 \in Int /\ L \in Int /\ 1 <= L
      BY <2>1, <2>2
    <3>. HIDE DEF F
    <3>4. PICK f \in [1..L -> Seq(S)] : Recursive(f, 1, L, seqs[1], F)
      BY <3>1, <3>3, RecursiveFunction, Zenon
    <3>5. ASSUME NEW i \in 1..L
          PROVE  f[i] = IF i = 1 THEN seqs[i] ELSE f[i - 1] \o seqs[i]
      <4>1. CASE i = 1
        BY <3>4, <4>1 DEF Recursive
      <4>2. CASE i # 1
        <5>1. i - 1 \in 1..L
          BY <2>1, <4>2
        <5>2. F[<<i, f[i - 1]>>] = f[i - 1] \o seqs[i]
          BY <3>2, <5>1
        <5>. QED  BY <3>4, <4>2, <5>2 DEF Recursive
      <4>. QED  BY <4>1, <4>2
    <3>. QED  BY <3>5, Zenon
  <2>. DEFINE Of(i) == UNION {ToSet(seqs[j]) : j \in 1..i}
              Good == {i \in 1..L : flat[i] \in Seq(S) /\ ToSet(flat[i]) = Of(i)}
  <2>. HIDE DEF flat
  <2>5. 1 \in Good
    <3>1. flat[1] = seqs[1] /\ 1 \in 1..L
      BY <2>1, <2>4
    <3>2. Of(1) = ToSet(seqs[1])
      OBVIOUS
    <3>. QED  BY <2>2, <3>1, <3>2
  <2>6. ASSUME NEW i \in 1..(L - 1), i \in Good
        PROVE  i + 1 \in Good
    <3>1. i + 1 \in 1..L /\ flat[i + 1] = flat[i] \o seqs[i + 1]
      <4>1. i + 1 \in 1..L /\ i + 1 # 1 /\ (i + 1) - 1 = i
        BY <2>1
      <4>2. flat[i + 1] = IF i + 1 = 1 THEN seqs[i + 1] ELSE flat[(i + 1) - 1] \o seqs[i + 1]
        BY <2>4, <4>1, Zenon
      <4>. QED  BY <4>1, <4>2
    <3>2. flat[i] \in Seq(S) /\ seqs[i + 1] \in Seq(S)
      BY <2>2, <2>6, <3>1
    <3>3. /\ flat[i] \o seqs[i + 1] \in Seq(S)
          /\ ToSet(flat[i] \o seqs[i + 1]) = ToSet(flat[i]) \cup ToSet(seqs[i + 1])
      BY <3>2, ConcatSet
    <3>4. Of(i + 1) = Of(i) \cup ToSet(seqs[i + 1])
      <4>1. 1..(i + 1) = 1..i \cup {i + 1}
        OBVIOUS
      <4>. QED  BY <4>1, Zenon
    <3>5. ToSet(flat[i]) = Of(i) /\ ToSet(flat[i + 1]) = Of(i + 1)
      BY <2>6, <3>1, <3>3, <3>4
    <3>. HIDE DEF Of
    <3>. QED  BY <3>1, <3>2, <3>3, <3>5
  <2>7. L \in Good
    <3>1. 1 \in Int /\ L \in Int /\ L \in 1..L
      BY <2>1
    <3>. HIDE DEF Good
    <3>2. 1..L \subseteq Good
      BY <2>5, <2>6, <3>1, IntervalInduction
    <3>. QED  BY <3>1, <3>2
  <2>. QED  BY <2>1, <2>3, <2>7
<1>. QED  BY <1>1, <1>2

-----------------------------------------------------------------------------
(* A list without duplicates stays one.                                     *)
Distinct(s) == \A i, j \in DOMAIN s : s[i] = s[j] => i = j

LEMMA Append1Facts ==
    ASSUME NEW S, NEW out \in Seq(S), NEW file \in S, Distinct(out)
    PROVE  /\ Append1(out, file) \in Seq(S)
           /\ Distinct(Append1(out, file))
           /\ ToSet(Append1(out, file)) = ToSet(out) \cup {file}
<1>1. CASE file \in ToSet(out)
  BY <1>1 DEF Append1
<1>2. CASE file \notin ToSet(out)
  <2>. DEFINE t == Append(out, file)
              n == Len(out)
  <2>1. Append1(out, file) = t
    BY <1>2 DEF Append1
  <2>2. t \in Seq(S) /\ n \in Nat /\ DOMAIN out = 1..n /\ DOMAIN t = 1..(n + 1)
    OBVIOUS
  <2>3. (\A i \in 1..n : t[i] = out[i]) /\ t[n + 1] = file
    OBVIOUS
  <2>4. \A i \in 1..n : out[i] # file
    BY <1>2 DEF ToSet
  <2>. HIDE DEF t, n
  <2>5. \A i \in 1..(n + 1) : i \in 1..n \/ i = n + 1
    BY <2>2
  <2>6. n + 1 \in 1..(n + 1) /\ 1..n \subseteq 1..(n + 1)
    BY <2>2
  <2>7. Distinct(t)
    BY <2>2, <2>3, <2>4, <2>5, Zenon DEF Distinct
  <2>8. ToSet(t) = ToSet(out) \cup {file}
    BY <2>2, <2>3, <2>5, <2>6, Zenon DEF ToSet
  <2>. QED  BY <2>1, <2>2, <2>7, <2>8
<1>. QED  BY <1>1, <1>2

LEMMA ResolveFacts ==
    ASSUME NEW there \in SUBSET Files, NEW entry \in Files \cup {Folder}
    PROVE  /\ Resolve(entry, there) \in Seq(there)
           /\ ToSet(Resolve(entry, there)) = {file \in there : entry = Folder \/ entry = file}
<1>. USE ExecutorAssumption
<1>1. CASE entry = Folder
  <2>1. there \subseteq Nat /\ IsFiniteSet(there)
    BY FS_Subset
  <2>2. Sorted(there) \in Seq(there) /\ ToSet(Sorted(there)) = there
    BY <2>1, SortedFacts
  <2>. QED  BY <1>1, <2>2 DEF Resolve
<1>2. CASE entry # Folder /\ entry \in there
  <2>1. Resolve(entry, there) = <<entry>>
    BY <1>2 DEF Resolve
  <2>2. <<entry>> \in Seq(there) /\ ToSet(<<entry>>) = {entry}
    BY <1>2 DEF ToSet
  <2>. QED  BY <1>2, <2>1, <2>2
<1>3. CASE entry # Folder /\ entry \notin there
  <2>1. Resolve(entry, there) = <<>>
    BY <1>3 DEF Resolve
  <2>2. <<>> \in Seq(there) /\ ToSet(<<>>) = {}
    BY DEF ToSet
  <2>. QED  BY <1>3, <2>1, <2>2
<1>. QED  BY <1>1, <1>2, <1>3

(* A playlist has no file twice, and exactly the files that exist and that an *)
(* entry names or a folder holds.                                            *)
LEMMA PlaylistFacts ==
    ASSUME NEW there \in SUBSET Files, NEW paths \in Seq(Files \cup {Folder})
    PROVE  /\ Playlist(paths, there) \in Seq(there)
           /\ Distinct(Playlist(paths, there))
           /\ ToSet(Playlist(paths, there)) =
                {file \in there : \E i \in DOMAIN paths : paths[i] = Folder \/ paths[i] = file}
<1>. DEFINE lists == [i \in DOMAIN paths |-> Resolve(paths[i], there)]
            found == FlattenSeq(lists)
            L == Len(found)
            out == CHOOSE f : f = [n \in 0..L |-> IF n = 0 THEN <<>> ELSE Append1(f[n - 1], found[n])]
            wanted == {file \in there : \E i \in DOMAIN paths : paths[i] = Folder \/ paths[i] = file}
<1>1. lists \in Seq(Seq(there)) /\ DOMAIN lists = DOMAIN paths
  <2>1. \A i \in DOMAIN paths : paths[i] \in Files \cup {Folder}
    OBVIOUS
  <2>2. \A i \in DOMAIN paths : Resolve(paths[i], there) \in Seq(there)
    BY <2>1, ResolveFacts
  <2>. QED  BY <2>2
<1>2. found \in Seq(there) /\ ToSet(found) = wanted
  <2>. HIDE DEF lists
  <2>1. found \in Seq(there) /\ ToSet(found) = UNION {ToSet(lists[i]) : i \in DOMAIN paths}
    BY <1>1, FlattenFacts
  <2>2. ASSUME NEW i \in DOMAIN paths
        PROVE  ToSet(lists[i]) = {file \in there : paths[i] = Folder \/ paths[i] = file}
    <3>1. paths[i] \in Files \cup {Folder}
      OBVIOUS
    <3>. QED  BY <3>1, ResolveFacts DEF lists
  <2>. QED  BY <2>1, <2>2
<1>3. Playlist(paths, there) = out[L]
  BY DEF Playlist
<1>. HIDE DEF lists, found
<1>4. L \in Nat /\ 0 <= L /\ L \in 0..L /\ DOMAIN found = 1..L /\ \A n \in 1..L : found[n] \in there
  BY <1>2
<1>. HIDE DEF L
<1>5. out = [n \in 0..L |-> IF n = 0 THEN <<>> ELSE Append1(out[n - 1], found[n])]
  <2>. DEFINE T == Seq(there)
              F == [p \in (0..L) \X T |-> IF p[1] = 0 THEN <<>> ELSE Append1(p[2], found[p[1]])]
  <2>1. <<>> \in T
    OBVIOUS
  <2>2. \A n \in 1..L, s \in T : Append1(s, found[n]) \in T
    BY <1>4 DEF Append1
  <2>3. 0 \in Int /\ L \in Int /\ 0 <= L
    BY <1>4
  <2>. HIDE DEF T
  <2>4. \A n \in 0..L, s \in T : F[<<n, s>>] = IF n = 0 THEN <<>> ELSE Append1(s, found[n])
    OBVIOUS
  <2>5. F \in [(0..L) \X T -> T]
    <3>1. \A p \in (0..L) \X T : p[1] # 0 => p[1] \in 1..L /\ p[2] \in T
      BY <1>4
    <3>. QED  BY <2>1, <2>2, <3>1
  <2>. HIDE DEF F
  <2>6. PICK f \in [0..L -> T] : Recursive(f, 0, L, <<>>, F)
    BY <2>1, <2>3, <2>5, RecursiveFunction, Zenon
  <2>7. ASSUME NEW n \in 0..L
        PROVE  f[n] = IF n = 0 THEN <<>> ELSE Append1(f[n - 1], found[n])
    <3>1. CASE n = 0
      BY <2>6, <3>1 DEF Recursive
    <3>2. CASE n # 0
      <4>1. n - 1 \in 0..L
        BY <1>4, <3>2
      <4>2. F[<<n, f[n - 1]>>] = Append1(f[n - 1], found[n])
        BY <2>4, <3>2, <4>1
      <4>. QED  BY <2>6, <3>2, <4>2 DEF Recursive
    <3>. QED  BY <3>1, <3>2
  <2>. QED  BY <2>7, Zenon
<1>. DEFINE Good == {n \in 0..L : /\ out[n] \in Seq(there) /\ Distinct(out[n])
                                  /\ ToSet(out[n]) = {found[k] : k \in 1..n}}
<1>. HIDE DEF out
<1>6. 0 \in Good
  <2>1. out[0] = <<>> /\ 0 \in 0..L
    BY <1>4, <1>5
  <2>2. <<>> \in Seq(there) /\ Distinct(<<>>) /\ ToSet(<<>>) = {}
    BY DEF Distinct, ToSet
  <2>3. 1..0 = {}
    OBVIOUS
  <2>. QED  BY <2>1, <2>2, <2>3
<1>7. ASSUME NEW n \in 0..(L - 1), n \in Good
      PROVE  n + 1 \in Good
  <2>1. n + 1 \in 0..L /\ n + 1 \in 1..L /\ n + 1 # 0 /\ (n + 1) - 1 = n
    BY <1>4
  <2>2. out[n + 1] = Append1(out[n], found[n + 1])
    <3>1. out[n + 1] = IF n + 1 = 0 THEN <<>> ELSE Append1(out[(n + 1) - 1], found[n + 1])
      BY <1>5, <2>1, Zenon
    <3>. QED  BY <2>1, <3>1
  <2>3. /\ out[n] \in Seq(there) /\ Distinct(out[n])
        /\ ToSet(out[n]) = {found[k] : k \in 1..n}
    BY <1>7
  <2>4. found[n + 1] \in there
    BY <1>4, <2>1
  <2>5. /\ out[n + 1] \in Seq(there) /\ Distinct(out[n + 1])
        /\ ToSet(out[n + 1]) = ToSet(out[n]) \cup {found[n + 1]}
    BY <2>2, <2>3, <2>4, Append1Facts
  <2>6. {found[k] : k \in 1..(n + 1)} = {found[k] : k \in 1..n} \cup {found[n + 1]}
    <3>1. 1..(n + 1) = 1..n \cup {n + 1}
      BY <1>4
    <3>. QED  BY <3>1, Zenon
  <2>7. ToSet(out[n + 1]) = {found[k] : k \in 1..(n + 1)}
    BY <2>3, <2>5, <2>6
  <2>. QED  BY <2>1, <2>5, <2>7
<1>8. L \in Good
  <2>1. 0 \in Int /\ L \in Int
    BY <1>4
  <2>. HIDE DEF Good
  <2>2. 0..L \subseteq Good
    BY <1>6, <1>7, <2>1, IntervalInduction
  <2>. QED  BY <1>4, <2>2
<1>9. {found[k] : k \in 1..L} = wanted
  BY <1>2, <1>4 DEF ToSet
<1>. QED  BY <1>3, <1>8, <1>9

-----------------------------------------------------------------------------
(* A configuration that is taken over.                                      *)
LEMMA NormalizeFacts ==
    ASSUME NEW a \in Actions
    PROVE  Normalize(a) \in Actions /\ Normalize(a).id = a.id
<1>1. CASE a.kind # "sound"
  BY <1>1 DEF Normalize
<1>2. CASE a.kind = "sound"
  <2>. DEFINE p == IF a.paths = <<>> /\ a.path # Unset THEN <<a.path>> ELSE a.paths
              b == [a EXCEPT !.paths = p, !.path = Unset]
  <2>1. p \in Seq(Files \cup {Folder})
    <3>1. a.paths \in Seq(Files \cup {Folder}) /\ a.path \in Files \cup {Folder, Unset}
      BY DEF Actions
    <3>2. a.path # Unset => <<a.path>> \in Seq(Files \cup {Folder})
      BY <3>1
    <3>. QED  BY <3>1, <3>2
  <2>2. Normalize(a) = b
    BY <1>2 DEF Normalize
  <2>. HIDE DEF p
  <2>3. b \in Actions /\ b.id = a.id
    BY <2>1 DEF Actions
  <2>. QED  BY <2>2, <2>3
<1>. QED  BY <1>1, <1>2

LEMMA TakenOver ==
    ASSUME NEW raw \in Raw, Valid(raw), NEW c, c = [i \in DOMAIN raw |-> Normalize(raw[i])]
    PROVE  /\ c \in Seq(Actions)
           /\ \A i, j \in DOMAIN c : c[i].id = c[j].id => i = j
<1>1. raw \in Seq(Actions)
  BY ExecutorAssumption
<1>2. \A i \in DOMAIN raw : raw[i] \in Actions
  BY <1>1
<1>3. \A i \in DOMAIN raw : c[i] \in Actions /\ c[i].id = raw[i].id
  BY <1>2, NormalizeFacts
<1>4. c \in Seq(Actions) /\ DOMAIN c = DOMAIN raw
  BY <1>1, <1>3
<1>. QED  BY <1>3, <1>4 DEF Valid

(* The list of an action, and what is wanted of it.                         *)
LEMMA ListFacts ==
    ASSUME ExecTypeOK, NEW i \in DOMAIN config
    PROVE  /\ List(config[i]) \in Seq(Files)
           /\ Distinct(List(config[i]))
           /\ config[i].kind = "sound" => ToSet(List(config[i])) \subseteq Wanted(config, disk)
<1>1. config[i] \in Actions
  BY DEF ExecTypeOK
<1>2. config[i].paths \in Seq(Files \cup {Folder}) /\ disk \in SUBSET Files
  BY <1>1 DEF Actions, ExecTypeOK
<1>3. List(config[i]) \in Seq(disk) /\ Distinct(List(config[i]))
  BY <1>2, PlaylistFacts DEF List
<1>4. List(config[i]) \in Seq(Files)
  BY <1>2, <1>3
<1>5. config[i].kind = "sound" => ToSet(List(config[i])) \subseteq Wanted(config, disk)
  BY Zenon DEF Wanted, List
<1>. QED  BY <1>3, <1>4, <1>5

LEMMA WantedExists ==
    ASSUME NEW actions \in Seq(Actions), NEW there \in SUBSET Files
    PROVE  Wanted(actions, there) \subseteq there
<1>1. ASSUME NEW i \in DOMAIN actions
      PROVE  ToSet(Playlist(actions[i].paths, there)) \subseteq there
  <2>1. actions[i] \in Actions
    OBVIOUS
  <2>2. actions[i].paths \in Seq(Files \cup {Folder})
    BY <2>1 DEF Actions
  <2>. QED  BY <2>2, PlaylistFacts
<1>. QED  BY <1>1 DEF Wanted

-----------------------------------------------------------------------------
(* The latest picks, and the next one.                                      *)
Latest(before, file, n) ==
    IF Len(before) < n THEN Append(before, file) ELSE Append(Tail(before), file)

(* Two neighbours of after are neighbours of before, or its end and file.      *)
Carries(after, before, file) ==
    \A k \in 1..(Len(after) - 1) :
        \/ \E j \in 1..(Len(before) - 1) :
                after[k] = before[j] /\ after[k + 1] = before[j + 1]
        \/ before # <<>> /\ after[k] = before[Len(before)] /\ after[k + 1] = file

Ends(after, file, S) == after \in Seq(S) /\ after # <<>> /\ after[Len(after)] = file

LEMMA StreakGrows ==
    ASSUME NEW S, NEW before \in Seq(S), NEW file \in S, NEW n \in Nat \ {0}
    PROVE  /\ Ends(Latest(before, file, n), file, S)
           /\ Carries(Latest(before, file, n), before, file)
<1>. USE DEF Ends, Carries
<1>. DEFINE after == Latest(before, file, n)
<1>. DEFINE m == Len(before)
<1>1. m \in Nat
  OBVIOUS
<1>2. CASE m < n
  <2>1. after = Append(before, file)
    BY <1>2 DEF Latest
  <2>2. /\ after \in Seq(S) /\ Len(after) = m + 1 /\ after[m + 1] = file /\ after # <<>>
        /\ \A k \in 1..m : after[k] = before[k]
    <3>1. after # <<>>
      BY <2>1
    <3>. QED  BY <2>1, <3>1, AppendFacts
  <2>3. ASSUME NEW k \in 1..m
        PROVE  \/ \E j \in 1..(m - 1) : after[k] = before[j] /\ after[k + 1] = before[j + 1]
               \/ before # <<>> /\ after[k] = before[m] /\ after[k + 1] = file
    <3>1. CASE k = m
      <4>1. before # <<>>
        BY <1>1
      <4>. QED  BY <2>2, <3>1, <4>1
    <3>2. CASE k # m
      <4>1. k \in 1..(m - 1) /\ k + 1 \in 1..m
        BY <1>1, <3>2
      <4>2. after[k] = before[k] /\ after[k + 1] = before[k + 1]
        BY <2>2, <4>1
      <4>. QED  BY <4>1, <4>2
    <3>. QED  BY <3>1, <3>2
  <2>4. Len(after) - 1 = m
    BY <1>1, <2>2
  <2>. QED  BY <2>2, <2>3, <2>4
<1>3. CASE ~(m < n)
  <2>1. after = Append(Tail(before), file) /\ before # <<>> /\ m >= 1
    BY <1>1, <1>3 DEF Latest
  <2>2. /\ Tail(before) \in Seq(S) /\ Len(Tail(before)) = m - 1
        /\ \A k \in 1..(m - 1) : Tail(before)[k] = before[k + 1]
    BY <2>1, TailFacts
  <2>3. /\ after \in Seq(S) /\ Len(after) = m /\ after[m] = file /\ after # <<>>
        /\ \A k \in 1..(m - 1) : after[k] = before[k + 1]
    <3>1. /\ Append(Tail(before), file) \in Seq(S)
          /\ Len(Append(Tail(before), file)) = (m - 1) + 1
          /\ \A k \in 1..(m - 1) : Append(Tail(before), file)[k] = Tail(before)[k]
          /\ Append(Tail(before), file)[(m - 1) + 1] = file
      BY <2>2, AppendFacts
    <3>2. (m - 1) + 1 = m
      BY <1>1
    <3>3. Append(Tail(before), file) # <<>>
      <4>1. Len(Append(Tail(before), file)) >= 1
        BY <2>1, <3>1, <3>2
      <4>. QED  BY <4>1, EmptyFacts
    <3>. QED  BY <2>1, <2>2, <3>1, <3>2, <3>3
  <2>4. ASSUME NEW k \in 1..(m - 1)
        PROVE  \/ \E j \in 1..(m - 1) : after[k] = before[j] /\ after[k + 1] = before[j + 1]
               \/ before # <<>> /\ after[k] = before[m] /\ after[k + 1] = file
    <3>1. after[k] = before[k + 1]
      BY <2>3
    <3>2. CASE k = m - 1
      <4>1. k + 1 = m
        BY <1>1, <3>2
      <4>. QED  BY <2>1, <2>3, <3>1, <4>1
    <3>3. CASE k # m - 1
      <4>1. k + 1 \in 1..(m - 1) /\ (k + 1) + 1 = k + 2
        BY <1>1, <3>3
      <4>2. after[k + 1] = before[(k + 1) + 1]
        BY <2>3, <4>1
      <4>. QED  BY <3>1, <4>1, <4>2
    <3>. QED  BY <3>2, <3>3
  <2>. QED  BY <2>1, <2>3, <2>4
<1>. QED  BY <1>2, <1>3

(* Where the rotation stands next, from where it stood.                     *)
LEMMA NextInTurn ==
    ASSUME NEW n \in Nat \ {0}, NEW r \in Nat \ {0}
    PROVE  /\ 1 + ((r - 1) % n) \in 1..n
           /\ (1 + ((r - 1) % n)) % n = r % n
<1>. DEFINE m == (r - 1) % n
            q == (r - 1) \div n
<1>1. m \in 0..(n - 1) /\ q \in Int /\ r - 1 = (n * q) + m
  <2>. DEFINE x == r - 1
  <2>1. x \in Int
    OBVIOUS
  <2>. HIDE DEF x
  <2>2. x % n \in 0..(n - 1) /\ x \div n \in Int /\ x = (n * (x \div n)) + (x % n)
    BY <2>1, ModType, ModDiv
  <2>. QED  BY <2>2 DEF x
<1>. HIDE DEF m, q
<1>2. CASE 1 + m < n
  <2>1. r = (n * q) + (1 + m) /\ 1 + m \in 0..(n - 1)
    BY <1>1, <1>2
  <2>2. r % n = 1 + m
    BY <1>1, <2>1, ModUnique
  <2>3. 1 + m = (n * 0) + (1 + m)
    BY <1>1
  <2>4. (1 + m) % n = 1 + m
    BY <2>1, <2>3, ModUnique
  <2>. QED  BY <1>1, <2>2, <2>4 DEF m
<1>3. CASE ~(1 + m < n)
  <2>1. 1 + m = n
    BY <1>1, <1>3
  <2>2. (n * q) + n = n * (q + 1) /\ q + 1 \in Int
    BY <1>1
  <2>3. r = (n * (q + 1)) + 0 /\ n = (n * 1) + 0 /\ 0 \in 0..(n - 1)
    BY <1>1, <2>1, <2>2
  <2>4. r % n = 0
    BY <2>2, <2>3, ModUnique
  <2>5. n % n = 0
    BY <2>3, ModUnique
  <2>. QED  BY <1>1, <2>1, <2>4, <2>5 DEF m
<1>. QED  BY <1>2, <1>3

-----------------------------------------------------------------------------
LEMMA InitExecInv == ExecInit => ExecInv
<1>. USE ExecutorAssumption
<1>. SUFFICES ASSUME ExecInit PROVE ExecInv
  OBVIOUS
<1>1. streak = <<>> /\ outcome = Nothing /\ rotation = 0 /\ disk \in SUBSET Files
  BY DEF ExecInit
<1>2. PICK raw \in Raw : Valid(raw) /\ config = [i \in DOMAIN raw |-> Normalize(raw[i])]
  BY DEF ExecInit
<1>3. config \in Seq(Actions) /\ \A i, j \in DOMAIN config : config[i].id = config[j].id => i = j
  BY <1>2, TakenOver
<1>4. Wanted(config, disk) \subseteq disk
  BY <1>1, <1>3, WantedExists
<1>5. cache = Wanted(config, disk) \ Broken
  BY DEF ExecInit
<1>6. ExecTypeOK
  BY <1>1, <1>3, <1>4, <1>5 DEF ExecTypeOK
<1>7. Decoded
  BY <1>5 DEF Decoded
<1>8. SoundsAreLoaded
  BY <1>1 DEF SoundsAreLoaded, Nothing
<1>. QED  BY <1>1, <1>6, <1>7, <1>8 DEF ExecInv, StreakInv, PicksFollowOrder

(* A step that leaves configuration, disk, cache and picks alone.           *)
LEMMA ExecKeptStep ==
    ASSUME ExecInv, UNCHANGED <<config, disk, cache, rotation, last_pick, fresh, streak>>
    PROVE  ExecTypeOK' /\ Decoded' /\ StreakInv' /\ PicksFollowOrder'
<1>1. ExecTypeOK'
  BY DEF ExecInv, ExecTypeOK
<1>2. Decoded'
  BY DEF ExecInv, Decoded, Wanted
<1>3. StreakInv'
  BY DEF ExecInv, StreakInv, Continues, List
<1>4. PicksFollowOrder'
  BY DEF ExecInv, PicksFollowOrder, List
<1>. QED  BY <1>1, <1>2, <1>3, <1>4

(* A step that forgets the picks.                                           *)
LEMMA ForgetStep ==
    ASSUME ExecTypeOK, streak' = <<>>, disk' \subseteq Files, cache' \subseteq Files,
           config' \in Seq(Actions),
           \A i, j \in DOMAIN config' : config'[i].id = config'[j].id => i = j,
           rotation' = rotation
    PROVE  ExecTypeOK' /\ StreakInv' /\ PicksFollowOrder'
BY DEF ExecTypeOK, StreakInv, PicksFollowOrder

(* What is on the list of a sound is loaded, or cannot be, or the disk has    *)
(* changed.                                                                  *)
LEMMA SendsStep ==
    ASSUME ExecInv, NEW i \in DOMAIN config, config[i].kind = "sound",
           NEW file \in ToSet(List(config[i])), Sends(file), UNCHANGED fresh
    PROVE  SoundsAreLoaded'
<1>1. outcome'[1] = (IF file \in cache THEN "sent" ELSE "not loaded") /\ outcome'[2] = file
  BY DEF Sends
<1>2. file \in Wanted(config, disk)
  BY ListFacts DEF ExecInv
<1>3. fresh => file \in cache \cup Broken
  BY <1>2 DEF ExecInv, Decoded
<1>. QED  BY <1>1, <1>3 DEF SoundsAreLoaded

-----------------------------------------------------------------------------
(* y may be picked after x.                                                 *)
Follows(a, x, y) ==
    IF a.order = "random" THEN x # y
    ELSE \E j \in DOMAIN List(a) : x = List(a)[j] /\ y = List(a)[1 + (j % Len(List(a)))]

LEMMA PlaysStep ==
    ASSUME ExecInv, NEW i \in DOMAIN config, config[i].kind = "sound",
           NEW file \in ToSet(List(config[i])), Plays(config[i], file),
           Len(List(config[i])) > 1,
           config[i].order = "sequential" =>
                /\ rotation' > 0
                /\ file = List(config[i])[1 + ((rotation' - 1) % Len(List(config[i])))],
           Continues(config[i]) => Follows(config[i], last_pick, file),
           last_pick' = file, rotation' \in Nat, UNCHANGED <<config, disk, cache, fresh>>
    PROVE  ExecInv'
<1>. DEFINE a == config[i]
            list == List(a)
            n == Len(list)
            before == IF streak # <<>> /\ streak[1] = a.id THEN streak[2] ELSE <<>>
            after == Latest(before, file, n)
<1>1. ExecTypeOK /\ list \in Seq(Files) /\ n \in Nat \ {0}
  BY ListFacts DEF ExecInv
<1>2. file \in Files
  BY <1>1 DEF ToSet
<1>3. before \in Seq(Files)
  BY DEF ExecInv, ExecTypeOK
<1>4. streak' = <<a.id, after>>
  BY DEF Plays, Latest
<1>. HIDE DEF before
<1>5. Ends(after, file, Files) /\ Carries(after, before, file)
  <2>. HIDE DEF n
  <2>. QED  BY <1>1, <1>2, <1>3, StreakGrows, Zenon
<1>. HIDE DEF after
<1>6. streak'[1] = a.id /\ streak'[2] = after /\ streak' # <<>>
  BY <1>4
<1>7. \A j \in DOMAIN config : config[j].id = a.id => j = i
  BY DEF ExecInv, ExecTypeOK
<1>8. ExecTypeOK'
  BY <1>1, <1>5, <1>6 DEF ExecTypeOK, Ends
<1>9. Decoded'
  BY DEF ExecInv, Decoded, Wanted
<1>10. SoundsAreLoaded'
  BY SendsStep DEF Plays
<1>11. \A j \in DOMAIN config : List(config[j])' = List(config[j])
  BY DEF List
<1>12. StreakInv'
  <2>1. Continues(config[i])'
    <3>1. list' = list
      BY <1>11
    <3>. QED  BY <3>1, <1>5, <1>6 DEF Continues, Ends
  <2>. QED  BY <2>1, <1>6, <1>7 DEF StreakInv
<1>13. before # <<>> => /\ streak # <<>> /\ streak[1] = a.id /\ before = streak[2]
  BY DEF before
<1>14. ASSUME NEW k \in 1..(Len(after) - 1)
       PROVE  Follows(a, after[k], after[k + 1])
  <2>1. CASE \E j \in 1..(Len(before) - 1) : after[k] = before[j] /\ after[k + 1] = before[j + 1]
    <3>1. PICK j \in 1..(Len(before) - 1) : after[k] = before[j] /\ after[k + 1] = before[j + 1]
      BY <2>1
    <3>2. before # <<>>
      BY <1>3
    <3>3. Follows(a, before[j], before[j + 1])
      BY <1>13, <3>2 DEF ExecInv, PicksFollowOrder, Follows
    <3>. QED  BY <3>1, <3>3
  <2>2. CASE before # <<>> /\ after[k] = before[Len(before)] /\ after[k + 1] = file
    <3>1. Continues(a)
      BY <1>13, <2>2 DEF ExecInv, StreakInv
    <3>2. before[Len(before)] = last_pick
      BY <1>13, <2>2, <3>1 DEF Continues
    <3>. QED  BY <2>2, <3>1, <3>2
  <2>. QED  BY <1>5, <2>1, <2>2 DEF Carries
<1>15. PicksFollowOrder'
  <2>1. ASSUME NEW k \in 1..(Len(after) - 1)
        PROVE  IF a.order = "random" THEN after[k] # after[k + 1]
               ELSE \E j \in DOMAIN list : after[k] = list[j] /\ after[k + 1] = list[1 + (j % n)]
    BY <1>14 DEF Follows
  <2>2. config' = config /\ List(config[i])' = list
    BY <1>11
  <2>. SUFFICES ASSUME NEW j \in DOMAIN config', config'[j].id = streak'[1],
                       NEW k \in 1..(Len(streak'[2]) - 1)
                PROVE  LET l == List(config[j])'
                       IN  IF config'[j].order = "random" THEN streak'[2][k] # streak'[2][k + 1]
                           ELSE \E p \in DOMAIN l : /\ streak'[2][k] = l[p]
                                                    /\ streak'[2][k + 1] = l[1 + (p % Len(l))]
    BY Zenon DEF PicksFollowOrder
  <2>3. j = i
    BY <1>6, <1>7, <2>2
  <2>4. config'[j].order = a.order /\ List(config[j])' = list
    BY <2>2, <2>3
  <2>. HIDE DEF list, a
  <2>. QED  BY <1>6, <2>1, <2>4, Zenon
<1>. QED  BY <1>8, <1>9, <1>10, <1>12, <1>15 DEF ExecInv

-----------------------------------------------------------------------------
LEMMA SetConfigStep == ASSUME ExecInv, SetConfig PROVE ExecInv'
<1>1. PICK raw \in Raw : Valid(raw) /\ config' = [i \in DOMAIN raw |-> Normalize(raw[i])]
  BY DEF SetConfig
<1>2. /\ config' \in Seq(Actions)
      /\ \A i, j \in DOMAIN config' : config'[i].id = config'[j].id => i = j
  BY <1>1, TakenOver
<1>3. /\ cache' = Preloaded(config', disk) /\ disk' = disk /\ rotation' = rotation
      /\ streak' = <<>> /\ outcome' = Nothing
  BY DEF SetConfig
<1>4. ExecTypeOK /\ disk \in SUBSET Files
  BY DEF ExecInv, ExecTypeOK
<1>5. Wanted(config', disk) \subseteq Files
  BY <1>2, <1>4, WantedExists
<1>6. cache' \subseteq Files /\ Wanted(config', disk) \subseteq cache' \cup Broken
  BY <1>3, <1>4, <1>5 DEF Preloaded, ExecTypeOK
<1>7. ExecTypeOK' /\ StreakInv' /\ PicksFollowOrder'
  BY <1>2, <1>3, <1>4, <1>6, ForgetStep
<1>8. Decoded'
  BY <1>3, <1>6 DEF Decoded, Wanted
<1>9. SoundsAreLoaded'
  BY <1>3 DEF SoundsAreLoaded, Nothing
<1>. QED  BY <1>7, <1>8, <1>9 DEF ExecInv

LEMMA DiskStep == ASSUME ExecInv, DiskChanges PROVE ExecInv'
<1>1. /\ disk' \subseteq Files /\ ~fresh' /\ streak' = <<>>
      /\ config' = config /\ cache' = cache /\ rotation' = rotation
  BY DEF DiskChanges
<1>2. ExecTypeOK' /\ StreakInv' /\ PicksFollowOrder'
  BY <1>1, ForgetStep DEF ExecInv, ExecTypeOK
<1>3. Decoded' /\ SoundsAreLoaded'
  BY <1>1 DEF Decoded, SoundsAreLoaded
<1>. QED  BY <1>2, <1>3 DEF ExecInv

(* The start of a dispatch or of a test, and an action with nothing to play.  *)
LEMMA SilentStep ==
    ASSUME ExecInv, outcome'[1] # "not loaded",
           UNCHANGED <<config, disk, cache, rotation, last_pick, fresh, streak>>
    PROVE  ExecInv'
<1>1. SoundsAreLoaded'
  BY DEF SoundsAreLoaded
<1>. QED  BY <1>1, ExecKeptStep DEF ExecInv

LEMMA OnlyStep == ASSUME ExecInv, NEW i \in DOMAIN config, RunOnly(config[i]) PROVE ExecInv'
<1>. DEFINE list == List(config[i])
<1>1. /\ config[i].kind = "sound" /\ Len(list) = 1 /\ Sends(list[1]) /\ streak' = <<>>
      /\ UNCHANGED <<config, disk, cache, rotation, fresh>>
  BY DEF RunOnly, Runs
<1>2. list \in Seq(Files)
  BY ListFacts DEF ExecInv
<1>3. list[1] \in ToSet(list)
  BY <1>1, <1>2 DEF ToSet
<1>. HIDE DEF list
<1>4. SoundsAreLoaded'
  BY <1>1, <1>3, SendsStep DEF list
<1>5. ExecTypeOK' /\ StreakInv' /\ PicksFollowOrder'
  BY <1>1, ForgetStep DEF ExecInv, ExecTypeOK
<1>6. Decoded'
  BY <1>1 DEF ExecInv, Decoded, Wanted
<1>. QED  BY <1>4, <1>5, <1>6 DEF ExecInv

LEMMA SequentialStep ==
    ASSUME ExecInv, NEW i \in DOMAIN config, RunSequential(config[i]) PROVE ExecInv'
<1>. DEFINE a == config[i]
            list == List(a)
            n == Len(list)
            file == list[1 + (rotation % n)]
<1>1. /\ a.kind = "sound" /\ a.order = "sequential" /\ n > 1
      /\ rotation' = rotation + 1 /\ last_pick' = file /\ Plays(a, file)
      /\ UNCHANGED <<config, disk, cache, fresh>>
  BY DEF RunSequential, Runs
<1>2. list \in Seq(Files) /\ n \in Nat \ {0} /\ DOMAIN list = 1..n
  BY <1>1, ListFacts DEF ExecInv
<1>3. rotation \in Nat /\ rotation' \in Nat /\ rotation' > 0 /\ rotation' - 1 = rotation
  <2>1. rotation \in Nat
    BY Zenon DEF ExecInv, ExecTypeOK
  <2>2. rotation' = rotation + 1
    BY <1>1, Zenon
  <2>. QED  BY <2>1, <2>2
<1>4. file \in ToSet(list)
  <2>. HIDE DEF list, n
  <2>1. rotation \in Int
    BY <1>3
  <2>2. rotation % n \in 0..(n - 1)
    BY <1>2, <2>1, ModType
  <2>3. 1 + (rotation % n) \in DOMAIN list
    BY <1>2, <2>2
  <2>. QED  BY <2>3 DEF ToSet
<1>5. file = list[1 + ((rotation' - 1) % n)]
  BY <1>3
<1>6. ASSUME Continues(a)
      PROVE  Follows(a, last_pick, file)
  <2>. DEFINE j == 1 + ((rotation - 1) % n)
  <2>1. rotation \in Nat \ {0} /\ last_pick = list[j]
    BY <1>1, <1>3, <1>6 DEF Continues
  <2>. HIDE DEF n
  <2>2. j \in 1..n /\ j % n = rotation % n
    BY <1>2, <2>1, NextInTurn
  <2>. HIDE DEF j
  <2>3. file = list[1 + (j % n)]
    BY <2>2
  <2>4. a.order # "random"
    BY <1>1
  <2>. QED  BY <1>2, <2>1, <2>2, <2>3, <2>4 DEF Follows, n
<1>. HIDE DEF file
<1>. QED  BY <1>1, <1>3, <1>4, <1>5, <1>6, PlaysStep

LEMMA RandomStep ==
    ASSUME ExecInv, NEW i \in DOMAIN config, RunRandom(config[i]) PROVE ExecInv'
<1>. DEFINE a == config[i]
            list == List(a)
<1>1. /\ a.kind = "sound" /\ a.order = "random" /\ Len(list) > 1
      /\ rotation' = rotation /\ UNCHANGED <<config, disk, cache, fresh>>
  BY DEF RunRandom, Runs
<1>2. PICK file \in Pool(list) : last_pick' = file /\ Plays(a, file)
  BY DEF RunRandom
<1>3. list \in Seq(Files) /\ Distinct(list)
  BY ListFacts DEF ExecInv
<1>4. file \in ToSet(list)
  BY <1>2 DEF Pool
<1>5. file # last_pick
  <2>1. 1 \in DOMAIN list /\ 2 \in DOMAIN list
    BY <1>1, <1>3
  <2>2. list[1] # list[2]
    BY <1>3, <2>1 DEF Distinct
  <2>3. list[1] \in ToSet(list) /\ list[2] \in ToSet(list)
    BY <2>1, Zenon DEF ToSet
  <2>4. ToSet(list) \ {last_pick} # {}
    BY <2>2, <2>3
  <2>. QED  BY <1>2, <2>4 DEF Pool
<1>6. Follows(a, last_pick, file)
  BY <1>1, <1>5 DEF Follows
<1>7. a.order # "sequential" /\ rotation' \in Nat
  BY <1>1 DEF ExecInv, ExecTypeOK
<1>. QED  BY <1>1, <1>2, <1>4, <1>6, <1>7, PlaysStep

LEMMA NextExecInv == ExecInv /\ [ExecNext]_execVars => ExecInv'
<1>. SUFFICES ASSUME ExecInv, [ExecNext]_execVars PROVE ExecInv'
  OBVIOUS
<1>1. CASE SetConfig
  BY <1>1, SetConfigStep
<1>2. CASE DiskChanges
  BY <1>2, DiskStep
<1>3. CASE (\E spank \in Spanks : Dispatch(spank)) \/ Test
  <2>1. outcome'[1] # "not loaded"
    <3>1. outcome' = Nothing
      BY <1>3, Zenon DEF Dispatch, Test
    <3>. QED  BY <3>1 DEF Nothing
  <2>2. UNCHANGED <<config, disk, cache, rotation, last_pick, fresh, streak>>
    BY <1>3 DEF Dispatch, Test
  <2>. QED  BY <2>1, <2>2, SilentStep
<1>4. ASSUME NEW i \in DOMAIN config, RunOther(config[i]) \/ RunNothing(config[i])
      PROVE  ExecInv'
  <2>1. outcome'[1] # "not loaded"
    <3>1. outcome' = <<"sent", config[i].kind>> \/ outcome' = Nothing
      BY <1>4, Zenon DEF RunOther, RunNothing
    <3>2. Nothing[1] = "no sound" /\ <<"sent", config[i].kind>>[1] = "sent"
      BY DEF Nothing
    <3>3. outcome'[1] = "no sound" \/ outcome'[1] = "sent"
      BY <3>1, <3>2, Zenon
    <3>. QED  BY <3>3
  <2>2. UNCHANGED <<config, disk, cache, rotation, last_pick, fresh, streak>>
    BY <1>4 DEF RunOther, RunNothing, Runs
  <2>. QED  BY <2>1, <2>2, SilentStep
<1>5. CASE UNCHANGED execVars
  <2>1. UNCHANGED <<config, disk, cache, rotation, last_pick, fresh, streak>>
    BY <1>5 DEF execVars
  <2>2. SoundsAreLoaded'
    BY <1>5 DEF ExecInv, SoundsAreLoaded, execVars
  <2>. QED  BY <2>1, <2>2, ExecKeptStep DEF ExecInv
<1>. QED  BY <1>1, <1>2, <1>3, <1>4, <1>5, OnlyStep, SequentialStep, RandomStep
          DEF ExecNext, Run

(* What is decoded is always a known file, the rotation never leaves the      *)
(* numbers, and no two actions have one id.                                  *)
THEOREM ExecTypeCorrect == ExecSpec => []ExecTypeOK
<1>1. ExecInv => ExecTypeOK
  BY DEF ExecInv
<1>. QED  BY <1>1, InitExecInv, NextExecInv, PTL DEF ExecSpec

(* A sound is missing from the cache at the moment it is played only if it   *)
(* does not decode or the disk has changed since the last configuration      *)
(* (Executor::preload, Executor::run).                                       *)
THEOREM SoundsLoaded == ExecSpec => []SoundsAreLoaded
<1>1. ExecInv => SoundsAreLoaded
  BY DEF ExecInv
<1>. QED  BY <1>1, InitExecInv, NextExecInv, PTL DEF ExecSpec

(* For any playlist, disk and course of dispatches, a sequential action that *)
(* keeps picking steps through its list and starts again at its end, and a   *)
(* random one never picks a sound twice running (Executor::pick_sound).      *)
THEOREM PicksInOrder == ExecSpec => []PicksFollowOrder
<1>1. ExecInv => PicksFollowOrder
  BY DEF ExecInv
<1>. QED  BY <1>1, InitExecInv, NextExecInv, PTL DEF ExecSpec

=============================================================================
