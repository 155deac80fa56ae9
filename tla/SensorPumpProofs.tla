-------------------------- MODULE SensorPumpProofs --------------------------
(***************************************************************************)
(* SensorPump's properties hold for any length of ring and counter and any *)
(* number of reports.                                                      *)
(***************************************************************************)
EXTENDS SensorPump, DataLemmas

(* The number of lost reports, found from the bits that were sent, is right  *)
(* up to whole turns of the counter, and right when there were none.         *)
LEMMA GapFacts ==
    ASSUME NEW p \in Int, NEW n \in Int, NEW g \in Int, g = Gap(p % SeqMod, n % SeqMod)
    PROVE  /\ g \in 0..SeqMod - 1
           /\ (n - p - 1 - g) % SeqMod = 0
           /\ n - p - 1 \in 0..SeqMod - 1 => g = n - p - 1
<1>. DEFINE m == SeqMod
            d == (n % m) - (p % m) - 1
            a == n - (n % m)
            b == p - (p % m)
            c == d - g
<1>0. m \in Nat \ {0}
  BY PumpAssumption
<1>1. n % m \in Int /\ p % m \in Int
  BY <1>0, ModType
<1>2. d \in Int /\ a \in Int /\ b \in Int /\ c \in Int /\ a - b \in Int
  BY <1>1
<1>3. g = d % m
  BY DEF Gap
<1>4. g \in 0..m - 1
  BY <1>0, <1>2, <1>3, ModType
<1>. HIDE DEF m
<1>5. a % m = 0 /\ b % m = 0
  BY <1>0, ModRest
<1>. HIDE DEF d
<1>6. c % m = 0
  BY <1>0, <1>2, <1>3, ModRest
<1>. HIDE DEF a, b, c
<1>7. (a - b) % m = 0
  BY <1>0, <1>2, <1>5, ModAdd
<1>8. ((a - b) + c) % m = 0
  BY <1>0, <1>2, <1>6, <1>7, ModAdd
<1>9. (a - b) + c = n - p - 1 - g
  BY <1>1, <1>4 DEF a, b, c, d
<1>10. (n - p - 1 - g) % m = 0
  BY <1>8, <1>9
<1>11. ASSUME n - p - 1 \in 0..m - 1 PROVE g = n - p - 1
  <2>. DEFINE x == n - p - 1 - g
  <2>1. x \in Int /\ x < m /\ -m < x
    BY <1>0, <1>4, <1>11
  <2>2. x % m = 0
    BY <1>10
  <2>. HIDE DEF x
  <2>3. x = 0
    BY <1>0, <2>1, <2>2, ModSmall
  <2>. QED  BY <2>3, <1>4 DEF x
<1>. QED  BY <1>4, <1>10, <1>11 DEF m

-----------------------------------------------------------------------------
(* Steps.                                                                  *)
LEMMA SensorFacts ==
    /\ "accel" \in Sensors /\ "gyro" \in Sensors /\ "accel" # "gyro"
    /\ \A s \in Sensors : s = "accel" \/ s = "gyro"
    /\ \A s \in Sensors : Other(s) \in Sensors /\ Other(s) # s
BY DEF Sensors, Other

LEMMA SampleFacts ==
    /\ None \notin Samples /\ None \notin Nat
    /\ \A x \in Samples : x.n \in Nat /\ x.t \in Nat /\ x.t \in 0..MaxTime
    /\ \A r \in Reports : r.n \in 0..MaxMade /\ r.t \in 0..MaxTime /\ r.n \in Nat /\ r.t \in Nat
                        /\ [n |-> r.n, t |-> r.t] \in Samples
<1>. USE PumpAssumption
<1>1. Samples \subseteq [n : Nat, t : Nat]
  BY DEF Samples
<1>. QED  BY <1>1 DEF Samples, Reports

(* A report leaves its queue. *)
LEMMA CalledFacts ==
    ASSUME TypeOK, NEW s \in Sensors, Called(s)
    PROVE  /\ Len(queue[s]) \in Nat /\ Len(queue[s]) >= 1
           /\ Head(queue[s]) = queue[s][1] /\ queue[s][1] \in Reports
           /\ queue' \in [Sensors -> Seq(Reports)]
           /\ Len(queue'[s]) = Len(queue[s]) - 1
           /\ \A i \in 1..Len(queue'[s]) :
                 i + 1 \in 1..Len(queue[s]) /\ queue'[s][i] = queue[s][i + 1]
           /\ \A z \in Sensors : z # s => queue'[z] = queue[z]
<1>1. queue[s] \in Seq(Reports) /\ queue[s] # <<>>
  BY DEF TypeOK, Called
<1>2. queue'[s] = Tail(queue[s]) /\ \A z \in Sensors : z # s => queue'[z] = queue[z]
  BY DEF TypeOK, Called
<1>3. queue' = [queue EXCEPT ![s] = Tail(queue[s])]
  BY DEF Called
<1>4. Tail(queue[s]) \in Seq(Reports)
  BY <1>1, TailFacts
<1>5. queue' \in [Sensors -> Seq(Reports)]
  BY <1>3, <1>4 DEF TypeOK
<1>6. /\ Len(queue[s]) \in Nat /\ Len(queue[s]) >= 1
      /\ Head(queue[s]) = queue[s][1] /\ queue[s][1] \in Reports
  BY <1>1, TailFacts
<1>7. Len(Tail(queue[s])) = Len(queue[s]) - 1
  BY <1>1, TailFacts
<1>8. \A i \in 1..Len(queue[s]) - 1 : Tail(queue[s])[i] = queue[s][i + 1]
  BY <1>1, TailFacts
<1>9. \A i \in 1..Len(queue[s]) - 1 : i + 1 \in 1..Len(queue[s])
  BY <1>6
<1>. QED  BY <1>2, <1>5, <1>6, <1>7, <1>8, <1>9

LEMMA MissedType ==
    ASSUME TypeOK, NEW s \in Sensors, NEW n \in Nat
    PROVE  Missed(s, n) \in Nat /\ n % SeqMod \in 0..SeqMod - 1
<1>. USE PumpAssumption
<1>1. n % SeqMod \in 0..SeqMod - 1 /\ n % SeqMod \in Int
  BY ModType
<1>2. CASE last_seq[s] = None
  BY <1>1, <1>2 DEF Missed
<1>3. CASE last_seq[s] # None
  <2>1. last_seq[s] \in Int
    BY <1>3 DEF TypeOK
  <2>2. (n % SeqMod) - last_seq[s] - 1 \in Int
    BY <1>1, <2>1
  <2>3. Gap(last_seq[s], n % SeqMod) \in 0..SeqMod - 1
    BY <2>2, ModType DEF Gap
  <2>. QED  BY <1>1, <1>3, <2>3 DEF Missed
<1>. QED  BY <1>2, <1>3

(* What the callback of a stream writes of a report, and leaves alone. *)
LEMMA ParsedFacts ==
    ASSUME TypeOK, NEW s \in Sensors, NEW n \in Nat, NEW t \in 0..MaxTime, NEW over \in Nat,
           Parsed(s, n, t, over)
    PROVE  /\ last_seq' \in [Sensors -> (0..SeqMod - 1) \cup {None}]
           /\ stats' \in [Sensors -> [received : Nat, dropped : Nat, overruns : Nat, malformed : Nat]]
           /\ last_seq'[s] = n % SeqMod /\ last_seq'[s] # None
           /\ stats'[s].dropped = stats[s].dropped + Missed(s, n)
           /\ stats'[s].received = stats[s].received + 1
           /\ stats'[s].overruns = stats[s].overruns + over
           /\ first'[s] = (IF last_seq[s] = None THEN n ELSE first[s])
           /\ upto'[s] = n
           /\ close'[s] = (close[s] /\ (last_seq[s] = None \/ n - upto[s] <= SeqMod))
           /\ first' \in [Sensors -> Nat] /\ upto' \in [Sensors -> Nat]
           /\ close' \in [Sensors -> BOOLEAN]
           /\ pushed' \in 0..MaxTime /\ punctual' \in BOOLEAN
           /\ t <= pushed' /\ pushed <= pushed'
           /\ punctual' => punctual /\ pushed <= t
           /\ \A z \in Sensors : z # s =>
                /\ last_seq'[z] = last_seq[z] /\ stats'[z] = stats[z] /\ first'[z] = first[z]
                /\ upto'[z] = upto[z] /\ close'[z] = close[z]
<1>. USE PumpAssumption
<1>1. Missed(s, n) \in Nat /\ n % SeqMod \in 0..SeqMod - 1 /\ n % SeqMod # None
  <2>1. Missed(s, n) \in Nat /\ n % SeqMod \in 0..SeqMod - 1
    BY ONLY TypeOK, MissedType, s \in Sensors, n \in Nat
  <2> DEFINE m == n % SeqMod
  <2>2. m \in 0..SeqMod - 1
    BY <2>1
  <2> HIDE DEF m
  <2>3. m \in Nat
    BY <2>2
  <2>4. m # None
    BY <2>3
  <2>. QED  BY <2>1, <2>4 DEF m
<1>2. last_seq' \in [Sensors -> (0..SeqMod - 1) \cup {None}]
  BY <1>1 DEF Parsed, TypeOK
<1>3. stats' \in [Sensors -> [received : Nat, dropped : Nat, overruns : Nat, malformed : Nat]]
  <2>1. stats[s] \in [received : Nat, dropped : Nat, overruns : Nat, malformed : Nat]
    BY DEF TypeOK
  <2>2. stats' = [stats EXCEPT ![s] = [received |-> stats[s].received + 1,
                                       dropped |-> stats[s].dropped + Missed(s, n),
                                       overruns |-> stats[s].overruns + over,
                                       malformed |-> stats[s].malformed]]
    BY DEF Parsed
  <2>3. [received |-> stats[s].received + 1, dropped |-> stats[s].dropped + Missed(s, n),
         overruns |-> stats[s].overruns + over, malformed |-> stats[s].malformed]
            \in [received : Nat, dropped : Nat, overruns : Nat, malformed : Nat]
    BY <1>1, <2>1
  <2>. QED  BY Zenon, <2>2, <2>3 DEF TypeOK
<1>4. last_seq'[s] = n % SeqMod /\ last_seq'[s] # None
  BY Zenon, <1>1 DEF Parsed, TypeOK
<1>5. /\ stats'[s].dropped = stats[s].dropped + Missed(s, n)
      /\ stats'[s].received = stats[s].received + 1
      /\ stats'[s].overruns = stats[s].overruns + over
  BY <1>1 DEF Parsed, TypeOK
<1>6. first'[s] = (IF last_seq[s] = None THEN n ELSE first[s]) /\ upto'[s] = n
  BY DEF Parsed, TypeOK
<1>7. close'[s] = (close[s] /\ (last_seq[s] = None \/ n - upto[s] <= SeqMod))
  BY Zenon DEF Parsed, TypeOK
<1>8. first' \in [Sensors -> Nat] /\ upto' \in [Sensors -> Nat]
  BY DEF Parsed, TypeOK
<1>9. close' \in [Sensors -> BOOLEAN]
  <2>1. close' = [close EXCEPT ![s] = close[s] /\ (last_seq[s] = None \/ n - upto[s] <= SeqMod)]
    BY Zenon DEF Parsed
  <2>2. PICK b \in BOOLEAN : b = (close[s] /\ (last_seq[s] = None \/ n - upto[s] <= SeqMod))
    BY Zenon
  <2>3. close' = [close EXCEPT ![s] = b]
    BY Zenon, <2>1, <2>2
  <2>. QED  BY <2>3 DEF TypeOK
<1>10. pushed' \in 0..MaxTime /\ punctual' \in BOOLEAN
  BY DEF Parsed, TypeOK
<1>11. t <= pushed' /\ pushed <= pushed'
  BY DEF Parsed, TypeOK
<1>12. punctual' => punctual /\ pushed <= t
  BY DEF Parsed
<1>13. \A z \in Sensors : z # s =>
          /\ last_seq'[z] = last_seq[z] /\ stats'[z] = stats[z] /\ first'[z] = first[z]
          /\ upto'[z] = upto[z]
  BY DEF Parsed, TypeOK
<1>14. \A z \in Sensors : z # s => close'[z] = close[z]
  BY Zenon DEF Parsed, TypeOK
<1>. QED  BY <1>2, <1>3, <1>4, <1>5, <1>6, <1>7, <1>8, <1>9, <1>10, <1>11, <1>12, <1>13, <1>14

(* A sample goes into its ring. *)
LEMMA ReceiveFacts ==
    ASSUME TypeOK, NEW s \in Sensors, Receive(s)
    PROVE  \E r \in Reports :
             /\ r = queue[s][1] /\ r.good /\ Parsed(s, r.n, r.t, 0)
             /\ ring' \in [Sensors -> Seq(Samples)]
             /\ Len(ring[s]) \in Nat /\ Len(ring'[s]) = Len(ring[s]) + 1
             /\ \A i \in 1..Len(ring[s]) : ring'[s][i] = ring[s][i]
             /\ ring'[s][Len(ring[s]) + 1] = [n |-> r.n, t |-> r.t]
             /\ \A z \in Sensors : z # s => ring'[z] = ring[z]
<1>. DEFINE r == Head(queue[s])
            e == [n |-> r.n, t |-> r.t]
<1>1. Called(s) /\ r.good /\ Parsed(s, r.n, r.t, 0) /\ ring' = [ring EXCEPT ![s] = Append(@, e)]
  BY DEF Receive
<1>2. r = queue[s][1] /\ r \in Reports
  BY <1>1, CalledFacts
<1>3. e \in Samples
  BY <1>2, SampleFacts
<1>. HIDE DEF r, e
<1>4. ring[s] \in Seq(Samples)
  BY DEF TypeOK
<1>5. /\ Append(ring[s], e) \in Seq(Samples) /\ Len(Append(ring[s], e)) = Len(ring[s]) + 1
      /\ \A i \in 1..Len(ring[s]) : Append(ring[s], e)[i] = ring[s][i]
      /\ Append(ring[s], e)[Len(ring[s]) + 1] = e
  BY <1>3, <1>4, AppendFacts
<1>6. Len(ring[s]) \in Nat
  BY <1>4
<1>7. ring'[s] = Append(ring[s], e) /\ \A z \in Sensors : z # s => ring'[z] = ring[z]
  BY <1>1 DEF TypeOK
<1>8. ring' \in [Sensors -> Seq(Samples)]
  BY <1>1, <1>5 DEF TypeOK
<1>9. e = [n |-> r.n, t |-> r.t]
  BY DEF e
<1>. QED  BY <1>1, <1>2, <1>5, <1>6, <1>7, <1>8, <1>9

LEMMA OverrunFacts ==
    ASSUME TypeOK, NEW s \in Sensors, Overrun(s)
    PROVE  \E r \in Reports : r = queue[s][1] /\ r.good /\ Parsed(s, r.n, r.t, 1) /\ ring' = ring
BY CalledFacts DEF Overrun

LEMMA MalformedFacts ==
    ASSUME TypeOK, NEW s \in Sensors, Malformed(s)
    PROVE  /\ stats' \in [Sensors -> [received : Nat, dropped : Nat, overruns : Nat, malformed : Nat]]
           /\ \A z \in Sensors : /\ stats'[z].received = stats[z].received
                                 /\ stats'[z].dropped = stats[z].dropped
                                 /\ stats'[z].overruns = stats[z].overruns
<1>1. stats' = [stats EXCEPT ![s].malformed = @ + 1]
  BY DEF Malformed
<1>2. stats[s] \in [received : Nat, dropped : Nat, overruns : Nat, malformed : Nat]
  BY DEF TypeOK
<1>3. [stats[s] EXCEPT !.malformed = @ + 1]
        \in [received : Nat, dropped : Nat, overruns : Nat, malformed : Nat]
  BY <1>2
<1>4. stats' = [stats EXCEPT ![s] = [stats[s] EXCEPT !.malformed = @ + 1]]
  BY <1>1
<1>5. stats' \in [Sensors -> [received : Nat, dropped : Nat, overruns : Nat, malformed : Nat]]
  BY Zenon, <1>3, <1>4 DEF TypeOK
<1>6. \A z \in Sensors : /\ stats'[z].received = stats[z].received
                        /\ stats'[z].dropped = stats[z].dropped
                        /\ stats'[z].overruns = stats[z].overruns
  BY <1>1 DEF TypeOK
<1>. QED  BY <1>5, <1>6

(* The pump takes a sample out of a ring, or leaves it all as it is. *)
LEMMA FillFacts ==
    ASSUME TypeOK, NEW s \in Sensors, Fill(s)
    PROVE  \/ ring' = ring /\ pending' = pending /\ (pending[s] # None \/ Len(ring[s]) = 0)
           \/ /\ pending[s] = None
              /\ pending' \in [Sensors -> Samples \cup {None}]
              /\ pending'[s] = ring[s][1] /\ ring[s][1] \in Samples
              /\ \A z \in Sensors : z # s => pending'[z] = pending[z]
              /\ ring' \in [Sensors -> Seq(Samples)]
              /\ Len(ring[s]) \in Nat /\ Len(ring[s]) >= 1 /\ Len(ring'[s]) = Len(ring[s]) - 1
              /\ \A i \in 1..Len(ring'[s]) :
                    i + 1 \in 1..Len(ring[s]) /\ ring'[s][i] = ring[s][i + 1]
              /\ \A z \in Sensors : z # s => ring'[z] = ring[z]
<1>1. CASE pending[s] = None /\ ring[s] # <<>>
  <2>1. pending' = [pending EXCEPT ![s] = Head(ring[s])] /\ ring' = [ring EXCEPT ![s] = Tail(ring[s])]
    BY <1>1 DEF Fill
  <2>2. ring[s] \in Seq(Samples)
    BY DEF TypeOK
  <2>3. Len(ring[s]) \in Nat /\ Len(ring[s]) >= 1 /\ Head(ring[s]) = ring[s][1] /\ ring[s][1] \in Samples
    BY <1>1, <2>2, TailFacts
  <2>4. Tail(ring[s]) \in Seq(Samples) /\ Len(Tail(ring[s])) = Len(ring[s]) - 1
    BY <1>1, <2>2, TailFacts
  <2>5. \A i \in 1..Len(ring[s]) - 1 : Tail(ring[s])[i] = ring[s][i + 1]
    BY <1>1, <2>2, TailFacts
  <2>6. \A i \in 1..Len(ring[s]) - 1 : i + 1 \in 1..Len(ring[s])
    BY <2>3
  <2>7. ring'[s] = Tail(ring[s]) /\ \A z \in Sensors : z # s => ring'[z] = ring[z]
    BY <2>1 DEF TypeOK
  <2>8. ring' \in [Sensors -> Seq(Samples)]
    BY <2>1, <2>4 DEF TypeOK
  <2>9. pending' \in [Sensors -> Samples \cup {None}] /\ pending'[s] = ring[s][1]
    BY <2>1, <2>3 DEF TypeOK
  <2>10. \A z \in Sensors : z # s => pending'[z] = pending[z]
    BY <2>1 DEF TypeOK
  <2>. QED  BY <1>1, <2>3, <2>4, <2>5, <2>6, <2>7, <2>8, <2>9, <2>10
<1>2. CASE ~(pending[s] = None /\ ring[s] # <<>>)
  <2>1. ring' = ring /\ pending' = pending
    BY <1>2 DEF Fill
  <2>2. Len(<<>>) = 0
    OBVIOUS
  <2>. QED  BY <1>2, <2>1, <2>2
<1>. QED  BY <1>1, <1>2

LEMMA EmitFacts ==
    ASSUME TypeOK, NEW s \in Sensors, Emit(s)
    PROVE  /\ pending[s] \in Samples /\ pending[s].t \in 0..MaxTime
           /\ pending' \in [Sensors -> Samples \cup {None}]
           /\ pending'[s] = None /\ \A z \in Sensors : z # s => pending'[z] = pending[z]
           /\ emitted' \in [Sensors -> Nat]
           /\ emitted'[s] = emitted[s] + 1 /\ \A z \in Sensors : z # s => emitted'[z] = emitted[z]
           /\ out' \in [Sensors -> (0..MaxTime) \X (0..MaxTime)]
           /\ out'[s][1] = pending[s].t /\ out'[s][2] = out[s][1]
           /\ \A z \in Sensors : z # s => out'[z] = out[z]
           /\ ring' = ring
<1>1. pending[s] \in Samples /\ pending[s].t \in 0..MaxTime
  BY SampleFacts DEF Emit, Takes, TypeOK
<1>2. pending' \in [Sensors -> Samples \cup {None}] /\ pending'[s] = None
  BY DEF Emit, TypeOK
<1>3. \A z \in Sensors : z # s => pending'[z] = pending[z]
  BY DEF Emit, TypeOK
<1>4. emitted' \in [Sensors -> Nat] /\ emitted'[s] = emitted[s] + 1
  BY DEF Emit, TypeOK
<1>5. \A z \in Sensors : z # s => emitted'[z] = emitted[z]
  BY DEF Emit, TypeOK
<1>6. out' = [out EXCEPT ![s] = <<pending[s].t, out[s][1]>>]
  BY DEF Emit
<1>7. out[s][1] \in 0..MaxTime
  BY DEF TypeOK
<1>8. <<pending[s].t, out[s][1]>> \in (0..MaxTime) \X (0..MaxTime)
  BY <1>1, <1>7
<1>9. out' \in [Sensors -> (0..MaxTime) \X (0..MaxTime)]
  BY Zenon, <1>6, <1>8 DEF TypeOK
<1>10. out'[s][1] = pending[s].t /\ out'[s][2] = out[s][1]
  BY <1>6 DEF TypeOK
<1>11. \A z \in Sensors : z # s => out'[z] = out[z]
  BY <1>6 DEF TypeOK
<1>. QED  BY <1>1, <1>2, <1>3, <1>4, <1>5, <1>9, <1>10, <1>11 DEF Emit, Turn

(* A device adds a report to its queue. *)
LEMMA MakeFacts ==
    ASSUME TypeOK, NEW s \in Sensors, NEW lost \in 0..SeqMod, NEW t \in 1..MaxTime, Make(s, lost, t)
    PROVE  /\ made' \in [Sensors -> 0..MaxMade] /\ made'[s] > made[s]
           /\ stamp' \in [Sensors -> 0..MaxTime] /\ stamp'[s] = t /\ stamp[s] < t
           /\ queue' \in [Sensors -> Seq(Reports)]
           /\ Len(queue[s]) \in Nat /\ Len(queue'[s]) = Len(queue[s]) + 1
           /\ \A i \in 1..Len(queue[s]) : queue'[s][i] = queue[s][i]
           /\ queue'[s][Len(queue[s]) + 1].n = made'[s]
           /\ queue'[s][Len(queue[s]) + 1].t = t
           /\ \A z \in Sensors : z # s =>
                 made'[z] = made[z] /\ stamp'[z] = stamp[z] /\ queue'[z] = queue[z]
           /\ UNCHANGED <<streaming, callback, ring, pump>>
<1>. USE PumpAssumption
<1>1. made' \in [Sensors -> 0..MaxMade] /\ made'[s] > made[s]
  <2>1. made[s] \in 0..MaxMade /\ lost \in Nat
    BY DEF TypeOK
  <2>2. made[s] + 1 + lost <= MaxMade /\ made' = [made EXCEPT ![s] = @ + 1 + lost]
    BY DEF Make
  <2>3. made[s] + 1 + lost \in 0..MaxMade /\ made[s] + 1 + lost > made[s]
    BY <2>1, <2>2
  <2>. QED  BY <2>2, <2>3 DEF TypeOK
<1>2. stamp' \in [Sensors -> 0..MaxTime] /\ stamp'[s] = t /\ stamp[s] < t
  BY DEF Make, TypeOK
<1>3. PICK good \in BOOLEAN : queue' = [queue EXCEPT ![s] = Append(@, [n |-> made'[s], t |-> t, good |-> good])]
  BY DEF Make
<1>. DEFINE e == [n |-> made'[s], t |-> t, good |-> good]
<1>4. e \in Reports /\ e.n = made'[s] /\ e.t = t
  BY <1>1 DEF Reports
<1>. HIDE DEF e
<1>5. queue[s] \in Seq(Reports)
  BY DEF TypeOK
<1>6. queue' = [queue EXCEPT ![s] = Append(queue[s], e)]
  BY <1>3 DEF e
<1>7. /\ Append(queue[s], e) \in Seq(Reports) /\ Len(Append(queue[s], e)) = Len(queue[s]) + 1
      /\ \A i \in 1..Len(queue[s]) : Append(queue[s], e)[i] = queue[s][i]
      /\ Append(queue[s], e)[Len(queue[s]) + 1] = e
  BY <1>4, <1>5, AppendFacts
<1>8. Len(queue[s]) \in Nat
  BY <1>5
<1>9. queue'[s] = Append(queue[s], e) /\ \A z \in Sensors : z # s => queue'[z] = queue[z]
  BY <1>6 DEF TypeOK
<1>10. queue' \in [Sensors -> Seq(Reports)]
  BY <1>6, <1>7 DEF TypeOK
<1>11. \A z \in Sensors : z # s => made'[z] = made[z] /\ stamp'[z] = stamp[z]
  BY DEF Make, TypeOK
<1>12. UNCHANGED <<streaming, callback, ring, pump>>
  BY DEF Make
<1>. QED  BY <1>1, <1>2, <1>4, <1>7, <1>8, <1>9, <1>10, <1>11, <1>12

-----------------------------------------------------------------------------
(* The first state, and those in which the rings are new.                  *)
LEMMA FreshFacts == ASSUME NEW v PROVE \A s \in Sensors : Fresh(v)[s] = v
BY DEF Fresh

LEMMA FreshTypes == ASSUME NEW S, NEW v \in S PROVE Fresh(v) \in [Sensors -> S]
BY DEF Fresh

LEMMA InitIInv == Init => IInv
<1>. SUFFICES ASSUME Init PROVE IInv
  OBVIOUS
<1>. USE PumpAssumption
<1>1. Len(<<>>) = 0 /\ 1..Len(<<>>) = {}
  BY EmptyFacts
<1>2. TypeOK
  <2>1. made \in [Sensors -> 0..MaxMade] /\ stamp \in [Sensors -> 0..MaxTime]
    <3>1. 0 \in 0..MaxMade /\ 0 \in 0..MaxTime
      OBVIOUS
    <3>. QED  BY Zenon, <3>1, FreshTypes DEF Init
  <2>2. queue \in [Sensors -> Seq(Reports)] /\ ring \in [Sensors -> Seq(Samples)]
    BY FreshTypes, EmptyFacts DEF Init
  <2>3. last_seq \in [Sensors -> (0..SeqMod - 1) \cup {None}]
    BY FreshTypes DEF Init
  <2>4. stats \in [Sensors -> [received : Nat, dropped : Nat, overruns : Nat, malformed : Nat]]
    <3>1. NoStats \in [received : Nat, dropped : Nat, overruns : Nat, malformed : Nat]
      BY DEF NoStats
    <3>. QED  BY Zenon, <3>1, FreshTypes DEF Init
  <2>5. pending \in [Sensors -> Samples \cup {None}]
    BY FreshTypes DEF Init
  <2>6. first \in [Sensors -> Nat] /\ upto \in [Sensors -> Nat] /\ emitted \in [Sensors -> Nat]
    BY FreshTypes DEF Init
  <2>7. close \in [Sensors -> BOOLEAN]
    BY FreshTypes DEF Init
  <2>8. out \in [Sensors -> (0..MaxTime) \X (0..MaxTime)]
    <3>1. <<0, 0>> \in (0..MaxTime) \X (0..MaxTime)
      OBVIOUS
    <3>. QED  BY Zenon, <3>1, FreshTypes DEF Init
  <2>9. streaming \subseteq Sensors /\ pc \in {"closed", "idle", "accel", "gyro", "take"}
        /\ pushed \in 0..MaxTime /\ punctual \in BOOLEAN
    BY DEF Init
  <2>. QED  BY <2>1, <2>2, <2>3, <2>4, <2>5, <2>6, <2>7, <2>8, <2>9 DEF TypeOK
<1>3. \A s \in Sensors :
        /\ made[s] = 0 /\ stamp[s] = 0 /\ queue[s] = <<>> /\ last_seq[s] = None /\ ring[s] = <<>>
        /\ stats[s] = NoStats /\ first[s] = 0 /\ upto[s] = 0 /\ pending[s] = None
        /\ emitted[s] = 0 /\ out[s] = <<0, 0>> /\ close[s] = TRUE
  BY FreshFacts DEF Init
<1>4. pushed = 0
  BY DEF Init
<1>5. \A s \in Sensors : Numbered(s)
  BY <1>1, <1>3 DEF Numbered
<1>6. Accounted
  <2>1. (0 - 0 - 0) % SeqMod = 0
    BY ModUnique, 0 = (SeqMod * 0) + 0, 0 \in 0..SeqMod - 1
  <2>. QED  BY <1>1, <1>3, <2>1 DEF Accounted, Kept, Counted, Span, NoStats
<1>7. Streams
  BY <1>1, <1>3, <1>4 DEF Streams, Stream, Queued, Ringed, Emitted, Held
<1>8. Merging
  BY <1>1, <1>3, SensorFacts DEF Merging, NotBefore
<1>. QED  BY <1>2, <1>5, <1>6, <1>7, <1>8 DEF IInv

LEMMA OpenedInv == ASSUME NEW found \in SUBSET Sensors, Opened(found) PROVE IInv'
<1>. USE PumpAssumption
<1>1. Len(<<>>) = 0 /\ 1..Len(<<>>) = {}
  BY EmptyFacts
<1>2. TypeOK'
  <2>1. made' \in [Sensors -> 0..MaxMade] /\ stamp' \in [Sensors -> 0..MaxTime]
    <3>1. 0 \in 0..MaxMade /\ 0 \in 0..MaxTime
      OBVIOUS
    <3>. QED  BY Zenon, <3>1, FreshTypes DEF Opened
  <2>2. queue' \in [Sensors -> Seq(Reports)] /\ ring' \in [Sensors -> Seq(Samples)]
    BY FreshTypes, EmptyFacts DEF Opened
  <2>3. last_seq' \in [Sensors -> (0..SeqMod - 1) \cup {None}]
    BY FreshTypes DEF Opened
  <2>4. stats' \in [Sensors -> [received : Nat, dropped : Nat, overruns : Nat, malformed : Nat]]
    <3>1. NoStats \in [received : Nat, dropped : Nat, overruns : Nat, malformed : Nat]
      BY DEF NoStats
    <3>. QED  BY Zenon, <3>1, FreshTypes DEF Opened
  <2>5. pending' \in [Sensors -> Samples \cup {None}]
    BY FreshTypes DEF Opened
  <2>6. first' \in [Sensors -> Nat] /\ upto' \in [Sensors -> Nat] /\ emitted' \in [Sensors -> Nat]
    BY FreshTypes DEF Opened
  <2>7. close' \in [Sensors -> BOOLEAN]
    BY FreshTypes DEF Opened
  <2>8. out' \in [Sensors -> (0..MaxTime) \X (0..MaxTime)]
    <3>1. <<0, 0>> \in (0..MaxTime) \X (0..MaxTime)
      OBVIOUS
    <3>. QED  BY Zenon, <3>1, FreshTypes DEF Opened
  <2>9. streaming' \subseteq Sensors /\ pc' \in {"closed", "idle", "accel", "gyro", "take"}
        /\ pushed' \in 0..MaxTime /\ punctual' \in BOOLEAN
    BY DEF Opened
  <2>. QED  BY <2>1, <2>2, <2>3, <2>4, <2>5, <2>6, <2>7, <2>8, <2>9 DEF TypeOK
<1>3. \A s \in Sensors :
        /\ made'[s] = 0 /\ stamp'[s] = 0 /\ queue'[s] = <<>> /\ last_seq'[s] = None /\ ring'[s] = <<>>
        /\ stats'[s] = NoStats /\ first'[s] = 0 /\ upto'[s] = 0 /\ pending'[s] = None
        /\ emitted'[s] = 0 /\ out'[s] = <<0, 0>> /\ close'[s] = TRUE
  BY FreshFacts DEF Opened
<1>4. pushed' = 0
  BY DEF Opened
<1>5. \A s \in Sensors : Numbered(s)'
  BY <1>1, <1>3 DEF Numbered
<1>6. Accounted'
  <2>1. (0 - 0 - 0) % SeqMod = 0
    BY ModUnique, 0 = (SeqMod * 0) + 0, 0 \in 0..SeqMod - 1
  <2>. QED  BY <1>1, <1>3, <2>1 DEF Accounted, Kept, Counted, Span, NoStats
<1>7. Streams'
  BY <1>1, <1>3, <1>4 DEF Streams, Stream, Queued, Ringed, Emitted, Held
<1>8. Merging'
  BY <1>1, <1>3, SensorFacts DEF Merging, NotBefore
<1>. QED  BY <1>2, <1>5, <1>6, <1>7, <1>8 DEF IInv

-----------------------------------------------------------------------------
(* The types. *)
LEMMA TypeStep == ASSUME TypeOK, Next PROVE TypeOK'
<1>1. CASE Open
  BY <1>1, OpenedInv DEF Open, Found, IInv
<1>2. CASE OpenFails
  BY <1>2 DEF OpenFails, TypeOK, callback
<1>3. ASSUME NEW s \in Sensors, NEW lost \in 0..SeqMod, NEW t \in 1..MaxTime, Make(s, lost, t)
      PROVE  TypeOK'
  BY <1>3, MakeFacts DEF TypeOK, callback, pump
<1>4. ASSUME NEW s \in Sensors, Malformed(s) PROVE TypeOK'
  <2>1. Called(s) /\ UNCHANGED <<last_seq, first, upto, close, pushed, punctual, ring>>
    BY <1>4 DEF Malformed
  <2>2. queue' \in [Sensors -> Seq(Reports)]
    BY <2>1, CalledFacts
  <2>3. stats' \in [Sensors -> [received : Nat, dropped : Nat, overruns : Nat, malformed : Nat]]
    BY <1>4, MalformedFacts
  <2>. QED  BY <2>1, <2>2, <2>3 DEF TypeOK, Called, pump
<1>5. ASSUME NEW s \in Sensors, Receive(s) PROVE TypeOK'
  <2>1. Called(s)
    BY <1>5 DEF Receive
  <2>2. queue' \in [Sensors -> Seq(Reports)]
    BY <2>1, CalledFacts
  <2>3. PICK r \in Reports : Parsed(s, r.n, r.t, 0) /\ ring' \in [Sensors -> Seq(Samples)]
    BY <1>5, ReceiveFacts
  <2>4. r.n \in Nat /\ r.t \in 0..MaxTime /\ 0 \in Nat
    BY SampleFacts
  <2>. QED  BY <2>1, <2>2, <2>3, <2>4, ParsedFacts DEF TypeOK, Called, pump
<1>6. ASSUME NEW s \in Sensors, Overrun(s) PROVE TypeOK'
  <2>1. Called(s)
    BY <1>6 DEF Overrun
  <2>2. queue' \in [Sensors -> Seq(Reports)]
    BY <2>1, CalledFacts
  <2>3. PICK r \in Reports : Parsed(s, r.n, r.t, 1) /\ ring' = ring
    BY <1>6, OverrunFacts
  <2>4. r.n \in Nat /\ r.t \in 0..MaxTime /\ 1 \in Nat
    BY SampleFacts
  <2>. QED  BY <2>1, <2>2, <2>3, <2>4, ParsedFacts DEF TypeOK, Called, pump
<1>7. CASE Drain \/ Drained
  BY <1>7 DEF Drain, Drained, TypeOK, Turn, device, callback
<1>8. CASE FillAccel \/ FillGyro
  <2>1. PICK s \in Sensors : Fill(s) /\ pc' \in {"gyro", "take"}
    BY <1>8, SensorFacts DEF FillAccel, FillGyro
  <2>2. pending' \in [Sensors -> Samples \cup {None}] /\ ring' \in [Sensors -> Seq(Samples)]
    BY <2>1, FillFacts DEF TypeOK
  <2>. QED  BY <2>1, <2>2 DEF Fill, TypeOK, Turn, device, callback
<1>9. ASSUME NEW s \in Sensors, Emit(s) PROVE TypeOK'
  <2>1. /\ pending' \in [Sensors -> Samples \cup {None}] /\ emitted' \in [Sensors -> Nat]
        /\ out' \in [Sensors -> (0..MaxTime) \X (0..MaxTime)]
    BY <1>9, EmitFacts
  <2>. QED  BY <1>9, <2>1 DEF Emit, TypeOK, Turn, device, callback
<1>. QED
  BY <1>1, <1>2, <1>3, <1>4, <1>5, <1>6, <1>7, <1>8, <1>9 DEF Next, Callback

-----------------------------------------------------------------------------
(* Numbers. *)
LEMMA SameNumbered ==
    ASSUME NEW z \in Sensors, Numbered(z), last_seq'[z] = last_seq[z], close'[z] = close[z],
           upto'[z] = upto[z], queue'[z] = queue[z], made'[z] = made[z]
    PROVE  Numbered(z)'
BY DEF Numbered

LEMMA CalledNumbered ==
    ASSUME TypeOK, NEW s \in Sensors, Called(s), Numbered(s),
           \/ last_seq'[s] = last_seq[s] /\ close'[s] = close[s] /\ upto'[s] = upto[s]
           \/ /\ last_seq'[s] = upto'[s] % SeqMod /\ last_seq'[s] # None
              /\ upto'[s] = queue[s][1].n
    PROVE  Numbered(s)'
<1>. DEFINE q == queue[s]
            p == queue'[s]
<1>1. /\ Len(q) \in Nat /\ Len(q) >= 1 /\ q[1] \in Reports /\ Len(p) = Len(q) - 1
      /\ \A i \in 1..Len(p) : i + 1 \in 1..Len(q) /\ p[i] = q[i + 1]
  BY CalledFacts
<1>2. made'[s] = made[s] /\ upto[s] \in Nat /\ made[s] \in Nat
  BY DEF Called, TypeOK
<1>3. \A i \in 1..Len(q) : q[i].n \in Nat
  <2>1. q \in Seq(Reports)
    BY DEF TypeOK
  <2>2. \A i \in 1..Len(q) : q[i] \in Reports
    BY <2>1
  <2>. QED  BY <2>2, SampleFacts
<1>4. \A i \in 1..Len(q) : upto[s] < q[i].n /\ q[i].n <= made[s]
  BY DEF Numbered
<1>5. \A i, j \in 1..Len(q) : i < j => q[i].n < q[j].n
  BY DEF Numbered
<1>6. last_seq[s] = None => close[s]
  BY DEF Numbered
<1>7. last_seq[s] # None => last_seq[s] = upto[s] % SeqMod
  BY DEF Numbered
<1>. HIDE DEF q, p
<1>8. 1 \in 1..Len(q)
  BY <1>1
<1>9. \A i \in 1..Len(p) : q[1].n < p[i].n /\ upto[s] < p[i].n /\ p[i].n <= made'[s]
  <2>. TAKE i \in 1..Len(p)
  <2>1. i + 1 \in 1..Len(q) /\ p[i] = q[i + 1] /\ 1 < i + 1
    BY <1>1
  <2>. QED  BY <1>2, <1>4, <1>5, <1>8, <2>1
<1>10. \A i, j \in 1..Len(p) : i < j => p[i].n < p[j].n
  BY <1>1, <1>5
<1>11. q[1].n <= made'[s] /\ upto[s] <= made'[s]
  BY <1>2, <1>4, <1>8, <1>3
<1>. QED  BY <1>6, <1>7, <1>9, <1>10, <1>11 DEF Numbered, q, p

LEMMA NumberStep ==
    ASSUME TypeOK, \A s \in Sensors : Numbered(s), Next
    PROVE  \A s \in Sensors : Numbered(s)'
<1>1. CASE Open
  BY <1>1, OpenedInv DEF Open, Found, IInv
<1>2. CASE OpenFails
  BY <1>2, SameNumbered DEF OpenFails, callback
<1>3. ASSUME NEW s \in Sensors, NEW lost \in 0..SeqMod, NEW t \in 1..MaxTime, Make(s, lost, t),
             NEW z \in Sensors
      PROVE  Numbered(z)'
  <2>1. UNCHANGED <<last_seq, close, upto>>
    BY <1>3, MakeFacts DEF callback
  <2>2. CASE z = s
    <3>1. /\ made[s] \in Nat /\ made'[s] \in Nat /\ made'[s] > made[s]
          /\ Len(queue[s]) \in Nat /\ Len(queue'[s]) = Len(queue[s]) + 1
          /\ \A i \in 1..Len(queue[s]) : queue'[s][i] = queue[s][i]
          /\ queue'[s][Len(queue[s]) + 1].n = made'[s]
      <4>1. made[s] \in Nat
        BY DEF TypeOK
      <4>2. made' \in [Sensors -> 0..MaxMade] /\ made'[s] > made[s]
        BY <1>3, MakeFacts
      <4>3. /\ Len(queue[s]) \in Nat /\ Len(queue'[s]) = Len(queue[s]) + 1
            /\ \A i \in 1..Len(queue[s]) : queue'[s][i] = queue[s][i]
            /\ queue'[s][Len(queue[s]) + 1].n = made'[s]
        BY <1>3, MakeFacts
      <4>. QED  BY <4>1, <4>2, <4>3
    <3>2. upto[s] \in Nat /\ \A i \in 1..Len(queue[s]) : queue[s][i].n \in Nat
      <4>1. queue[s] \in Seq(Reports)
        BY DEF TypeOK
      <4>2. \A i \in 1..Len(queue[s]) : queue[s][i] \in Reports
        BY <4>1
      <4>. QED  BY <4>2, SampleFacts DEF TypeOK
    <3>3. Numbered(s)
      OBVIOUS
    <3>4. \A i \in 1..Len(queue'[s]) : i \in 1..Len(queue[s]) \/ i = Len(queue[s]) + 1
      BY <3>1
    <3>5. upto[s] < made'[s]
      BY <3>1, <3>2, <3>3 DEF Numbered
    <3>6. \A i \in 1..Len(queue'[s]) : upto[s] < queue'[s][i].n /\ queue'[s][i].n <= made'[s]
      <4>. TAKE i \in 1..Len(queue'[s])
      <4>1. CASE i \in 1..Len(queue[s])
        <5>1. queue'[s][i] = queue[s][i] /\ queue[s][i].n \in Nat
          BY <3>1, <3>2, <4>1
        <5>2. upto[s] < queue[s][i].n /\ queue[s][i].n <= made[s]
          BY <3>3, <4>1 DEF Numbered
        <5>. QED  BY <3>1, <5>1, <5>2
      <4>2. CASE i = Len(queue[s]) + 1
        BY <3>1, <3>5, <4>2
      <4>. QED  BY <3>4, <4>1, <4>2
    <3>7. \A i, j \in 1..Len(queue'[s]) : i < j => queue'[s][i].n < queue'[s][j].n
      <4>. SUFFICES ASSUME NEW i \in 1..Len(queue'[s]), NEW j \in 1..Len(queue'[s]), i < j
                    PROVE  queue'[s][i].n < queue'[s][j].n
        OBVIOUS
      <4>1. i \in 1..Len(queue[s]) /\ queue'[s][i] = queue[s][i]
        BY <3>1, <3>4
      <4>2. queue[s][i].n <= made[s]
        BY <3>3, <4>1 DEF Numbered
      <4>3. CASE j \in 1..Len(queue[s])
        <5>1. queue'[s][j] = queue[s][j]
          BY <3>1, <4>3
        <5>2. queue[s][i].n < queue[s][j].n
          BY <3>3, <4>1, <4>3 DEF Numbered
        <5>. QED  BY <4>1, <5>1, <5>2
      <4>4. CASE j = Len(queue[s]) + 1
        BY <3>1, <3>2, <4>1, <4>2, <4>4
      <4>. QED  BY <3>4, <4>3, <4>4
    <3>. QED  BY <2>1, <2>2, <3>3, <3>5, <3>6, <3>7, <3>1, <3>2 DEF Numbered
  <2>3. CASE z # s
    BY <2>1, <2>3, <1>3, MakeFacts, SameNumbered
  <2>. QED  BY <2>2, <2>3
<1>4. ASSUME NEW s \in Sensors, Malformed(s), NEW z \in Sensors PROVE Numbered(z)'
  <2>1. Called(s) /\ UNCHANGED <<last_seq, close, upto>>
    BY <1>4 DEF Malformed
  <2>2. CASE z = s
    BY <2>1, <2>2, CalledNumbered
  <2>3. CASE z # s
    BY <2>1, <2>3, CalledFacts, SameNumbered DEF Called
  <2>. QED  BY <2>2, <2>3
<1>5. ASSUME NEW s \in Sensors, Receive(s) \/ Overrun(s), NEW z \in Sensors PROVE Numbered(z)'
  <2>1. Called(s)
    BY <1>5 DEF Receive, Overrun
  <2>2. PICK r \in Reports, over \in {0, 1} : r = queue[s][1] /\ Parsed(s, r.n, r.t, over)
    BY <1>5, ReceiveFacts, OverrunFacts
  <2>3. r.n \in Nat /\ r.t \in 0..MaxTime /\ over \in Nat
    <3>1. over \in Nat
      OBVIOUS
    <3>. QED  BY <3>1, SampleFacts
  <2>4. /\ last_seq'[s] = r.n % SeqMod /\ last_seq'[s] # None /\ upto'[s] = r.n
        /\ \A y \in Sensors : y # s =>
                last_seq'[y] = last_seq[y] /\ upto'[y] = upto[y] /\ close'[y] = close[y]
    BY <2>2, <2>3, ParsedFacts
  <2>5. CASE z = s
    BY <2>1, <2>2, <2>4, <2>5, CalledNumbered
  <2>6. CASE z # s
    BY <2>1, <2>4, <2>6, CalledFacts, SameNumbered DEF Called
  <2>. QED  BY <2>5, <2>6
<1>6. ASSUME Turn PROVE \A s \in Sensors : Numbered(s)'
  BY <1>6, SameNumbered DEF Turn, device, callback
<1>. QED
  BY <1>1, <1>2, <1>3, <1>4, <1>5, <1>6
     DEF Next, Callback, Drain, FillAccel, FillGyro, Fill, Emit, Drained

-----------------------------------------------------------------------------
(* Counts. *)
LEMMA StatTypes ==
    ASSUME TypeOK, NEW s \in Sensors
    PROVE  /\ stats[s].received \in Nat /\ stats[s].dropped \in Nat /\ stats[s].overruns \in Nat
           /\ emitted[s] \in Nat /\ Len(ring[s]) \in Nat
           /\ upto[s] \in Nat /\ first[s] \in Nat /\ close[s] \in BOOLEAN
<1>1. stats[s] \in [received : Nat, dropped : Nat, overruns : Nat, malformed : Nat]
  BY DEF TypeOK
<1>2. ring[s] \in Seq(Samples)
  BY DEF TypeOK
<1>. QED  BY <1>1, <1>2 DEF TypeOK

LEMMA SameCounted ==
    ASSUME NEW z \in Sensors, Counted(z), last_seq'[z] = last_seq[z], close'[z] = close[z],
           upto'[z] = upto[z], first'[z] = first[z],
           stats'[z].received = stats[z].received, stats'[z].dropped = stats[z].dropped
    PROVE  Counted(z)'
BY DEF Counted, Span

LEMMA SameKept ==
    ASSUME NEW z \in Sensors, Kept(z), emitted'[z] = emitted[z], pending'[z] = pending[z],
           ring'[z] = ring[z],
           stats'[z].received = stats[z].received, stats'[z].overruns = stats[z].overruns
    PROVE  Kept(z)'
BY DEF Kept

LEMMA ParsedCounted ==
    ASSUME TypeOK, NEW s \in Sensors, Numbered(s), Counted(s), NEW n \in Nat, upto[s] < n,
           stats'[s].received = stats[s].received + 1,
           stats'[s].dropped = stats[s].dropped + Missed(s, n),
           last_seq'[s] # None, upto'[s] = n,
           first'[s] = (IF last_seq[s] = None THEN n ELSE first[s]),
           close'[s] = (close[s] /\ (last_seq[s] = None \/ n - upto[s] <= SeqMod))
    PROVE  Counted(s)'
<1>. DEFINE rec == stats[s].received
            dr == stats[s].dropped
<1>0. /\ SeqMod \in Nat \ {0} /\ rec \in Nat /\ dr \in Nat
      /\ upto[s] \in Nat /\ first[s] \in Nat /\ close[s] \in BOOLEAN
  BY PumpAssumption, StatTypes
<1>1. CASE last_seq[s] = None
  <2>1. rec + dr = 0
    BY <1>1 DEF Numbered, Counted, Span
  <2>2. rec = 0 /\ dr = 0
    BY <1>0, <2>1
  <2>3. stats'[s].received = 1 /\ stats'[s].dropped = 0
    BY <1>1, <2>2 DEF Missed
  <2>4. Span(s)' = 1
    BY <1>1 DEF Span
  <2>5. 0 % SeqMod = 0
    BY <1>0, ModUnique, 0 = (SeqMod * 0) + 0, 0 \in 0..SeqMod - 1
  <2>. QED  BY <2>3, <2>4, <2>5 DEF Counted
<1>2. CASE last_seq[s] # None
  <2>. DEFINE g == Missed(s, n)
              x == Span(s) - rec - dr
              y == n - upto[s] - 1 - g
  <2>1. g = Gap(upto[s] % SeqMod, n % SeqMod)
    BY <1>2 DEF Missed, Numbered
  <2>2. g \in Nat
    BY MissedType
  <2>7. stats'[s].received = rec + 1 /\ stats'[s].dropped = dr + g
    OBVIOUS
  <2>. HIDE DEF g
  <2>3. y % SeqMod = 0 /\ (n - upto[s] - 1 \in 0..SeqMod - 1 => g = n - upto[s] - 1)
    <3>1. upto[s] \in Int /\ n \in Int /\ g \in Int
      BY <1>0, <2>2
    <3>. HIDE DEF rec, dr
    <3>. QED  BY <2>1, <3>1, GapFacts
  <2>4. Span(s) = upto[s] - first[s] + 1 /\ Span(s)' = n - first[s] + 1
    BY <1>2 DEF Span
  <2>5. x % SeqMod = 0
    BY DEF Counted
  <2>6. x \in Int /\ y \in Int
    BY <1>0, <2>2, <2>4
  <2>8. ASSUME close'[s] PROVE stats'[s].received + stats'[s].dropped = Span(s)'
    <3>1. close[s] /\ n - upto[s] <= SeqMod
      BY Zenon, <1>2, <2>8
    <3>2. g = n - upto[s] - 1
      BY <1>0, <2>3, <3>1
    <3>3. rec + dr = Span(s)
      BY <3>1 DEF Counted
    <3>. HIDE DEF rec, dr
    <3>. QED  BY <1>0, <2>4, <2>7, <3>2, <3>3
  <2>. HIDE DEF rec, dr
  <2>9. Span(s)' - stats'[s].received - stats'[s].dropped = x + y
    BY <1>0, <2>2, <2>4, <2>7
  <2>. HIDE DEF x, y
  <2>10. (x + y) % SeqMod = 0
    BY <1>0, <2>3, <2>5, <2>6, ModAdd
  <2>. QED  BY <2>8, <2>9, <2>10 DEF Counted
<1>. QED  BY <1>1, <1>2

LEMMA CountStep ==
    ASSUME TypeOK, \A s \in Sensors : Numbered(s), Accounted, Next
    PROVE  \A s \in Sensors : Counted(s)'
<1>. \A s \in Sensors : Counted(s)
  BY DEF Accounted
<1>1. CASE Open
  BY <1>1, OpenedInv DEF Open, Found, IInv, Accounted
<1>2. CASE OpenFails
  BY <1>2, SameCounted DEF OpenFails, callback
<1>3. ASSUME NEW s \in Sensors, NEW lost \in 0..SeqMod, NEW t \in 1..MaxTime, Make(s, lost, t)
      PROVE  \A z \in Sensors : Counted(z)'
  BY <1>3, SameCounted DEF Make, callback
<1>4. ASSUME NEW s \in Sensors, Malformed(s) PROVE \A z \in Sensors : Counted(z)'
  BY <1>4, MalformedFacts, SameCounted DEF Malformed
<1>5. ASSUME NEW s \in Sensors, Receive(s) \/ Overrun(s), NEW z \in Sensors PROVE Counted(z)'
  <2>1. Called(s)
    BY <1>5 DEF Receive, Overrun
  <2>2. PICK r \in Reports, over \in {0, 1} : r = queue[s][1] /\ Parsed(s, r.n, r.t, over)
    BY <1>5, ReceiveFacts, OverrunFacts
  <2>3. r.n \in Nat /\ r.t \in 0..MaxTime /\ over \in Nat
    <3>1. over \in Nat
      OBVIOUS
    <3>. QED  BY <3>1, SampleFacts
  <2>4. CASE z = s
    <3>1. upto[s] < r.n
      <4>1. 1 \in 1..Len(queue[s])
        BY <2>1, CalledFacts
      <4>. QED  BY <2>2, <4>1 DEF Numbered
    <3>. QED  BY <2>2, <2>3, <2>4, <3>1, ParsedFacts, ParsedCounted
  <2>5. CASE z # s
    <3>1. /\ last_seq'[z] = last_seq[z] /\ stats'[z] = stats[z] /\ first'[z] = first[z]
          /\ upto'[z] = upto[z] /\ close'[z] = close[z]
      BY <2>2, <2>3, <2>5, ParsedFacts
    <3>. QED  BY <3>1, SameCounted
  <2>. QED  BY <2>4, <2>5
<1>6. ASSUME Turn PROVE \A s \in Sensors : Counted(s)'
  BY <1>6, SameCounted DEF Turn, callback
<1>. QED
  BY <1>1, <1>2, <1>3, <1>4, <1>5, <1>6
     DEF Next, Callback, Drain, FillAccel, FillGyro, Fill, Emit, Drained

LEMMA KeptStep ==
    ASSUME TypeOK, Accounted, Next
    PROVE  \A s \in Sensors : Kept(s)'
<1>. \A s \in Sensors : Kept(s)
  BY DEF Accounted
<1>1. CASE Open
  BY <1>1, OpenedInv DEF Open, Found, IInv, Accounted
<1>2. CASE OpenFails
  BY <1>2, SameKept DEF OpenFails, callback
<1>3. ASSUME NEW s \in Sensors, NEW lost \in 0..SeqMod, NEW t \in 1..MaxTime, Make(s, lost, t)
      PROVE  \A z \in Sensors : Kept(z)'
  BY <1>3, SameKept DEF Make, callback, pump
<1>4. ASSUME NEW s \in Sensors, Malformed(s) PROVE \A z \in Sensors : Kept(z)'
  BY <1>4, MalformedFacts, SameKept DEF Malformed, Called, pump
<1>5. ASSUME NEW s \in Sensors, Receive(s) \/ Overrun(s), NEW z \in Sensors PROVE Kept(z)'
  <2>1. pending' = pending /\ emitted' = emitted
    BY <1>5 DEF Receive, Overrun, Called, pump
  <2>2. PICK r \in Reports, over \in {0, 1} :
            /\ Parsed(s, r.n, r.t, over)
            /\ Len(ring'[s]) + over = Len(ring[s]) + 1
            /\ \A y \in Sensors : y # s => ring'[y] = ring[y]
    <3>1. Len(ring[s]) \in Nat
      BY StatTypes
    <3>2. CASE Receive(s)
      <4>1. PICK r \in Reports :
              /\ Parsed(s, r.n, r.t, 0) /\ Len(ring'[s]) = Len(ring[s]) + 1
              /\ \A y \in Sensors : y # s => ring'[y] = ring[y]
        BY <3>2, ReceiveFacts
      <4>2. Len(ring'[s]) + 0 = Len(ring[s]) + 1
        BY <3>1, <4>1
      <4>. QED  BY <4>1, <4>2, 0 \in {0, 1}
    <3>3. CASE Overrun(s)
      BY <3>1, <3>3, OverrunFacts, 1 \in {0, 1}
    <3>. QED  BY <1>5, <3>2, <3>3
  <2>3. r.n \in Nat /\ r.t \in 0..MaxTime /\ over \in Nat
    <3>1. over \in Nat
      OBVIOUS
    <3>. QED  BY <3>1, SampleFacts
  <2>4. CASE z = s
    <3>1. /\ stats'[s].received = stats[s].received + 1
          /\ stats'[s].overruns = stats[s].overruns + over
      BY <2>2, <2>3, ParsedFacts
    <3>2. TypeOK'
      BY TypeStep
    <3>3. ring'[s] \in Seq(Samples)
      BY <3>2 DEF TypeOK
    <3>4. Len(ring[s]) \in Nat /\ Len(ring'[s]) \in Nat
      BY <3>3, StatTypes
    <3>5. /\ stats[s].received \in Nat /\ stats[s].overruns \in Nat /\ emitted[s] \in Nat
          /\ over \in Nat /\ Len(ring'[s]) + over = Len(ring[s]) + 1
      BY <2>2, <2>3, StatTypes
    <3>6. Kept(s) /\ emitted'[s] = emitted[s] /\ pending'[s] = pending[s]
      BY <2>1
    <3>7. PICK h \in Nat : h = IF pending[s] = None THEN 0 ELSE 1
      OBVIOUS
    <3>8. stats[s].received = emitted[s] + h + Len(ring[s]) + stats[s].overruns
      BY <3>6, <3>7 DEF Kept
    <3>9. stats'[s].received = emitted'[s] + h + Len(ring'[s]) + stats'[s].overruns
      <4>1. PICK e \in Nat, l \in Nat, m \in Nat, o \in Nat :
                e = emitted[s] /\ l = Len(ring[s]) /\ m = Len(ring'[s]) /\ o = stats[s].overruns
        BY <3>4, <3>5
      <4>2. m + over = l + 1 /\ over \in Nat /\ h \in Nat
        BY <3>5, <3>7, <4>1
      <4>3. (e + h + l + o) + 1 = e + h + m + (o + over)
        BY <4>2
      <4>4. stats'[s].received = (emitted[s] + h + Len(ring[s]) + stats[s].overruns) + 1
        BY <3>1, <3>8
      <4>5. emitted'[s] = emitted[s] /\ stats'[s].overruns = stats[s].overruns + over
        BY <3>1, <3>6
      <4>. QED  BY Zenon, <4>1, <4>3, <4>4, <4>5
    <3>10. h = IF pending'[s] = None THEN 0 ELSE 1
      BY <3>6, <3>7
    <3>. QED  BY <2>4, <3>9, <3>10 DEF Kept
  <2>5. CASE z # s
    <3>1. stats'[z] = stats[z]
      BY <2>2, <2>3, <2>5, ParsedFacts
    <3>2. ring'[z] = ring[z] /\ pending'[z] = pending[z] /\ emitted'[z] = emitted[z]
      BY <2>1, <2>2, <2>5
    <3>. QED  BY <3>1, <3>2 DEF Kept
  <2>. QED  BY <2>4, <2>5
<1>6. CASE Drain \/ Drained
  BY <1>6, SameKept DEF Drain, Drained, Turn, callback
<1>7. ASSUME NEW s \in Sensors, Fill(s), NEW z \in Sensors PROVE Kept(z)'
  <2>1. UNCHANGED <<stats, emitted>>
    BY <1>7 DEF Fill, Turn, callback
  <2>2. CASE ring' = ring /\ pending' = pending
    BY <2>1, <2>2, SameKept
  <2>3. CASE /\ pending[s] = None /\ pending'[s] = ring[s][1] /\ ring[s][1] \in Samples
             /\ \A y \in Sensors : y # s => pending'[y] = pending[y]
             /\ Len(ring[s]) \in Nat /\ Len(ring'[s]) = Len(ring[s]) - 1
             /\ \A y \in Sensors : y # s => ring'[y] = ring[y]
    <3>1. CASE z = s
      <4>1. pending'[s] # None
        BY <2>3, SampleFacts
      <4>. QED  BY <2>1, <2>3, <3>1, <4>1, StatTypes DEF Kept
    <3>2. CASE z # s
      BY <2>1, <2>3, <3>2, SameKept
    <3>. QED  BY <3>1, <3>2
  <2>. QED  BY <1>7, <2>2, <2>3, FillFacts
<1>8. ASSUME NEW s \in Sensors, Emit(s), NEW z \in Sensors PROVE Kept(z)'
  <2>1. UNCHANGED <<stats, ring>>
    BY <1>8 DEF Emit, Turn, callback
  <2>2. CASE z = s
    <3>1. pending[s] # None /\ pending'[s] = None /\ emitted'[s] = emitted[s] + 1
      BY <1>8, EmitFacts, SampleFacts
    <3>. QED  BY <2>1, <2>2, <3>1, StatTypes DEF Kept
  <2>3. CASE z # s
    BY <1>8, <2>1, <2>3, EmitFacts, SameKept
  <2>. QED  BY <2>2, <2>3
<1>. QED
  BY <1>1, <1>2, <1>3, <1>4, <1>5, <1>6, <1>7, <1>8, SensorFacts
     DEF Next, Callback, FillAccel, FillGyro

-----------------------------------------------------------------------------
(* Times along one stream. *)
LEMMA TimeTypes ==
    ASSUME TypeOK, NEW s \in Sensors
    PROVE  /\ Len(queue[s]) \in Nat /\ \A i \in 1..Len(queue[s]) : queue[s][i].t \in Nat
           /\ Len(ring[s]) \in Nat /\ \A i \in 1..Len(ring[s]) : ring[s][i].t \in Nat
           /\ pending[s] # None => pending[s].t \in Nat
           /\ out[s][1] \in Nat /\ out[s][2] \in Nat /\ stamp[s] \in Nat /\ pushed \in Nat
<1>1. queue[s] \in Seq(Reports) /\ ring[s] \in Seq(Samples)
  BY DEF TypeOK
<1>2. \A i \in 1..Len(queue[s]) : queue[s][i] \in Reports
  BY <1>1
<1>3. \A i \in 1..Len(ring[s]) : ring[s][i] \in Samples
  BY <1>1
<1>4. Len(queue[s]) \in Nat /\ Len(ring[s]) \in Nat
  BY <1>1
<1>5. pending[s] # None => pending[s] \in Samples
  BY DEF TypeOK
<1>6. stamp[s] \in Nat /\ pushed \in Nat
  BY PumpAssumption DEF TypeOK
<1>7. out[s] \in (0..MaxTime) \X (0..MaxTime)
  BY DEF TypeOK
<1>8. out[s][1] \in Nat /\ out[s][2] \in Nat
  BY <1>7, PumpAssumption
<1>. QED  BY <1>2, <1>3, <1>4, <1>5, <1>6, <1>8, SampleFacts

LEMMA SameStream ==
    ASSUME TypeOK, NEW z \in Sensors, Stream(z), queue'[z] = queue[z], ring'[z] = ring[z],
           pending'[z] = pending[z], out'[z] = out[z], stamp'[z] = stamp[z],
           pushed' \in Nat, pushed <= pushed'
    PROVE  Stream(z)'
<1>. USE TimeTypes
<1>1. Queued(z)'
  BY DEF Stream, Queued
<1>2. Ringed(z)'
  BY DEF Stream, Ringed
<1>3. Emitted(z)'
  BY DEF Stream, Emitted
<1>4. Held(z)'
  BY DEF Stream, Held
<1>. QED  BY <1>1, <1>2, <1>3, <1>4 DEF Stream

LEMMA MakeStream ==
    ASSUME TypeOK, NEW s \in Sensors, NEW lost \in 0..SeqMod, NEW t \in 1..MaxTime,
           Make(s, lost, t), Stream(s)
    PROVE  Stream(s)'
<1>. DEFINE q == queue[s]
            p == queue'[s]
<1>1. /\ stamp'[s] = t /\ stamp[s] < t
      /\ Len(q) \in Nat /\ Len(p) = Len(q) + 1
      /\ \A i \in 1..Len(q) : p[i] = q[i]
      /\ p[Len(q) + 1].t = t
      /\ ring' = ring /\ pending' = pending /\ out' = out /\ pushed' = pushed
  BY MakeFacts DEF callback, pump
<1>2. /\ \A i \in 1..Len(q) : q[i].t \in Nat
      /\ \A i \in 1..Len(ring[s]) : ring[s][i].t \in Nat
      /\ pending[s] # None => pending[s].t \in Nat
      /\ out[s][1] \in Nat /\ stamp[s] \in Nat /\ pushed \in Nat /\ t \in Nat
  BY TimeTypes
<1>3. Queued(s) /\ Ringed(s) /\ Emitted(s) /\ Held(s)
  BY DEF Stream
<1>4. \A i \in 1..Len(q) : q[i].t <= stamp[s]
  BY <1>3 DEF Queued
<1>. HIDE DEF q, p
<1>5. \A i \in 1..Len(p) :
        \/ i \in 1..Len(q) /\ p[i].t = q[i].t
        \/ i = Len(q) + 1 /\ p[i].t = t
  BY <1>1
<1>6. Queued(s)'
  <2>1. \A i \in 1..Len(p) : p[i].t <= stamp'[s]
    BY <1>1, <1>2, <1>4, <1>5
  <2>2. ASSUME NEW i \in 1..Len(p), NEW j \in 1..Len(p), i < j PROVE p[i].t < p[j].t
    <3>1. i \in 1..Len(q) /\ p[i].t = q[i].t
      BY <1>1, <1>5, <2>2
    <3>2. CASE j \in 1..Len(q) /\ p[j].t = q[j].t
      BY <1>3, <2>2, <3>1, <3>2 DEF Queued, q
    <3>3. CASE p[j].t = t
      BY <1>1, <1>2, <1>4, <3>1, <3>3
    <3>. QED  BY <1>5, <3>2, <3>3
  <2>. QED  BY <2>1, <2>2 DEF Queued, p
<1>7. Ringed(s)'
  <2>1. \A i \in 1..Len(ring[s]) : ring[s][i].t <= pushed /\ ring[s][i].t <= stamp[s]
    BY <1>3 DEF Ringed
  <2>2. \A i \in 1..Len(ring[s]) : ring[s][i].t <= stamp'[s] /\ ring[s][i].t < t
    BY <1>1, <1>2, <2>1
  <2>3. \A i \in 1..Len(ring[s]), j \in 1..Len(p) : ring[s][i].t < p[j].t
    BY <1>2, <1>3, <1>5, <2>2 DEF Ringed, q
  <2>. QED  BY <1>1, <1>3, <2>1, <2>2, <2>3 DEF Ringed, p
<1>8. Emitted(s)'
  <2>1. out[s][1] <= stamp'[s] /\ out[s][1] < t
    BY <1>1, <1>2, <1>3 DEF Emitted
  <2>2. \A j \in 1..Len(p) : out[s][1] < p[j].t
    BY <1>2, <1>3, <1>5, <2>1 DEF Emitted, q
  <2>. QED  BY <1>1, <1>3, <2>1, <2>2 DEF Emitted, p
<1>9. Held(s)'
  <2>. SUFFICES ASSUME pending[s] # None
                PROVE  pending[s].t <= stamp'[s] /\ \A j \in 1..Len(p) : pending[s].t < p[j].t
    BY <1>1, <1>3 DEF Held, p
  <2>1. pending[s].t <= stamp'[s] /\ pending[s].t < t
    BY <1>1, <1>2, <1>3 DEF Held
  <2>2. \A j \in 1..Len(p) : pending[s].t < p[j].t
    BY <1>2, <1>3, <1>5, <2>1 DEF Held, q
  <2>. QED  BY <2>1, <2>2
<1>. QED  BY <1>6, <1>7, <1>8, <1>9 DEF Stream

(* A report leaves the queue without a sample. *)
LEMMA DroppedStream ==
    ASSUME TypeOK, NEW s \in Sensors, Called(s), Stream(s), ring'[s] = ring[s],
           pushed' \in Nat, pushed <= pushed'
    PROVE  Stream(s)'
<1>. DEFINE q == queue[s]
            p == queue'[s]
<1>1. /\ Len(q) \in Nat /\ Len(p) = Len(q) - 1
      /\ \A i \in 1..Len(p) : i + 1 \in 1..Len(q) /\ p[i] = q[i + 1]
  BY CalledFacts
<1>2. stamp' = stamp /\ pending' = pending /\ out' = out
  BY DEF Called, pump
<1>3. Queued(s) /\ Ringed(s) /\ Emitted(s) /\ Held(s)
  BY DEF Stream
<1>. HIDE DEF p
<1>4. Queued(s)'
  <2>1. \A i \in 1..Len(p) : p[i].t <= stamp[s]
    BY <1>1, <1>3 DEF Queued
  <2>2. ASSUME NEW i \in 1..Len(p), NEW j \in 1..Len(p), i < j PROVE p[i].t < p[j].t
    <3>1. i + 1 \in 1..Len(q) /\ j + 1 \in 1..Len(q) /\ i + 1 < j + 1
      BY <1>1, <2>2
    <3>2. q[i + 1].t < q[j + 1].t
      BY <1>3, <3>1 DEF Queued
    <3>. QED  BY <1>1, <3>2
  <2>. QED  BY <1>2, <2>1, <2>2 DEF Queued, p
<1>5. Ringed(s)'
  <2>1. \A i \in 1..Len(ring[s]) : ring[s][i].t <= pushed'
    BY <1>3, TimeTypes DEF Ringed
  <2>2. \A i \in 1..Len(ring[s]), j \in 1..Len(p) : ring[s][i].t < p[j].t
    BY <1>1, <1>3 DEF Ringed
  <2>. QED  BY <1>2, <1>3, <2>1, <2>2 DEF Ringed, p
<1>6. Emitted(s)'
  <2>1. out[s][1] <= pushed'
    BY <1>3, TimeTypes DEF Emitted
  <2>2. \A j \in 1..Len(p) : out[s][1] < p[j].t
    BY <1>1, <1>3 DEF Emitted
  <2>. QED  BY <1>2, <1>3, <2>1, <2>2 DEF Emitted, p
<1>7. Held(s)'
  <2>. SUFFICES ASSUME pending[s] # None
                PROVE  pending[s].t <= pushed' /\ \A j \in 1..Len(p) : pending[s].t < p[j].t
    BY <1>2, <1>3 DEF Held, p
  <2>1. pending[s].t <= pushed'
    BY <1>3, TimeTypes DEF Held
  <2>2. \A j \in 1..Len(p) : pending[s].t < p[j].t
    BY <1>1, <1>3 DEF Held
  <2>. QED  BY <2>1, <2>2
<1>. QED  BY <1>4, <1>5, <1>6, <1>7 DEF Stream

(* The sample goes into the ring. *)
LEMMA ReceivedStream ==
    ASSUME TypeOK, NEW s \in Sensors, Receive(s), Stream(s)
    PROVE  Stream(s)'
<1>. DEFINE q == queue[s]
            p == queue'[s]
            l == Len(ring[s])
<1>0. Called(s)
  BY DEF Receive
<1>1. /\ Len(q) \in Nat /\ Len(q) >= 1 /\ Len(p) = Len(q) - 1 /\ 1 \in 1..Len(q)
      /\ \A i \in 1..Len(p) : i + 1 \in 1..Len(q) /\ p[i] = q[i + 1]
  BY <1>0, CalledFacts
<1>2. stamp' = stamp /\ pending' = pending /\ out' = out
  BY <1>0 DEF Called, pump
<1>3. Queued(s) /\ Ringed(s) /\ Emitted(s) /\ Held(s)
  BY DEF Stream
<1>4. PICK r \in Reports :
        /\ r = q[1] /\ Parsed(s, r.n, r.t, 0)
        /\ l \in Nat /\ Len(ring'[s]) = l + 1
        /\ \A i \in 1..l : ring'[s][i] = ring[s][i]
        /\ ring'[s][l + 1] = [n |-> r.n, t |-> r.t]
  BY ReceiveFacts
<1>5. r.n \in Nat /\ r.t \in 0..MaxTime /\ r.t \in Nat
  BY SampleFacts
<1>6. r.t <= pushed' /\ pushed <= pushed' /\ pushed' \in Nat
  <2>1. r.t <= pushed' /\ pushed <= pushed' /\ pushed' \in 0..MaxTime
    BY <1>4, <1>5, ParsedFacts, 0 \in Nat
  <2>. QED  BY <2>1, PumpAssumption
<1>7. ring'[s][l + 1].t = r.t /\ r.t = q[1].t
  BY <1>4
<1>8. /\ \A i \in 1..l : ring[s][i].t \in Nat
      /\ pending[s] # None => pending[s].t \in Nat
      /\ out[s][1] \in Nat /\ stamp[s] \in Nat /\ pushed \in Nat
      /\ \A i \in 1..Len(q) : q[i].t \in Nat
  BY TimeTypes
<1>. HIDE DEF p, l
<1>9. \A i \in 1..Len(ring'[s]) :
        \/ i \in 1..l /\ ring'[s][i].t = ring[s][i].t
        \/ i = l + 1 /\ ring'[s][i].t = r.t
  BY <1>4, <1>7
<1>10. \A i \in 1..Len(p) : r.t < p[i].t /\ p[i].t \in Nat
  <2>. TAKE i \in 1..Len(p)
  <2>1. i + 1 \in 1..Len(q) /\ 1 < i + 1 /\ p[i] = q[i + 1]
    BY <1>1
  <2>2. q[1].t < q[i + 1].t
    BY <1>1, <1>3, <2>1 DEF Queued
  <2>. QED  BY <1>7, <1>8, <2>1, <2>2
<1>11. Queued(s)'
  <2>1. \A i \in 1..Len(p) : p[i].t <= stamp[s]
    BY <1>1, <1>3 DEF Queued
  <2>2. ASSUME NEW i \in 1..Len(p), NEW j \in 1..Len(p), i < j PROVE p[i].t < p[j].t
    <3>1. i + 1 \in 1..Len(q) /\ j + 1 \in 1..Len(q) /\ i + 1 < j + 1
      BY <1>1, <2>2
    <3>2. q[i + 1].t < q[j + 1].t
      BY <1>3, <3>1 DEF Queued
    <3>. QED  BY <1>1, <3>2
  <2>. QED  BY <1>2, <2>1, <2>2 DEF Queued, p
<1>12. r.t <= stamp[s] /\ \A i \in 1..l : ring[s][i].t < r.t
  <2>1. r.t <= stamp[s]
    BY <1>1, <1>3, <1>7 DEF Queued
  <2>2. \A i \in 1..l : ring[s][i].t < r.t
    BY <1>1, <1>3, <1>7 DEF Ringed, l
  <2>. QED  BY <2>1, <2>2
<1>13. Ringed(s)'
  <2>1. \A i \in 1..Len(ring'[s]) : ring'[s][i].t <= pushed' /\ ring'[s][i].t <= stamp[s]
    <3>1. \A i \in 1..l : ring[s][i].t <= pushed /\ ring[s][i].t <= stamp[s]
      BY <1>3 DEF Ringed, l
    <3>. QED  BY <1>6, <1>8, <1>9, <1>12, <3>1
  <2>2. ASSUME NEW i \in 1..Len(ring'[s]), NEW j \in 1..Len(ring'[s]), i < j
        PROVE  ring'[s][i].t < ring'[s][j].t
    <3>1. i \in 1..l /\ ring'[s][i].t = ring[s][i].t
      BY <1>4, <1>9, <2>2
    <3>2. CASE j \in 1..l /\ ring'[s][j].t = ring[s][j].t
      BY <1>3, <2>2, <3>1, <3>2 DEF Ringed, l
    <3>3. CASE ring'[s][j].t = r.t
      BY <1>12, <3>1, <3>3
    <3>. QED  BY <1>9, <3>2, <3>3
  <2>3. \A i \in 1..Len(ring'[s]), j \in 1..Len(p) : ring'[s][i].t < p[j].t
    <3>1. \A i \in 1..l, j \in 1..Len(p) : ring[s][i].t < p[j].t
      BY <1>8, <1>10, <1>12, <1>5
    <3>. QED  BY <1>9, <1>10, <3>1
  <2>. QED  BY <1>2, <2>1, <2>2, <2>3 DEF Ringed, p
<1>14. Emitted(s)'
  <2>1. out[s][1] <= pushed' /\ out[s][1] <= stamp[s]
    BY <1>3, <1>6, <1>8 DEF Emitted
  <2>2. out[s][1] < r.t
    BY <1>1, <1>3, <1>7 DEF Emitted
  <2>3. \A i \in 1..Len(ring'[s]) : out[s][1] < ring'[s][i].t
    BY <1>3, <1>9, <2>2 DEF Emitted, l
  <2>4. \A i \in 1..Len(p) : out[s][1] < p[i].t
    BY <1>5, <1>8, <1>10, <2>2
  <2>. QED  BY <1>2, <1>3, <2>1, <2>3, <2>4 DEF Emitted, p
<1>15. Held(s)'
  <2>. SUFFICES ASSUME pending[s] # None
                PROVE  /\ pending[s].t <= pushed'
                       /\ \A i \in 1..Len(ring'[s]) : pending[s].t < ring'[s][i].t
                       /\ \A i \in 1..Len(p) : pending[s].t < p[i].t
    BY <1>2, <1>3 DEF Held, p
  <2>1. pending[s].t <= pushed' /\ pending[s].t \in Nat
    BY <1>3, <1>6, <1>8 DEF Held
  <2>2. pending[s].t < r.t
    BY <1>1, <1>3, <1>7 DEF Held
  <2>3. \A i \in 1..Len(ring'[s]) : pending[s].t < ring'[s][i].t
    BY <1>3, <1>9, <2>2 DEF Held, l
  <2>4. \A i \in 1..Len(p) : pending[s].t < p[i].t
    BY <1>5, <1>10, <2>1, <2>2
  <2>. QED  BY <2>1, <2>3, <2>4
<1>. QED  BY <1>11, <1>13, <1>14, <1>15 DEF Stream

(* The pump takes a sample from the ring. *)
LEMMA FilledStream ==
    ASSUME TypeOK, NEW s \in Sensors, Fill(s), Stream(s), NEW z \in Sensors, Stream(z)
    PROVE  Stream(z)'
<1>1. queue' = queue /\ stamp' = stamp /\ out' = out /\ pushed' = pushed
  BY DEF Fill, Turn, device, callback
<1>2. pushed' \in Nat /\ pushed <= pushed'
  BY <1>1, TimeTypes
<1>3. CASE ring' = ring /\ pending' = pending
  BY <1>1, <1>2, <1>3, SameStream
<1>4. CASE /\ pending[s] = None /\ pending'[s] = ring[s][1] /\ ring[s][1] \in Samples
           /\ \A y \in Sensors : y # s => pending'[y] = pending[y]
           /\ Len(ring[s]) \in Nat /\ Len(ring[s]) >= 1 /\ Len(ring'[s]) = Len(ring[s]) - 1
           /\ \A i \in 1..Len(ring'[s]) :
                 i + 1 \in 1..Len(ring[s]) /\ ring'[s][i] = ring[s][i + 1]
           /\ \A y \in Sensors : y # s => ring'[y] = ring[y]
  <2>1. CASE z # s
    BY <1>1, <1>2, <1>4, <2>1, SameStream
  <2>2. CASE z = s
    <3>1. Queued(s) /\ Ringed(s) /\ Emitted(s)
      BY DEF Stream
    <3>2. 1 \in 1..Len(ring[s])
      BY <1>4
    <3>3. Queued(s)'
      BY <1>1, <3>1 DEF Queued
    <3>4. Ringed(s)'
      <4>1. \A i \in 1..Len(ring'[s]) : ring'[s][i].t <= pushed /\ ring'[s][i].t <= stamp[s]
        BY <1>4, <3>1 DEF Ringed
      <4>2. ASSUME NEW i \in 1..Len(ring'[s]), NEW j \in 1..Len(ring'[s]), i < j
            PROVE  ring'[s][i].t < ring'[s][j].t
        <5>1. /\ i + 1 \in 1..Len(ring[s]) /\ j + 1 \in 1..Len(ring[s]) /\ i + 1 < j + 1
              /\ ring'[s][i] = ring[s][i + 1] /\ ring'[s][j] = ring[s][j + 1]
          BY <1>4, <4>2
        <5>2. ring[s][i + 1].t < ring[s][j + 1].t
          BY <3>1, <5>1 DEF Ringed
        <5>. QED  BY <5>1, <5>2
      <4>3. \A i \in 1..Len(ring'[s]), j \in 1..Len(queue[s]) : ring'[s][i].t < queue[s][j].t
        BY <1>4, <3>1 DEF Ringed
      <4>. QED  BY <1>1, <4>1, <4>2, <4>3 DEF Ringed
    <3>5. Emitted(s)'
      <4>1. \A i \in 1..Len(ring'[s]) : out[s][1] < ring'[s][i].t
        BY <1>4, <3>1 DEF Emitted
      <4>. QED  BY <1>1, <3>1, <4>1 DEF Emitted
    <3>6. Held(s)'
      <4>1. out[s][1] < ring[s][1].t
        BY <3>1, <3>2 DEF Emitted
      <4>2. ring[s][1].t <= pushed /\ ring[s][1].t <= stamp[s]
        BY <3>1, <3>2 DEF Ringed
      <4>3. \A i \in 1..Len(ring'[s]) : ring[s][1].t < ring'[s][i].t
        <5>. TAKE i \in 1..Len(ring'[s])
        <5>1. i + 1 \in 1..Len(ring[s]) /\ 1 < i + 1 /\ ring'[s][i] = ring[s][i + 1]
          BY <1>4
        <5>. QED  BY <3>1, <3>2, <5>1 DEF Ringed
      <4>4. \A i \in 1..Len(queue[s]) : ring[s][1].t < queue[s][i].t
        BY <3>1, <3>2 DEF Ringed
      <4>. QED  BY <1>1, <1>4, <4>1, <4>2, <4>3, <4>4 DEF Held
    <3>. QED  BY <2>2, <3>3, <3>4, <3>5, <3>6 DEF Stream
  <2>. QED  BY <2>1, <2>2
<1>. QED  BY <1>3, <1>4, FillFacts

LEMMA EmittedStream ==
    ASSUME TypeOK, NEW s \in Sensors, Emit(s), Stream(s), NEW z \in Sensors, Stream(z)
    PROVE  Stream(z)'
<1>1. queue' = queue /\ stamp' = stamp /\ ring' = ring /\ pushed' = pushed
  BY DEF Emit, Turn, device, callback
<1>2. pushed' \in Nat /\ pushed <= pushed'
  BY <1>1, TimeTypes
<1>3. /\ pending[s] # None /\ pending'[s] = None /\ out'[s][1] = pending[s].t
      /\ \A y \in Sensors : y # s => pending'[y] = pending[y] /\ out'[y] = out[y]
  BY EmitFacts, SampleFacts
<1>4. CASE z # s
  BY <1>1, <1>2, <1>3, <1>4, SameStream
<1>5. CASE z = s
  <2>1. Queued(s) /\ Ringed(s) /\ Held(s)
    BY DEF Stream
  <2>2. Queued(s)' /\ Ringed(s)'
    BY <1>1, <2>1 DEF Queued, Ringed
  <2>3. Emitted(s)'
    <3>1. out'[s][2] = out[s][1] /\ out[s][1] < pending[s].t
      BY <1>3, <2>1, EmitFacts DEF Held
    <3>2. out[s][1] \in Nat /\ pending[s].t \in Nat
      BY <1>3, TimeTypes
    <3>. QED  BY <1>1, <1>3, <2>1, <3>1, <3>2 DEF Emitted, Held
  <2>4. Held(s)'
    BY <1>3 DEF Held
  <2>. QED  BY <1>5, <2>2, <2>3, <2>4 DEF Stream
<1>. QED  BY <1>4, <1>5

LEMMA StreamStep == ASSUME TypeOK, Streams, Next PROVE Streams'
<1>. \A s \in Sensors : Stream(s)
  BY DEF Streams
<1>. \A s \in Sensors : pushed \in Nat /\ pushed <= pushed
  BY TimeTypes
<1>1. CASE Open
  BY <1>1, OpenedInv DEF Open, Found, IInv
<1>2. CASE OpenFails
  BY <1>2, SameStream DEF OpenFails, callback, Streams
<1>3. ASSUME NEW s \in Sensors, NEW lost \in 0..SeqMod, NEW t \in 1..MaxTime, Make(s, lost, t),
             NEW z \in Sensors
      PROVE  Stream(z)'
  <2>1. CASE z = s
    BY <1>3, <2>1, MakeStream
  <2>2. CASE z # s
    <3>1. /\ stamp'[z] = stamp[z] /\ queue'[z] = queue[z]
          /\ ring' = ring /\ pending' = pending /\ out' = out /\ pushed' = pushed
      BY <1>3, <2>2, MakeFacts DEF callback, pump
    <3>. QED  BY <3>1, SameStream
  <2>. QED  BY <2>1, <2>2
<1>4. ASSUME NEW s \in Sensors, Malformed(s), NEW z \in Sensors PROVE Stream(z)'
  <2>1. Called(s) /\ ring' = ring /\ pushed' = pushed
    BY <1>4 DEF Malformed
  <2>2. CASE z = s
    BY <2>1, <2>2, DroppedStream
  <2>3. CASE z # s
    BY <2>1, <2>3, CalledFacts, SameStream DEF Called, pump
  <2>. QED  BY <2>2, <2>3
<1>5. ASSUME NEW s \in Sensors, Receive(s) \/ Overrun(s), NEW z \in Sensors PROVE Stream(z)'
  <2>1. Called(s)
    BY <1>5 DEF Receive, Overrun
  <2>2. PICK r \in Reports, over \in {0, 1} : Parsed(s, r.n, r.t, over)
    BY <1>5, ReceiveFacts, OverrunFacts
  <2>3. pushed' \in Nat /\ pushed <= pushed'
    <3>1. r.n \in Nat /\ r.t \in 0..MaxTime /\ over \in Nat
      <4>1. over \in Nat
        OBVIOUS
      <4>. QED  BY <4>1, SampleFacts
    <3>2. pushed' \in 0..MaxTime /\ pushed <= pushed'
      BY <2>2, <3>1, ParsedFacts
    <3>. QED  BY <3>2, PumpAssumption
  <2>4. CASE z # s
    <3>1. ring'[z] = ring[z]
      BY <1>5, <2>4, ReceiveFacts, OverrunFacts
    <3>. QED  BY <2>1, <2>3, <2>4, <3>1, CalledFacts, SameStream DEF Called, pump
  <2>5. CASE z = s /\ Receive(s)
    BY <2>5, ReceivedStream
  <2>6. CASE z = s /\ Overrun(s)
    BY <2>1, <2>3, <2>6, OverrunFacts, DroppedStream
  <2>. QED  BY <1>5, <2>4, <2>5, <2>6
<1>6. CASE Drain \/ Drained
  BY <1>6, SameStream DEF Drain, Drained, Turn, device, callback, Streams
<1>7. ASSUME NEW s \in Sensors, Fill(s), NEW z \in Sensors PROVE Stream(z)'
  BY <1>7, FilledStream
<1>8. ASSUME NEW s \in Sensors, Emit(s), NEW z \in Sensors PROVE Stream(z)'
  BY <1>8, EmittedStream
<1>. QED
  BY <1>1, <1>2, <1>3, <1>4, <1>5, <1>6, <1>7, <1>8, SensorFacts
     DEF Next, Callback, FillAccel, FillGyro, Streams

-----------------------------------------------------------------------------
(* Times across the streams. *)
LEMMA SameMerging ==
    ASSUME Merging, punctual' => punctual, UNCHANGED <<pending, ring, out>>,
           pc' = pc \/ pc' \notin {"gyro", "take"}
    PROVE  Merging'
<1>1. SUFFICES ASSUME punctual' PROVE Merging'
  BY DEF Merging
<1>. USE <1>1
<1>2. NotBefore("gyro", out["accel"][1])' /\ NotBefore("accel", out["gyro"][2])'
  BY DEF Merging, NotBefore
<1>3. (pc = "take" /\ pending["gyro"] = None /\ pending["accel"] # None =>
        NotBefore("gyro", pending["accel"].t))'
  BY DEF Merging, NotBefore
<1>4. (pc \in {"gyro", "take"} /\ pending["accel"] = None => NotBefore("accel", out["gyro"][1]))'
  BY DEF Merging, NotBefore
<1>. QED  BY <1>2, <1>3, <1>4 DEF Merging

(* What a callback pushes is not older than anything before it. *)
LEMMA PushedNotBefore ==
    ASSUME TypeOK, NEW s \in Sensors, NEW z \in Sensors, NEW t \in Nat, t <= pushed,
           NotBefore(z, t), Receive(s), punctual'
    PROVE  NotBefore(z, t)'
<1>. DEFINE l == Len(ring[s])
<1>1. PICK r \in Reports :
        /\ Parsed(s, r.n, r.t, 0)
        /\ l \in Nat /\ Len(ring'[s]) = l + 1
        /\ \A i \in 1..l : ring'[s][i] = ring[s][i]
        /\ ring'[s][l + 1] = [n |-> r.n, t |-> r.t]
        /\ \A y \in Sensors : y # s => ring'[y] = ring[y]
  BY ReceiveFacts
<1>2. pushed <= r.t /\ r.t \in Nat /\ pushed \in Nat
  <2>1. r.n \in Nat /\ r.t \in 0..MaxTime /\ r.t \in Nat /\ 0 \in Nat
    BY SampleFacts
  <2>. QED  BY <1>1, <2>1, ParsedFacts, TimeTypes
<1>3. pending' = pending
  BY DEF Receive, Called, pump
<1>4. CASE z = s
  <2>1. ring'[s][l + 1].t = r.t
    BY <1>1
  <2>. HIDE DEF l
  <2>2. \A i \in 1..Len(ring'[s]) :
          \/ i \in 1..l /\ ring'[s][i].t = ring[s][i].t
          \/ i = l + 1 /\ ring'[s][i].t = r.t
    BY <1>1, <2>1
  <2>3. \A i \in 1..l : t <= ring[s][i].t
    BY <1>4 DEF NotBefore, l
  <2>4. t <= r.t
    BY <1>2
  <2>5. \A i \in 1..Len(ring'[s]) : t <= ring'[s][i].t
    BY <2>2, <2>3, <2>4
  <2>. QED  BY <1>3, <1>4, <2>5 DEF NotBefore
<1>5. CASE z # s
  BY <1>1, <1>3, <1>5 DEF NotBefore
<1>. QED  BY <1>4, <1>5

LEMMA ReceiveMerging ==
    ASSUME TypeOK, Streams, Merging, NEW s \in Sensors, Receive(s)
    PROVE  Merging'
<1>0. pending' = pending /\ out' = out /\ pc' = pc
  BY DEF Receive, Called, pump
<1>1. SUFFICES ASSUME punctual' PROVE Merging'
  BY DEF Merging
<1>2. punctual
  BY <1>1 DEF Receive, Parsed
<1>3. \A z \in Sensors :
        /\ out[z][1] \in Nat /\ out[z][1] <= pushed
        /\ out[z][2] \in Nat /\ out[z][2] <= pushed
        /\ pending[z] # None => pending[z].t \in Nat /\ pending[z].t <= pushed
  <2>. TAKE z \in Sensors
  <2>1. Emitted(z) /\ Held(z)
    BY DEF Streams, Stream
  <2>. QED  BY <2>1, TimeTypes DEF Emitted, Held
<1>4. NotBefore("gyro", out["accel"][1])' /\ NotBefore("accel", out["gyro"][2])'
  <2>1. NotBefore("gyro", out["accel"][1]) /\ NotBefore("accel", out["gyro"][2])
    BY <1>2 DEF Merging
  <2>. QED  BY <1>0, <1>1, <1>3, <2>1, SensorFacts, PushedNotBefore DEF NotBefore
<1>5. (pc = "take" /\ pending["gyro"] = None /\ pending["accel"] # None =>
        NotBefore("gyro", pending["accel"].t))'
  <2>. SUFFICES ASSUME pc = "take", pending["gyro"] = None, pending["accel"] # None
                PROVE  NotBefore("gyro", pending["accel"].t)'
    BY <1>0 DEF NotBefore
  <2>1. NotBefore("gyro", pending["accel"].t)
    BY <1>2 DEF Merging
  <2>. QED  BY <1>0, <1>1, <1>3, <2>1, SensorFacts, PushedNotBefore DEF NotBefore
<1>6. (pc \in {"gyro", "take"} /\ pending["accel"] = None => NotBefore("accel", out["gyro"][1]))'
  <2>. SUFFICES ASSUME pc \in {"gyro", "take"}, pending["accel"] = None
                PROVE  NotBefore("accel", out["gyro"][1])'
    BY <1>0 DEF NotBefore
  <2>1. NotBefore("accel", out["gyro"][1])
    BY <1>2 DEF Merging
  <2>. QED  BY <1>0, <1>1, <1>3, <2>1, SensorFacts, PushedNotBefore DEF NotBefore
<1>. QED  BY <1>4, <1>5, <1>6 DEF Merging

(* A sample that moves from its ring to the pump is still to come. *)
LEMMA FilledNotBefore ==
    ASSUME TypeOK, NEW s \in Sensors, NEW z \in Sensors, NEW t, NotBefore(z, t), Fill(s)
    PROVE  NotBefore(z, t)'
<1>1. CASE ring' = ring /\ pending' = pending
  BY <1>1 DEF NotBefore
<1>2. CASE /\ pending'[s] = ring[s][1]
           /\ \A y \in Sensors : y # s => pending'[y] = pending[y]
           /\ Len(ring[s]) \in Nat /\ Len(ring[s]) >= 1
           /\ \A i \in 1..Len(ring'[s]) :
                 i + 1 \in 1..Len(ring[s]) /\ ring'[s][i] = ring[s][i + 1]
           /\ \A y \in Sensors : y # s => ring'[y] = ring[y]
  <2>1. 1 \in 1..Len(ring[s])
    BY <1>2
  <2>. QED  BY <1>2, <2>1 DEF NotBefore
<1>. QED  BY <1>1, <1>2, FillFacts

LEMMA FillMerging ==
    ASSUME TypeOK, Merging, FillAccel \/ FillGyro
    PROVE  Merging'
<1>0. out' = out /\ punctual' = punctual
  BY DEF FillAccel, FillGyro, Fill, Turn, callback
<1>1. SUFFICES ASSUME punctual PROVE Merging'
  BY <1>0 DEF Merging
<1>2. NotBefore("gyro", out["accel"][1]) /\ NotBefore("accel", out["gyro"][2])
  BY <1>1 DEF Merging
<1>3. PICK s \in Sensors : Fill(s)
  BY SensorFacts DEF FillAccel, FillGyro
<1>4. NotBefore("gyro", out["accel"][1])' /\ NotBefore("accel", out["gyro"][2])'
  <2>1. \A z \in Sensors : \A t : NotBefore(z, t) => NotBefore(z, t)'
    BY <1>3, FilledNotBefore
  <2>. QED  BY <1>0, <1>2, <2>1, SensorFacts DEF NotBefore
<1>5. (pc = "take" /\ pending["gyro"] = None /\ pending["accel"] # None =>
        NotBefore("gyro", pending["accel"].t))'
  <2>1. CASE FillAccel
    BY <2>1 DEF FillAccel
  <2>2. CASE FillGyro
    <3>. SUFFICES ASSUME pending'["gyro"] = None
                  PROVE  NotBefore("gyro", pending["accel"].t)'
      OBVIOUS
    <3>1. ring' = ring /\ Len(ring["gyro"]) = 0
      BY <2>2, FillFacts, SensorFacts, SampleFacts DEF FillGyro
    <3>. QED  BY <3>1 DEF NotBefore
  <2>. QED  BY <2>1, <2>2
<1>6. (pc \in {"gyro", "take"} /\ pending["accel"] = None => NotBefore("accel", out["gyro"][1]))'
  <2>. SUFFICES ASSUME pending'["accel"] = None
                PROVE  NotBefore("accel", out["gyro"][1])'
    OBVIOUS
  <2>1. CASE FillAccel
    <3>1. ring' = ring /\ Len(ring["accel"]) = 0
      BY <2>1, FillFacts, SensorFacts, SampleFacts DEF FillAccel
    <3>. QED  BY <3>1 DEF NotBefore
  <2>2. CASE FillGyro
    <3>1. Fill("gyro") /\ pc = "gyro"
      BY <2>2 DEF FillGyro
    <3>2. pending["accel"] = None
      BY <3>1, FillFacts, SensorFacts
    <3>3. NotBefore("accel", out["gyro"][1])
      BY <1>1, <3>1, <3>2 DEF Merging
    <3>4. NotBefore("accel", out["gyro"][1])'
      <4>1. \A z \in Sensors : \A t : NotBefore(z, t) => NotBefore(z, t)'
        BY <3>1, FilledNotBefore, SensorFacts
      <4>. QED  BY <1>0, <3>3, <4>1, SensorFacts DEF NotBefore
    <3>. QED  BY <3>4
  <2>. QED  BY <2>1, <2>2
<1>. QED  BY <1>4, <1>5, <1>6 DEF Merging

(* What the pump has not taken is newer than what it has. *)
LEMMA EmitNewer ==
    ASSUME TypeOK, Streams, NEW s \in Sensors, NEW t \in Nat, pending[s] # None, t <= pending[s].t
    PROVE  NotBefore(s, t)
<1>1. Held(s)
  BY DEF Streams, Stream
<1>2. pending[s].t \in Nat /\ \A i \in 1..Len(ring[s]) : ring[s][i].t \in Nat
  BY TimeTypes
<1>3. \A i \in 1..Len(ring[s]) : pending[s].t < ring[s][i].t
  BY <1>1 DEF Held
<1>4. \A i \in 1..Len(ring[s]) : t <= ring[s][i].t
  BY <1>2, <1>3
<1>. QED  BY <1>4 DEF NotBefore

LEMMA EmitMerging ==
    ASSUME TypeOK, Streams, Merging, NEW s \in Sensors, Emit(s)
    PROVE  Merging'
<1>0. ring' = ring /\ punctual' = punctual /\ pc = "take" /\ pc' = "accel" /\ Takes(s)
  BY DEF Emit, Turn, callback
<1>1. SUFFICES ASSUME punctual PROVE Merging'
  BY <1>0 DEF Merging
<1>2. /\ pending[s] # None /\ pending[s].t \in Nat
      /\ pending'[s] = None /\ \A z \in Sensors : z # s => pending'[z] = pending[z]
      /\ out'[s][1] = pending[s].t /\ out'[s][2] = out[s][1]
      /\ \A z \in Sensors : z # s => out'[z] = out[z]
  BY EmitFacts, SampleFacts
<1>3. out[s][1] < pending[s].t /\ out[s][1] \in Nat
  BY <1>2, TimeTypes DEF Streams, Stream, Held
<1>4. NotBefore("gyro", out["accel"][1]) /\ NotBefore("accel", out["gyro"][2])
  BY <1>1 DEF Merging
<1>5. \A z \in Sensors : \A t : NotBefore(z, t) => NotBefore(z, t)'
  BY <1>0, <1>2 DEF NotBefore
<1>6. CASE s = "accel"
  <2>1. NotBefore("gyro", pending["accel"].t)
    <3>1. CASE pending["gyro"] = None
      BY <1>0, <1>1, <1>2, <1>6, <3>1 DEF Merging
    <3>2. CASE pending["gyro"] # None
      <4>1. pending["accel"].t <= pending["gyro"].t
        BY <1>0, <1>6, <3>2 DEF Takes, Other
      <4>. QED  BY <1>2, <1>6, <3>2, <4>1, EmitNewer, SensorFacts
    <3>. QED  BY <3>1, <3>2
  <2>2. NotBefore("gyro", out["accel"][1])' /\ NotBefore("accel", out["gyro"][2])'
    BY <1>2, <1>4, <1>5, <1>6, <2>1, SensorFacts DEF NotBefore
  <2>. QED  BY <1>0, <2>2 DEF Merging
<1>7. CASE s = "gyro"
  <2>1. NotBefore("accel", out["gyro"][1])
    <3>1. CASE pending["accel"] = None
      BY <1>0, <1>1, <3>1 DEF Merging
    <3>2. CASE pending["accel"] # None
      <4>1. pending["gyro"].t < pending["accel"].t
        BY <1>0, <1>7, <3>2 DEF Takes, Other
      <4>2. pending["accel"].t \in Nat
        BY <3>2, TimeTypes, SensorFacts
      <4>3. out["gyro"][1] <= pending["accel"].t
        BY <1>2, <1>3, <1>7, <4>1, <4>2
      <4>. QED  BY <1>3, <1>7, <3>2, <4>3, EmitNewer, SensorFacts
    <3>. QED  BY <3>1, <3>2
  <2>2. NotBefore("gyro", out["accel"][1])' /\ NotBefore("accel", out["gyro"][2])'
    BY <1>2, <1>4, <1>5, <1>7, <2>1, SensorFacts DEF NotBefore
  <2>. QED  BY <1>0, <2>2 DEF Merging
<1>. QED  BY <1>6, <1>7, SensorFacts

LEMMA MergeStep == ASSUME TypeOK, Streams, Merging, Next PROVE Merging'
<1>1. CASE Open
  BY <1>1, OpenedInv DEF Open, Found, IInv
<1>2. CASE OpenFails
  BY <1>2, SameMerging DEF OpenFails, callback
<1>3. ASSUME NEW s \in Sensors, NEW lost \in 0..SeqMod, NEW t \in 1..MaxTime, Make(s, lost, t)
      PROVE  Merging'
  BY <1>3, SameMerging DEF Make, callback, pump
<1>4. ASSUME NEW s \in Sensors, Malformed(s) PROVE Merging'
  BY <1>4, SameMerging DEF Malformed, Called, pump
<1>5. ASSUME NEW s \in Sensors, Overrun(s) PROVE Merging'
  <2>1. punctual' => punctual
    BY <1>5 DEF Overrun, Parsed
  <2>. QED  BY <1>5, <2>1, SameMerging DEF Overrun, Called, pump
<1>6. CASE Drain \/ Drained
  BY <1>6, SameMerging DEF Drain, Drained, Turn, callback
<1>. QED
  BY <1>1, <1>2, <1>3, <1>4, <1>5, <1>6, ReceiveMerging, FillMerging, EmitMerging
     DEF Next, Callback

-----------------------------------------------------------------------------
LEMMA StutterIInv == ASSUME IInv, UNCHANGED vars PROVE IInv'
<1>. USE DEF vars, device, callback, pump
<1>1. TypeOK'
  BY DEF IInv, TypeOK
<1>2. \A s \in Sensors : Numbered(s)'
  BY SameNumbered DEF IInv
<1>3. Accounted'
  BY SameCounted, SameKept DEF IInv, Accounted
<1>4. Streams'
  BY DEF IInv, Streams, Stream, Queued, Ringed, Emitted, Held
<1>5. Merging'
  BY SameMerging DEF IInv
<1>. QED  BY <1>1, <1>2, <1>3, <1>4, <1>5 DEF IInv

LEMMA NextIInv == ASSUME IInv, Next PROVE IInv'
<1>1. TypeOK' /\ \A s \in Sensors : Numbered(s)'
  BY TypeStep, NumberStep DEF IInv
<1>2. Accounted'
  BY CountStep, KeptStep DEF IInv, Accounted
<1>3. Streams' /\ Merging'
  BY StreamStep, MergeStep DEF IInv
<1>. QED  BY <1>1, <1>2, <1>3 DEF IInv

LEMMA IInvHolds == Spec => []IInv
<1>1. IInv /\ [Next]_vars => IInv'
  BY NextIInv, StutterIInv
<1>. QED  BY <1>1, InitIInv, PTL DEF Spec

(* The types hold: a sample is in one ring or one slot of the pump, whole,   *)
(* and no count goes below zero (iokit.rs:267, pump.rs:57).                  *)
THEOREM TypeCorrect == Spec => []TypeOK
<1>1. IInv => TypeOK
  BY DEF IInv
<1>. QED  BY <1>1, IInvHolds, PTL

(* No report that was parsed goes missing without being counted, whatever    *)
(* the ring's length, and the count of lost reports is right up to whole     *)
(* turns of the counter, whatever its width (iokit.rs:267, report.rs:78).    *)
THEOREM AccountedHolds == Spec => []Accounted
<1>1. IInv => Accounted
  BY DEF IInv
<1>. QED  BY <1>1, IInvHolds, PTL

(* The merge is in order up to one frame (pump.rs:36, 57).                   *)
LEMMA EmitOrdered ==
    ASSUME IInv, Next, NEW s \in Sensors, emitted'[s] = emitted[s] + 1
    PROVE  /\ out[s][1] < out'[s][1]
           /\ punctual => out'[s][1] >= IF s = "gyro" THEN out["accel"][1]
                                                      ELSE out["gyro"][2]
<1>. TypeOK /\ Streams /\ Merging /\ TypeOK'
  BY TypeStep DEF IInv
<1>0. emitted[s] \in Nat /\ emitted'[s] \in Nat
  BY DEF TypeOK
<1>1. PICK z \in Sensors : Emit(z)
  <2>1. CASE Open
    <3>1. emitted'[s] = 0
      BY <2>1, FreshFacts DEF Open, Opened
    <3>. QED  BY <1>0, <3>1
  <2>2. ~(emitted' = emitted)
    BY <1>0
  <2>. QED
    BY <2>1, <2>2
       DEF Next, Callback, OpenFails, Make, Malformed, Receive, Overrun, Called, pump,
           Drain, FillAccel, FillGyro, Fill, Drained
<1>2. z = s
  BY <1>0, <1>1, EmitFacts
<1>3. /\ pending[s] # None /\ out'[s][1] = pending[s].t
  BY <1>1, <1>2, EmitFacts, SampleFacts
<1>4. out[s][1] < pending[s].t
  BY <1>3 DEF Streams, Stream, Held
<1>5. ASSUME punctual, s = "gyro" PROVE out["accel"][1] <= pending[s].t
  BY <1>3, <1>5 DEF Merging, NotBefore
<1>6. ASSUME punctual, s = "accel" PROVE out["gyro"][2] <= pending[s].t
  BY <1>3, <1>6 DEF Merging, NotBefore
<1>7. out["accel"][1] \in Nat /\ out["gyro"][2] \in Nat /\ pending[s].t \in Nat
  BY <1>3, TimeTypes, SensorFacts
<1>. QED  BY <1>3, <1>4, <1>5, <1>6, <1>7, SensorFacts

THEOREM MergedInOrderHolds == Spec => MergedInOrder
<1>. DEFINE Ordered ==
        \A s \in Sensors :
            emitted'[s] = emitted[s] + 1 =>
                /\ out[s][1] < out'[s][1]
                /\ punctual => out'[s][1] >= IF s = "gyro" THEN out["accel"][1]
                                                           ELSE out["gyro"][2]
<1>1. IInv /\ [Next]_vars => [Ordered]_vars
  BY EmitOrdered
<1>. HIDE DEF Ordered
<1>2. Spec => [][Ordered]_vars
  BY <1>1, IInvHolds, PTL DEF Spec
<1>. QED  BY <1>2 DEF Ordered, MergedInOrder

=============================================================================
