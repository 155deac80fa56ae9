--------------------------- MODULE SubscriptionProofs ---------------------------
(***************************************************************************)
(* Both ends of a subscription.  The daemon's: EventStream's safety         *)
(* properties hold for any number of connections, any channel capacity and *)
(* any subscriptions.  The app's: what ScopeSubscription's thread reads     *)
(* stays whole, and what it believes to have asked for is what it gets,    *)
(* whatever the sizes of the socket's buffers are and however daemons come  *)
(* and go.                                                                 *)
(***************************************************************************)
EXTENDS EventStream, ScopeSubscription, FiniteSetTheorems, TLAPS

(* What the loop wanted in this iteration is what was watched when the      *)
(* iteration began: the count it read was exact.                            *)
WantIsInformed == loop # "load" => (want <=> watched)

Inv == TypeOK /\ CountIsExact /\ WantIsInformed

-----------------------------------------------------------------------------
(* Counting the watchers. *)

LEMMA WatchersFinite == IsFiniteSet(Watchers) /\ Cardinality(Watchers) \in Nat
<1>1. Watchers \subseteq Conns
  BY DEF Watchers
<1>2. IsFiniteSet(Watchers)
  BY <1>1, StreamAssumption, FS_Subset
<1>. QED  BY <1>2, FS_CardinalityType

(* The count says whether anybody watches. *)
LEMMA CountTells ==
    ASSUME CountIsExact
    PROVE  count > 0 <=> Watchers # {}
<1>1. Cardinality(Watchers) = 0 <=> Watchers = {}
  BY WatchersFinite, FS_EmptySet
<1>. QED  BY <1>1, WatchersFinite DEF CountIsExact

(* One handler's change of topics moves the count by its own edge only.     *)
LEMMA OneEdge ==
    ASSUME TypeOK, CountIsExact, NEW c \in Conns, NEW wanted \in SUBSET Topics,
           topics' = [topics EXCEPT ![c] = wanted],
           count' = IF "telemetry" \in wanted \ topics[c] THEN count + 1
                    ELSE IF "telemetry" \in topics[c] \ wanted THEN count - 1
                    ELSE count
    PROVE  CountIsExact'
<1>1. topics' \in [Conns -> SUBSET Topics] /\ topics'[c] = wanted
  BY DEF TypeOK
<1>2. \A d \in Conns \ {c} : topics'[d] = topics[d]
  BY DEF TypeOK
<1>3. IsFiniteSet(Watchers) /\ Cardinality(Watchers) \in Nat
  BY WatchersFinite
<1>4. CASE "telemetry" \in wanted \ topics[c]
  <2>1. Watchers' = Watchers \cup {c} /\ c \notin Watchers
    BY <1>1, <1>2, <1>4 DEF Watchers
  <2>2. Cardinality(Watchers') = Cardinality(Watchers) + 1
    BY <2>1, <1>3, FS_AddElement
  <2>. QED  BY <1>4, <2>2 DEF CountIsExact
<1>5. CASE "telemetry" \in topics[c] \ wanted
  <2>1. Watchers' = Watchers \ {c} /\ c \in Watchers
    BY <1>1, <1>2, <1>5 DEF Watchers
  <2>2. Cardinality(Watchers') = Cardinality(Watchers) - 1
    BY <2>1, <1>3, FS_RemoveElement
  <2>. QED  BY <1>5, <2>2 DEF CountIsExact
<1>6. CASE "telemetry" \in wanted <=> "telemetry" \in topics[c]
  <2>1. Watchers' = Watchers
    BY <1>1, <1>2, <1>6 DEF Watchers
  <2>. QED  BY <1>6, <2>1 DEF CountIsExact
<1>. QED  BY <1>4, <1>5, <1>6

LEMMA SameWatchers ==
    ASSUME CountIsExact, UNCHANGED <<topics, count>>
    PROVE  CountIsExact'
BY DEF CountIsExact, Watchers

-----------------------------------------------------------------------------
(* A send keeps every queue within its capacity.                            *)
LEMMA BroadcastBounded ==
    ASSUME TypeOK, NEW event \in Topics, Broadcast(event)
    PROVE  /\ queue' \in [Conns -> Seq(Topics)]
           /\ \A c \in Conns : Len(queue'[c]) <= Capacity
           /\ lagged' \subseteq Conns
<1>. USE DEF TypeOK
<1>1. ASSUME NEW c \in Conns
      PROVE  queue'[c] \in Seq(Topics) /\ Len(queue'[c]) <= Capacity
  <2>0. /\ queue[c] \in Seq(Topics)
        /\ Len(queue[c]) \in Nat
        /\ Len(queue[c]) <= Capacity
        /\ Capacity \in Nat \ {0}
    BY StreamAssumption
  <2>1. CASE c \notin open
    BY <2>0, <2>1 DEF Broadcast
  <2>2. CASE c \in Crowded
    <3>1. queue'[c] = Append(Tail(queue[c]), event)
      BY <2>2 DEF Broadcast, Crowded
    <3>2. Len(queue[c]) = Capacity /\ queue[c] # <<>>
      BY <2>0, <2>2 DEF Crowded
    <3>3. Tail(queue[c]) \in Seq(Topics) /\ Len(Tail(queue[c])) = Capacity - 1
      BY <2>0, <3>2
    <3>. QED  BY <2>0, <3>1, <3>3
  <2>3. CASE c \in open \ Crowded
    <3>1. queue'[c] = Append(queue[c], event) /\ Len(queue[c]) # Capacity
      BY <2>3 DEF Broadcast, Crowded
    <3>. QED  BY <2>0, <3>1
  <2>. QED  BY <2>1, <2>2, <2>3 DEF Crowded
<1>2. queue' = [c \in Conns |-> queue'[c]]
  BY DEF Broadcast
<1>. QED  BY <1>1, <1>2 DEF Broadcast, Crowded

(* Closing a connection.                                                    *)
LEMMA DropStep ==
    ASSUME Inv, NEW c \in Conns, Drop(c)
    PROVE  Inv'
<1>1. TypeOK'
  <2>0. <<>> \in Seq(Topics) /\ Len(<<>>) = 0 /\ Capacity \in Nat
    BY StreamAssumption
  <2>1. queue' \in [Conns -> Seq(Topics)]
    BY <2>0 DEF Inv, TypeOK, Drop
  <2>2. \A d \in Conns : Len(queue'[d]) <= Capacity
    <3>1. \A d \in Conns : queue'[d] = IF d = c THEN <<>> ELSE queue[d]
      BY DEF Inv, TypeOK, Drop
    <3>. QED  BY <2>0, <3>1 DEF Inv, TypeOK
  <2>. QED  BY <2>1, <2>2 DEF Inv, TypeOK, Drop, detector
<1>2. CountIsExact'
  <2>1. topics' = [topics EXCEPT ![c] = {}]
    BY DEF Drop
  <2>2. count' = IF "telemetry" \in {} \ topics[c] THEN count + 1
                 ELSE IF "telemetry" \in topics[c] \ {} THEN count - 1
                 ELSE count
    BY DEF Drop
  <2>. QED  BY <2>1, <2>2, OneEdge DEF Inv
<1>3. WantIsInformed'
  BY DEF Inv, WantIsInformed, Drop, detector
<1>. QED  BY <1>1, <1>2, <1>3 DEF Inv

-----------------------------------------------------------------------------
LEMMA InitInv == Init => Inv
<1>. SUFFICES ASSUME Init PROVE Inv
  OBVIOUS
<1>1. Watchers = {}
  BY DEF Init, Watchers
<1>2. CountIsExact
  BY <1>1, FS_EmptySet DEF CountIsExact, Init
<1>3. TypeOK
  <2>0. <<>> \in Seq(Topics) /\ Len(<<>>) = 0 /\ Capacity \in Nat /\ MaxSamples \in Nat
    BY StreamAssumption
  <2>1. queue \in [Conns -> Seq(Topics)] /\ \A c \in Conns : Len(queue[c]) <= Capacity
    BY <2>0 DEF Init
  <2>2. trace \in [Buffers -> 0..MaxSamples]
    BY <2>0 DEF Init
  <2>3. count \in Int /\ loop \in {"load", "drain", "emit"}
    BY DEF Init
  <2>6. want \in BOOLEAN
    BY Zenon DEF Init
  <2>4. stale \subseteq Buffers /\ watched \in BOOLEAN /\ open \subseteq Conns
    BY DEF Init
  <2>5. /\ client \in [Conns -> {"reading", "stuck", "gone"}]
        /\ topics \in [Conns -> SUBSET Topics]
        /\ out \in [Conns -> Topics \cup {"idle", "reply"}]
        /\ lagged \subseteq Conns
    BY DEF Init
  <2>. QED  BY <2>1, <2>2, <2>3, <2>4, <2>5, <2>6 DEF TypeOK
<1>. QED  BY <1>2, <1>3 DEF Inv, WantIsInformed, Init

LEMMA ClientStep ==
    ASSUME Inv, NEW c \in Conns, Client(c)
    PROVE  Inv'
<1>1. CASE Connect(c)
  BY <1>1, SameWatchers DEF Inv, TypeOK, WantIsInformed, Connect, detector
<1>2. CASE Stall(c)
  BY <1>2, SameWatchers DEF Inv, TypeOK, WantIsInformed, Stall, detector
<1>3. CASE Resume(c)
  BY <1>3, SameWatchers DEF Inv, TypeOK, WantIsInformed, Resume, detector
<1>4. CASE Vanish(c)
  BY <1>4, SameWatchers DEF Inv, TypeOK, WantIsInformed, Vanish, detector
<1>. QED  BY <1>1, <1>2, <1>3, <1>4 DEF Client

LEMMA HandlerStep ==
    ASSUME Inv, NEW c \in Conns, Handler(c)
    PROVE  Inv'
<1>1. ASSUME NEW wanted \in Subscriptions, Subscribe(c, wanted) PROVE Inv'
  <2>1. wanted \in SUBSET Topics
    BY StreamAssumption
  <2>2. CountIsExact'
    BY <1>1, <2>1, OneEdge DEF Inv, Subscribe
  <2>3. TypeOK'
    BY <1>1, <2>1 DEF Inv, TypeOK, Subscribe, detector
  <2>. QED  BY <1>1, <2>2, <2>3 DEF Inv, WantIsInformed, Subscribe, detector
<1>2. CASE Answer(c)
  BY <1>2, SameWatchers DEF Inv, TypeOK, WantIsInformed, Answer, detector
<1>3. CASE EndOfStream(c)
  BY <1>3, DropStep DEF EndOfStream
<1>4. CASE ReadFails(c)
  BY <1>4, DropStep DEF ReadFails
<1>5. CASE Lagged(c)
  BY <1>5, SameWatchers DEF Inv, TypeOK, WantIsInformed, Lagged, detector
<1>6. CASE Receive(c)
  <2>0. /\ queue[c] \in Seq(Topics)
        /\ queue[c] # <<>>
        /\ Len(queue[c]) <= Capacity
        /\ Capacity \in Nat
    BY <1>6, StreamAssumption DEF Inv, TypeOK, Receive
  <2>1. /\ Tail(queue[c]) \in Seq(Topics)
        /\ Len(Tail(queue[c])) <= Capacity
        /\ Head(queue[c]) \in Topics
    BY <2>0
  <2>2. queue' \in [Conns -> Seq(Topics)]
    BY <1>6, <2>1 DEF Inv, TypeOK, Receive
  <2>3. \A d \in Conns : Len(queue'[d]) <= Capacity
    BY <1>6, <2>1 DEF Inv, TypeOK, Receive
  <2>4. out' \in [Conns -> Topics \cup {"idle", "reply"}]
    BY <1>6, <2>1 DEF Inv, TypeOK, Receive
  <2>5. TypeOK'
    BY <1>6, <2>2, <2>3, <2>4 DEF Inv, TypeOK, Receive, detector
  <2>. QED  BY <1>6, <2>5, SameWatchers DEF Inv, WantIsInformed, Receive, detector
<1>7. CASE Written(c)
  BY <1>7, SameWatchers DEF Inv, TypeOK, WantIsInformed, Written, detector
<1>8. CASE WriteFails(c)
  BY <1>8, DropStep DEF WriteFails
<1>. QED
  BY <1>1, <1>2, <1>3, <1>4, <1>5, <1>6, <1>7, <1>8 DEF Handler

(* The samples that fit are kept. *)
LEMMA DrainType ==
    ASSUME Inv, NEW accel \in 0..1, NEW gyro \in 0..1, Drain(accel, gyro)
    PROVE  trace' \in [Buffers -> 0..MaxSamples]
<1>1. ASSUME NEW b \in Buffers, NEW k \in 0..1
      PROVE  (IF trace[b] + k > MaxSamples THEN MaxSamples ELSE trace[b] + k)
                \in 0..MaxSamples
  BY StreamAssumption DEF Inv, TypeOK
<1>2. CASE want
  BY <1>1, <1>2 DEF Drain
<1>3. CASE ~want
  BY <1>3 DEF Drain, Inv, TypeOK
<1>. QED  BY <1>2, <1>3 DEF Inv, TypeOK

LEMMA DetectorStep ==
    ASSUME Inv, Detector
    PROVE  Inv'
<1>1. CASE Load
  <2>1. want' <=> watched'
    BY <1>1, CountTells DEF Inv, Load
  <2>2. TypeOK'
    BY <1>1 DEF Inv, TypeOK, Load, conns
  <2>3. CountIsExact'
    BY <1>1, SameWatchers DEF Inv, Load, conns
  <2>. QED  BY <2>1, <2>2, <2>3 DEF Inv, WantIsInformed
<1>2. ASSUME NEW accel \in 0..1, NEW gyro \in 0..1, Drain(accel, gyro),
             \/ UNCHANGED <<queue, lagged>>
             \/ Broadcast("spank")
      PROVE  Inv'
  <2>1. /\ queue' \in [Conns -> Seq(Topics)]
        /\ \A c \in Conns : Len(queue'[c]) <= Capacity
        /\ lagged' \subseteq Conns
    BY <1>2, BroadcastBounded DEF Inv, TypeOK, Topics
  <2>2. TypeOK'
    BY <1>2, <2>1, DrainType DEF Inv, TypeOK, Drain
  <2>3. CountIsExact'
    BY <1>2, SameWatchers DEF Inv, Drain
  <2>. QED  BY <1>2, <2>2, <2>3 DEF Inv, WantIsInformed, Drain, TypeOK
<1>3. CASE EmitFrame
  <2>1. /\ queue' \in [Conns -> Seq(Topics)]
        /\ \A c \in Conns : Len(queue'[c]) <= Capacity
        /\ lagged' \subseteq Conns
    BY <1>3, BroadcastBounded DEF Inv, EmitFrame, Topics
  <2>2. trace' \in [Buffers -> 0..MaxSamples]
    BY <1>3, StreamAssumption DEF EmitFrame
  <2>3. TypeOK'
    BY <1>3, <2>1, <2>2 DEF Inv, TypeOK, EmitFrame
  <2>4. CountIsExact'
    BY <1>3, SameWatchers DEF Inv, EmitFrame
  <2>. QED  BY <1>3, <2>3, <2>4 DEF Inv, WantIsInformed, EmitFrame
<1>4. CASE EmitLater
  BY <1>4, SameWatchers DEF Inv, TypeOK, WantIsInformed, EmitLater, conns
<1>5. CASE EmitNothing
  <2>1. trace' \in [Buffers -> 0..MaxSamples] /\ stale' \subseteq Buffers
    BY <1>5, StreamAssumption DEF Inv, TypeOK, EmitNothing
  <2>. QED
    BY <1>5, <2>1, SameWatchers DEF Inv, TypeOK, WantIsInformed, EmitNothing, conns
<1>. QED
  BY <1>1, <1>2, <1>3, <1>4, <1>5 DEF Detector, DrainQuietly, DrainSpank

LEMMA StepInv == Inv /\ [Next]_vars => Inv'
<1>. SUFFICES ASSUME Inv, [Next]_vars PROVE Inv'
  OBVIOUS
<1>1. CASE UNCHANGED vars
  BY <1>1 DEF Inv, TypeOK, CountIsExact, Watchers, WantIsInformed,
              vars, conns, detector
<1>. QED  BY <1>1, ClientStep, HandlerStep, DetectorStep DEF Next

LEMMA Inductive == Spec => []Inv
BY InitInv, StepInv, PTL DEF Spec

-----------------------------------------------------------------------------
(* Every variable keeps its type; in particular no queue outgrows the        *)
(* channel and no buffer MAX_TELEMETRY_SAMPLES.                              *)
THEOREM TypeCorrect == Spec => []TypeOK
<1>1. Inv => TypeOK
  BY DEF Inv
<1>. QED  BY <1>1, Inductive, PTL

(* The subscriber count is exact for any number of clients, so it neither    *)
(* sticks above zero nor wraps below it (server.rs:134).                     *)
THEOREM CountAlwaysExact == Spec => []CountIsExact
<1>1. Inv => CountIsExact
  BY DEF Inv
<1>. QED  BY <1>1, Inductive, PTL

(* No iteration that began unobserved builds a frame (server.rs:25).         *)
THEOREM UnobservedBuildsNothing == Spec => FramesAreWatched
<1>1. Inv /\ [Next]_vars => [EmitFrame => watched]_vars
  BY DEF Inv, WantIsInformed, EmitFrame
<1>. QED  BY <1>1, Inductive, PTL DEF Spec, FramesAreWatched

(* What an unwatched iteration leaves in the envelope is never shown later.  *)
THEOREM EnvelopeStaysLive == Spec => []EnvelopeIsLive
<1>1. Init => EnvelopeIsLive
  BY DEF Init, EnvelopeIsLive
<1>2. Inv /\ EnvelopeIsLive /\ [Next]_vars => EnvelopeIsLive'
  <2>. SUFFICES ASSUME Inv, EnvelopeIsLive, [Next]_vars PROVE EnvelopeIsLive'
    OBVIOUS
  <2>1. CASE EmitFrame
    BY <2>1 DEF EmitFrame, EnvelopeIsLive
  <2>2. CASE EmitNothing
    <3>1. trace["envelope"] \in 0..MaxSamples /\ MaxSamples \in Nat
      BY StreamAssumption DEF Inv, TypeOK, Buffers
    <3>2. trace'["envelope"] = 0
      BY <2>2, <3>1 DEF EmitNothing, Buffers
    <3>. QED  BY <2>2, <3>2 DEF EmitNothing, EnvelopeIsLive
  <2>3. CASE UNCHANGED stale
    BY <2>3 DEF EnvelopeIsLive
  <2>4. \/ EmitFrame \/ EmitNothing \/ UNCHANGED stale
    BY DEF Next, Client, Connect, Stall, Resume, Vanish, Handler, Subscribe,
           Answer, EndOfStream, ReadFails, Lagged, Receive, Written, WriteFails,
           Drop, Detector, Load, DrainQuietly, DrainSpank, Drain, EmitLater,
           vars, conns, detector
  <2>. QED  BY <2>1, <2>2, <2>3, <2>4
<1>. QED  BY <1>1, <1>2, Inductive, PTL DEF Spec

-----------------------------------------------------------------------------
(* The app's end (ScopeSubscription).                                      *)

Pieces == {"head", "tail", "spank"}

-----------------------------------------------------------------------------
(* Sequences of pieces.                                                     *)

(* What is left when a complete line is taken away.                          *)
LEMMA FramedSuffix ==
    ASSUME NEW s \in Seq(Pieces), NEW rest \in Seq(Pieces), NEW n \in Nat,
           n >= 1, n <= Len(s), Len(rest) = Len(s) - n,
           \A i \in 1..Len(rest) : rest[i] = s[i + n],
           s[n] # "head", Framed(s)
    PROVE  Framed(rest)
<1>. SUFFICES ASSUME NEW i \in 1..Len(rest)
              PROVE  /\ rest[i] = "tail" => i > 1 /\ rest[i - 1] = "head"
                     /\ rest[i] = "head" /\ i < Len(rest) => rest[i + 1] = "tail"
  BY DEF Framed
<1>1. i + n \in 1..Len(s) /\ rest[i] = s[i + n]
  OBVIOUS
<1>2. /\ s[i + n] = "tail" => s[i + n - 1] = "head"
      /\ s[i + n] = "head" /\ i + n < Len(s) => s[i + n + 1] = "tail"
  BY <1>1 DEF Framed
<1>3. i > 1 => rest[i - 1] = s[i + n - 1]
  <2>. SUFFICES ASSUME i > 1 PROVE rest[i - 1] = s[i + n - 1]
    OBVIOUS
  <2>1. i - 1 \in 1..Len(rest) /\ (i - 1) + n = i + n - 1
    OBVIOUS
  <2>. QED  BY <2>1
<1>4. i = 1 => s[i + n - 1] # "head"
  OBVIOUS
<1>5. i < Len(rest) => i + n < Len(s) /\ rest[i + 1] = s[i + n + 1]
  <2>. SUFFICES ASSUME i < Len(rest) PROVE i + n < Len(s) /\ rest[i + 1] = s[i + n + 1]
    OBVIOUS
  <2>1. i + 1 \in 1..Len(rest) /\ (i + 1) + n = i + n + 1
    OBVIOUS
  <2>. QED  BY <2>1
<1>6. rest[i] = "tail" => i > 1 /\ rest[i - 1] = "head"
  <2>1. CASE i = 1
    <3>1. i + n - 1 = n
      BY <2>1
    <3>. QED  BY <1>1, <1>2, <3>1
  <2>2. CASE i > 1
    BY <1>1, <1>2, <1>3, <2>2
  <2>. QED  BY <2>1, <2>2
<1>7. rest[i] = "head" /\ i < Len(rest) => rest[i + 1] = "tail"
  BY <1>1, <1>2, <1>5
<1>. QED  BY <1>6, <1>7

(* A piece may be added unless it breaks a frame.                            *)
LEMMA FramedAppend ==
    ASSUME NEW s \in Seq(Pieces), NEW piece \in Pieces, Framed(s),
           piece = "tail" <=> (Len(s) > 0 /\ s[Len(s)] = "head")
    PROVE  Framed(Append(s, piece))
<1>. DEFINE t == Append(s, piece)
<1>1. /\ Len(t) = Len(s) + 1 /\ t[Len(s) + 1] = piece
      /\ \A i \in 1..Len(s) : t[i] = s[i]
  OBVIOUS
<1>. HIDE DEF t
<1>. SUFFICES ASSUME NEW i \in 1..Len(t)
              PROVE  /\ t[i] = "tail" => i > 1 /\ t[i - 1] = "head"
                     /\ t[i] = "head" /\ i < Len(t) => t[i + 1] = "tail"
  BY DEF Framed, t
<1>2. CASE i = Len(s) + 1
  BY <1>1, <1>2
<1>3. CASE i \in 1..Len(s)
  <2>1. t[i] = "tail" => i > 1 /\ t[i - 1] = "head"
    BY <1>1, <1>3 DEF Framed
  <2>2. ASSUME t[i] = "head", i < Len(t) PROVE t[i + 1] = "tail"
    <3>1. CASE i = Len(s)
      BY <1>1, <2>2, <3>1, <1>3
    <3>2. CASE i < Len(s)
      <4>1. i + 1 \in 1..Len(s)
        BY <1>3, <3>2
      <4>. QED  BY <1>1, <1>3, <2>2, <3>2, <4>1 DEF Framed
    <3>. QED  BY <3>1, <3>2, <1>3
  <2>. QED  BY <2>1, <2>2
<1>. QED  BY <1>1, <1>2, <1>3

(* What a line and the pieces after it are, together.                        *)
LEMMA PieceFirst ==
    ASSUME NEW S, NEW l \in Seq(S), NEW s \in Seq(S)
    PROVE  Len(l) = 1 =>
              /\ l \o s \in Seq(S) /\ Len(l \o s) = 1 + Len(s)
              /\ \A i \in 1..Len(s) : (l \o s)[i + 1] = s[i]
              /\ (l \o s)[1] = l[1]
<1>1. l \o s \in Seq(S) /\ Len(l \o s) = Len(l) + Len(s)
  OBVIOUS
<1>2. \A i \in 1..Len(l) : (l \o s)[i] = l[i]
  OBVIOUS
<1>3. \A i \in 1..Len(s) : (l \o s)[i + Len(l)] = s[i]
  OBVIOUS
<1>4. Len(l) = 1 => 1 \in 1..Len(l)
  OBVIOUS
<1>. QED  BY <1>1, <1>2, <1>3, <1>4, Zenon

LEMMA HeadFirst ==
    ASSUME NEW s \in Seq(Pieces)
    PROVE  /\ <<"head">> \o s \in Seq(Pieces) /\ Len(<<"head">> \o s) = 1 + Len(s)
           /\ \A i \in 1..Len(s) : (<<"head">> \o s)[i + 1] = s[i]
           /\ (<<"head">> \o s)[1] = "head"
<1>1. "head" \in Pieces
  BY DEF Pieces
<1>2. <<"head">> \in Seq(Pieces) /\ Len(<<"head">>) = 1 /\ <<"head">>[1] = "head"
  BY <1>1
<1>. QED  BY <1>2, PieceFirst, Zenon

LEMMA NothingFirst == ASSUME NEW s \in Seq(Pieces) PROVE <<>> \o s = s
OBVIOUS

LEMMA LineFirst ==
    ASSUME NEW l \in {<<>>, <<"head">>}, NEW s \in Seq(Pieces)
    PROVE  l \o s \in Seq(Pieces)
<1>1. l = <<>> \/ l = <<"head">>
  OBVIOUS
<1>. QED  BY <1>1, HeadFirst, NothingFirst, Zenon

LEMMA AppendLast ==
    ASSUME NEW S, NEW s \in Seq(S), NEW e \in S
    PROVE  Append(s, e) \in Seq(S) /\ Append(s, e) # <<>> /\ Last(Append(s, e)) = e
<1>1. /\ Append(s, e) \in Seq(S) /\ Len(Append(s, e)) = Len(s) + 1
      /\ Append(s, e)[Len(s) + 1] = e
  OBVIOUS
<1>2. Len(<<>>) = 0
  OBVIOUS
<1>. QED  BY <1>1, <1>2 DEF Last

LEMMA TailLast ==
    ASSUME NEW S, NEW s \in Seq(S), s # <<>>
    PROVE  /\ Tail(s) \in Seq(S) /\ Head(s) \in S
           /\ Tail(s) = <<>> => Head(s) = Last(s)
           /\ Tail(s) # <<>> => Last(Tail(s)) = Last(s)
<1>1. /\ Len(s) \in Nat /\ Len(s) > 0 /\ Head(s) = s[1] /\ s[1] \in S
      /\ Tail(s) \in Seq(S) /\ Len(Tail(s)) = Len(s) - 1
      /\ \A i \in 1..Len(Tail(s)) : Tail(s)[i] = s[i + 1]
  OBVIOUS
<1>2. CASE Tail(s) = <<>>
  <2>0. Len(<<>>) = 0
    OBVIOUS
  <2>1. Len(s) = 1
    <3>1. PICK n \in Nat : n = Len(s)
      BY <1>1
    <3>2. n - 1 = 0
      BY <1>1, <1>2, <2>0, <3>1, Zenon
    <3>3. n = 1
      BY <3>2
    <3>. QED  BY <3>1, <3>3
  <2>. QED  BY <1>1, <1>2, <2>1 DEF Last
<1>3. CASE Tail(s) # <<>>
  <2>1. Len(Tail(s)) \in 1..Len(Tail(s))
    BY <1>1, <1>3
  <2>2. Tail(s)[Len(Tail(s))] = s[Len(s)]
    BY <1>1, <2>1
  <2>. QED  BY <1>1, <1>3, <2>2 DEF Last
<1>. QED  BY <1>2, <1>3

(* The first piece of a frame, put before the rest.                          *)
LEMMA HeadBefore ==
    ASSUME NEW s \in Seq(Pieces), s # <<>>, Head(s) = "head"
    PROVE  <<"head">> \o Tail(s) = s
<1>1. /\ Len(s) \in Nat /\ Len(s) > 0 /\ s[1] = "head"
      /\ Tail(s) \in Seq(Pieces) /\ Len(Tail(s)) = Len(s) - 1
      /\ \A i \in 1..Len(Tail(s)) : Tail(s)[i] = s[i + 1]
  OBVIOUS
<1>. DEFINE t == <<"head">> \o Tail(s)
<1>2. /\ t \in Seq(Pieces) /\ Len(t) = 1 + Len(Tail(s))
      /\ \A i \in 1..Len(Tail(s)) : t[i + 1] = Tail(s)[i]
      /\ t[1] = "head"
  BY <1>1, HeadFirst, Zenon
<1>. HIDE DEF t
<1>3. Len(t) = Len(s)
  BY <1>1, <1>2
<1>4. ASSUME NEW i \in 1..Len(s) PROVE t[i] = s[i]
  <2>1. CASE i = 1
    BY <1>1, <1>2, <2>1
  <2>2. CASE i > 1
    <3>1. i - 1 \in 1..Len(Tail(s)) /\ (i - 1) + 1 = i
      BY <1>1, <2>2
    <3>2. t[(i - 1) + 1] = Tail(s)[i - 1] /\ Tail(s)[i - 1] = s[(i - 1) + 1]
      BY <1>1, <1>2, <3>1, Zenon
    <3>. QED  BY <3>1, <3>2
  <2>. QED  BY <1>1, <2>1, <2>2
<1>. QED  BY <1>2, <1>3, <1>4 DEF t

(* A piece added at the end is added to the whole.                           *)
LEMMA AppendAfter ==
    ASSUME NEW S, NEW l \in Seq(S), NEW s \in Seq(S), NEW piece \in S
    PROVE  l \o Append(s, piece) = Append(l \o s, piece)
OBVIOUS

-----------------------------------------------------------------------------
(* The connection as the app's thread and the daemon see it.                *)
LEMMA Pieced ==
    ASSUME ScopeTypeOK
    PROVE  /\ line \in {<<>>, <<"head">>} /\ line \in Seq(Pieces)
           /\ stream \in Seq(Pieces) /\ line \o stream \in Seq(Pieces)
<1>1. line \in {<<>>, <<"head">>} /\ stream \in Seq(Pieces)
  BY DEF ScopeTypeOK, Pieces
<1>2. <<>> \in Seq(Pieces) /\ <<"head">> \in Seq(Pieces)
  BY DEF Pieces
<1>3. line \in Seq(Pieces)
  BY <1>1, <1>2
<1>. QED  BY <1>1, <1>3, LineFirst, Zenon

(* A piece is sent when the one before it allows it.                         *)
LEMMA PutsKeeps ==
    ASSUME IInv, NEW piece \in Pieces, Puts(piece), half' \in BOOLEAN,
           piece = "tail" <=> half, half' <=> piece = "head"
    PROVE  FramesAreWhole' /\ HalfInv'
<1>. DEFINE s == line \o stream
<1>1. s \in Seq(Pieces) /\ line \in Seq(Pieces) /\ stream \in Seq(Pieces)
  BY Pieced DEF IInv
<1>2. line' \o stream' = Append(s, piece)
  <2>1. line' = line /\ stream' = Append(stream, piece)
    BY DEF Puts, app
  <2>. QED  BY <1>1, <2>1, AppendAfter
<1>3. Framed(s)
  BY DEF IInv, FramesAreWhole
<1>4. piece = "tail" <=> (Len(s) > 0 /\ s[Len(s)] = "head")
  BY DEF IInv, HalfInv, Puts
<1>. HIDE DEF s
<1>5. Framed(Append(s, piece))
  BY <1>1, <1>3, <1>4, FramedAppend
<1>6. LET pieces == Append(s, piece)
      IN  Len(pieces) > 0 /\ pieces[Len(pieces)] = piece
  BY <1>1
<1>. QED  BY <1>2, <1>5, <1>6 DEF FramesAreWhole, HalfInv

(* What is taken as a part of a line was the first thing in it.              *)
LEMMA ReadPartKeeps ==
    ASSUME IInv, ReadPart
    PROVE  line = <<>> /\ line' = <<"head">> /\ line' \o stream' = line \o stream
<1>1. /\ stream \in Seq(Pieces) /\ stream # <<>> /\ Head(stream) = "head"
      /\ stream' = Tail(stream) /\ line' = Append(line, "head")
      /\ line = <<>> \/ line = <<"head">>
  BY Pieced DEF IInv, ReadPart
<1>2. stream[1] = "head" /\ Len(stream) \in Nat /\ Len(stream) > 0
  BY <1>1
<1>3. line = <<>>
  <2>1. ASSUME line = <<"head">> PROVE FALSE
    <3>. DEFINE s == <<"head">> \o stream
    <3>1. Framed(s)
      BY <2>1 DEF IInv, FramesAreWhole
    <3>2. /\ Len(s) = 1 + Len(stream) /\ s[1] = "head"
          /\ \A i \in 1..Len(stream) : s[i + 1] = stream[i]
      BY <1>1, HeadFirst, Zenon
    <3>. HIDE DEF s
    <3>3. s[1 + 1] = "head"
      BY <1>2, <3>2
    <3>. QED  BY <1>2, <3>1, <3>2, <3>3 DEF Framed
  <2>. QED  BY <1>1, <2>1
<1>4. line' = <<"head">>
  BY <1>1, <1>3
<1>. QED  BY <1>1, <1>3, <1>4, HeadBefore, NothingFirst, Zenon

(* A complete line is a suffix's beginning.                                  *)
LEMMA ReadLineKeeps ==
    ASSUME IInv, ReadLine
    PROVE  FramesAreWhole' /\ HalfInv'
<1>1. /\ stream \in Seq(Pieces) /\ stream # <<>> /\ Head(stream) # "head"
      /\ stream' = Tail(stream) /\ line' = <<>>
      /\ line = <<>> \/ line = <<"head">>
  BY Pieced DEF IInv, ReadLine
<1>2. /\ Len(stream) \in Nat /\ Len(stream) > 0 /\ stream[1] # "head"
      /\ stream' \in Seq(Pieces) /\ Len(stream') = Len(stream) - 1
      /\ \A i \in 1..Len(stream') : stream'[i] = stream[i + 1]
  BY <1>1
<1>3. line' \o stream' = stream'
  BY <1>1, <1>2, NothingFirst
<1>. DEFINE s == line \o stream
<1>4. PICK n \in Nat :
        /\ n >= 1 /\ n <= Len(s) /\ Len(stream') = Len(s) - n
        /\ \A i \in 1..Len(stream') : stream'[i] = s[i + n]
        /\ s[n] # "head"
  <2>1. CASE line = <<>>
    <3>1. s = stream
      BY <1>1, <2>1, NothingFirst
    <3>. HIDE DEF s
    <3>. QED  BY <1>2, <3>1
  <2>2. CASE line = <<"head">>
    <3>1. /\ Len(s) = 1 + Len(stream)
          /\ \A i \in 1..Len(stream) : s[i + 1] = stream[i]
      BY <1>1, <2>2, HeadFirst, Zenon
    <3>. HIDE DEF s
    <3>2. s[2] # "head" /\ Len(stream') = Len(s) - 2
      BY <1>2, <3>1
    <3>3. ASSUME NEW i \in 1..Len(stream') PROVE stream'[i] = s[i + 2]
      <4>1. i + 1 \in 1..Len(stream) /\ (i + 1) + 1 = i + 2
        BY <1>2
      <4>2. s[(i + 1) + 1] = stream[i + 1]
        BY <3>1, <4>1, Zenon
      <4>. QED  BY <1>2, <4>1, <4>2
    <3>. QED  BY <1>2, <3>1, <3>2, <3>3
  <2>. QED  BY <1>1, <2>1, <2>2
<1>5. s \in Seq(Pieces) /\ Framed(s)
  BY Pieced DEF IInv, FramesAreWhole
<1>6. peer => (half <=> Len(s) > 0 /\ s[Len(s)] = "head")
  BY DEF IInv, HalfInv
<1>. HIDE DEF s
<1>7. Framed(stream')
  BY <1>2, <1>4, <1>5, FramedSuffix
<1>8. Len(s) > 0 /\ s[Len(s)] = "head" <=> Len(stream') > 0 /\ stream'[Len(stream')] = "head"
  <2>1. CASE Len(stream') = 0
    <3>1. n = Len(s)
      BY <1>4, <1>5, <2>1
    <3>. QED  BY <1>4, <2>1, <3>1
  <2>2. CASE Len(stream') > 0
    <3>1. Len(stream') \in 1..Len(stream') /\ Len(stream') + n = Len(s) /\ Len(s) > 0
      BY <1>2, <1>4, <1>5, <2>2
    <3>2. stream'[Len(stream')] = s[Len(stream') + n]
      BY <1>4, <3>1
    <3>. QED  BY <2>2, <3>1, <3>2
  <2>. QED  BY <1>2, <2>1, <2>2
<1>9. peer' = peer /\ half' = half
  BY DEF ReadLine
<1>. QED  BY <1>3, <1>6, <1>7, <1>8, <1>9 DEF FramesAreWhole, HalfInv

-----------------------------------------------------------------------------
LEMMA InitIInv == ScopeInit => IInv
<1>. SUFFICES ASSUME ScopeInit PROVE IInv
  OBVIOUS
<1>. USE DEF ScopeInit
<1>1. ScopeTypeOK
  <2>1. setting \in [Threads -> Settings]
    BY DEF Settings
  <2>2. asked \in Seq(BOOLEAN) /\ stream \in Seq({"head", "tail", "spank"})
    OBVIOUS
  <2>3. /\ window \in BOOLEAN /\ scope \in BOOLEAN /\ want_telemetry \in BOOLEAN
        /\ connected \in BOOLEAN /\ subscribed \in BOOLEAN
        /\ up \in BOOLEAN /\ peer \in BOOLEAN /\ half \in BOOLEAN
    OBVIOUS
  <2>4. /\ pc \in {"connect", "subscribe", "check", "read", "ended"}
        /\ line \in {<<>>, <<"head">>} /\ sends \in {"nothing", "spanks", "all"}
    OBVIOUS
  <2>. QED  BY <2>1, <2>2, <2>3, <2>4, Zenon DEF ScopeTypeOK
<1>2. PeerInv /\ HalfInv /\ SubscriptionAgrees
  BY DEF PeerInv, HalfInv, SubscriptionAgrees
<1>3. FramesAreWhole
  <2>1. Len(line \o stream) = 0
    OBVIOUS
  <2>. QED  BY <2>1 DEF FramesAreWhole, Framed
<1>. QED  BY <1>1, <1>2, <1>3 DEF IInv

(* The steps by what they leave alone: those that only concern the wish, and *)
(* those of the thread that neither read nor connect.                        *)
LEMMA Wishes ==
    ASSUME ScopeTypeOK, User \/ Watch \/ \E t \in Threads : LoadScope(t) \/ StoreWant(t)
    PROVE  /\ window' \in BOOLEAN /\ scope' \in BOOLEAN /\ want_telemetry' \in BOOLEAN
           /\ setting' \in [Threads -> Settings]
           /\ UNCHANGED <<app, up, socket>>
<1>. USE DEF screen, wish
<1>0. \A value \in BOOLEAN : /\ [step |-> "load", value |-> value] \in Settings
                              /\ [step |-> "store", value |-> value] \in Settings
  BY DEF Settings
<1>1. ASSUME NEW t \in Threads, NEW value \in BOOLEAN, Calls(t, value)
      PROVE  setting' \in [Threads -> Settings]
  <2>1. CASE value
    BY <1>0, <1>1, <2>1 DEF Calls, ScopeTypeOK
  <2>2. CASE ~value
    BY <1>0, <1>1, <2>2 DEF Calls, ScopeTypeOK
  <2>. QED  BY <2>1, <2>2
<1>2. "main" \in Threads /\ "watch" \in Threads
  BY DEF Threads
<1>3. CASE Show
  BY <1>1, <1>2, <1>3 DEF Show, ScopeTypeOK
<1>4. CASE Hide
  BY <1>1, <1>2, <1>4 DEF Hide, ScopeTypeOK
<1>5. CASE ShowForSecond
  BY <1>5 DEF ShowForSecond, ScopeTypeOK
<1>6. CASE Section
  BY <1>6 DEF Section, ScopeTypeOK
<1>7. CASE Watch
  BY <1>1, <1>2, <1>7 DEF Watch, ScopeTypeOK
<1>8. ASSUME NEW t \in Threads, LoadScope(t)
      PROVE  /\ window' \in BOOLEAN /\ scope' \in BOOLEAN /\ want_telemetry' \in BOOLEAN
             /\ setting' \in [Threads -> Settings]
             /\ UNCHANGED <<app, up, socket>>
  BY <1>0, <1>8 DEF LoadScope, ScopeTypeOK
<1>9. ASSUME NEW t \in Threads, StoreWant(t)
      PROVE  /\ window' \in BOOLEAN /\ scope' \in BOOLEAN /\ want_telemetry' \in BOOLEAN
             /\ setting' \in [Threads -> Settings]
             /\ UNCHANGED <<app, up, socket>>
  <2>1. Out \in Settings
    BY DEF Settings
  <2>2. setting[t].step = "store" => setting[t].value \in BOOLEAN
    BY DEF ScopeTypeOK, Settings, Out
  <2>. QED  BY <1>9, <2>1, <2>2 DEF StoreWant, ScopeTypeOK
<1>. QED  BY <1>3, <1>4, <1>5, <1>6, <1>7, <1>8, <1>9 DEF User

LEMMA TypeStep ==
    ASSUME IInv, [ScopeNext]_scopeVars
    PROVE  ScopeTypeOK'
<1>. USE DEF screen, wish, app, socket
<1>1. ScopeTypeOK
  BY DEF IInv
<1>2. <<>> \in Seq(BOOLEAN) /\ <<>> \in Seq(Pieces)
  OBVIOUS
<1>3. CASE User \/ Watch \/ \E t \in Threads : LoadScope(t) \/ StoreWant(t)
  <2>1. /\ window' \in BOOLEAN /\ scope' \in BOOLEAN /\ want_telemetry' \in BOOLEAN
        /\ setting' \in [Threads -> Settings]
        /\ UNCHANGED <<app, up, socket>>
    BY <1>1, <1>3, Wishes
  <2>. QED  BY <1>1, <2>1 DEF ScopeTypeOK
<1>4. CASE OpenConnection
  <2>1. /\ pc' = "subscribe" /\ connected' = TRUE /\ line' = <<>> /\ peer' = TRUE
        /\ asked' = <<>> /\ sends' = "nothing" /\ half' = FALSE /\ stream' = <<>>
        /\ UNCHANGED <<window, scope, want_telemetry, setting, subscribed, up>>
    BY <1>4 DEF OpenConnection
  <2>2. line' \in {<<>>, <<"head">>}
    BY <2>1
  <2>3. asked' \in Seq(BOOLEAN) /\ stream' \in Seq(Pieces)
    BY <1>2, <2>1, Zenon
  <2>. QED  BY <1>1, <2>1, <2>2, <2>3 DEF ScopeTypeOK, Pieces
<1>5. CASE ConnectFails
  BY <1>1, <1>5 DEF ConnectFails, ScopeTypeOK
<1>6. CASE FirstSubscribe
  BY <1>1, <1>6 DEF FirstSubscribe, ScopeTypeOK, Ask
<1>7. CASE CheckSame
  BY <1>1, <1>7 DEF CheckSame, ScopeTypeOK
<1>8. CASE Resubscribe
  BY <1>1, <1>8 DEF Resubscribe, ScopeTypeOK, Ask
<1>9. CASE ReadPart
  <2>1. line' = <<"head">> /\ stream' \in Seq(Pieces)
    BY <1>9, ReadPartKeeps, Pieced DEF ReadPart, IInv
  <2>2. line' \in {<<>>, <<"head">>}
    BY <2>1
  <2>. QED  BY <1>1, <1>9, <2>1, <2>2 DEF ScopeTypeOK, ReadPart, Pieces
<1>10. CASE ReadLine
  BY <1>1, <1>10 DEF ReadLine, ScopeTypeOK
<1>11. CASE Timeout
  BY <1>1, <1>11 DEF Timeout, ScopeTypeOK
<1>12. CASE PeerGone
  BY <1>1, <1>12 DEF PeerGone, ScopeTypeOK
<1>13. CASE Retry
  BY <1>1, <1>13 DEF Retry, ScopeTypeOK
<1>14. CASE TakeRequest
  <2>1. asked' \in Seq(BOOLEAN) /\ sends' \in {"nothing", "spanks", "all"}
    BY <1>1, <1>14, TailLast DEF TakeRequest, ScopeTypeOK
  <2>2. UNCHANGED <<screen, wish, app, up, peer, half, stream>>
    BY <1>14 DEF TakeRequest
  <2>. QED  BY <1>1, <2>1, <2>2 DEF ScopeTypeOK
<1>15. CASE SendSpank \/ SendFrame \/ SendRest
  <2>1. PICK piece \in Pieces : Puts(piece)
    BY <1>15 DEF SendSpank, SendFrame, SendRest, Pieces
  <2>2. half' \in BOOLEAN
    BY <1>1, <1>15 DEF SendSpank, SendFrame, SendRest, ScopeTypeOK
  <2>3. stream' \in Seq(Pieces)
    BY <1>1, <2>1, Pieced, AppendLast DEF Puts
  <2>4. UNCHANGED <<screen, wish, app, up, peer, asked, sends>>
    BY <2>1 DEF Puts
  <2>. QED  BY <1>1, <2>2, <2>3, <2>4 DEF ScopeTypeOK, Pieces
<1>16. CASE DaemonStarts
  BY <1>1, <1>16 DEF DaemonStarts, ScopeTypeOK
<1>17. CASE DaemonStops
  <2>1. /\ up' = FALSE /\ peer' = FALSE /\ asked' = <<>> /\ sends' = "nothing"
        /\ half' = FALSE /\ UNCHANGED <<screen, wish, app, stream>>
    BY <1>17 DEF DaemonStops
  <2>2. asked' \in Seq(BOOLEAN)
    BY <1>2, <2>1, Zenon
  <2>. QED  BY <1>1, <2>1, <2>2 DEF ScopeTypeOK
<1>18. CASE UNCHANGED scopeVars
  BY <1>1, <1>18 DEF scopeVars, ScopeTypeOK
<1>. QED
  BY <1>3, <1>4, <1>5, <1>6, <1>7, <1>8, <1>9, <1>10, <1>11, <1>12, <1>13, <1>14, <1>15, <1>16, <1>17, <1>18
  DEF ScopeNext, Subscription, Daemon

(* The thread notices the daemon's end before it connects again.             *)
LEMMA PeerStep ==
    ASSUME IInv, [ScopeNext]_scopeVars
    PROVE  PeerInv'
<1>. USE DEF app, socket
<1>1. ScopeTypeOK /\ PeerInv
  BY DEF IInv
<1>2. CASE User \/ Watch \/ \E t \in Threads : LoadScope(t) \/ StoreWant(t)
  BY <1>1, <1>2, Wishes DEF PeerInv
<1>3. CASE OpenConnection
  BY <1>1, <1>3 DEF PeerInv, ScopeTypeOK, OpenConnection
<1>4. CASE ConnectFails
  BY <1>1, <1>4 DEF PeerInv, ScopeTypeOK, ConnectFails
<1>5. CASE FirstSubscribe
  BY <1>1, <1>5 DEF PeerInv, ScopeTypeOK, FirstSubscribe, Ask
<1>6. CASE CheckSame
  BY <1>1, <1>6 DEF PeerInv, ScopeTypeOK, CheckSame
<1>7. CASE Resubscribe
  BY <1>1, <1>7 DEF PeerInv, ScopeTypeOK, Resubscribe, Ask
<1>8. CASE ReadPart
  BY <1>1, <1>8 DEF PeerInv, ScopeTypeOK, ReadPart
<1>9. CASE ReadLine
  BY <1>1, <1>9 DEF PeerInv, ScopeTypeOK, ReadLine
<1>10. CASE Timeout
  BY <1>1, <1>10 DEF PeerInv, ScopeTypeOK, Timeout
<1>11. CASE PeerGone
  BY <1>1, <1>11 DEF PeerInv, ScopeTypeOK, PeerGone
<1>12. CASE Retry
  BY <1>1, <1>12 DEF PeerInv, ScopeTypeOK, Retry
<1>13. CASE TakeRequest
  BY <1>1, <1>13 DEF PeerInv, ScopeTypeOK, TakeRequest
<1>14. CASE SendSpank
  BY <1>1, <1>14 DEF PeerInv, ScopeTypeOK, SendSpank, Puts
<1>15. CASE SendFrame
  BY <1>1, <1>15 DEF PeerInv, ScopeTypeOK, SendFrame, Puts
<1>16. CASE SendRest
  BY <1>1, <1>16 DEF PeerInv, ScopeTypeOK, SendRest, Puts
<1>17. CASE DaemonStarts
  BY <1>1, <1>17 DEF PeerInv, ScopeTypeOK, DaemonStarts
<1>18. CASE DaemonStops
  BY <1>1, <1>18 DEF PeerInv, ScopeTypeOK, DaemonStops
<1>19. CASE UNCHANGED scopeVars
  BY <1>1, <1>19 DEF scopeVars, PeerInv
<1>. QED
  BY <1>2, <1>3, <1>4, <1>5, <1>6, <1>7, <1>8, <1>9, <1>10, <1>11, <1>12, <1>13, <1>14, <1>15, <1>16, <1>17, <1>18, <1>19
  DEF ScopeNext, Subscription, Daemon


(* What is in the socket stays whole.                                        *)
LEMMA WireStep ==
    ASSUME IInv, [ScopeNext]_scopeVars
    PROVE  FramesAreWhole' /\ HalfInv'
<1>. USE DEF app, socket
<1>1. ScopeTypeOK /\ FramesAreWhole /\ HalfInv
  BY DEF IInv
<1>2. CASE User \/ Watch \/ \E t \in Threads : LoadScope(t) \/ StoreWant(t)
  <2>1. line' \o stream' = line \o stream /\ peer' = peer /\ half' = half
    BY <1>1, <1>2, Wishes
  <2>. QED  BY <1>1, <2>1 DEF FramesAreWhole, HalfInv
<1>3. CASE OpenConnection
  <2>1. line' = <<>> /\ stream' = <<>> /\ half' = FALSE
    BY <1>3 DEF OpenConnection
  <2>2. line' \o stream' = <<>> /\ Len(<<>>) = 0
    BY <2>1
  <2>. QED  BY <2>1, <2>2 DEF FramesAreWhole, Framed, HalfInv
<1>4. CASE ConnectFails \/ CheckSame \/ Timeout \/ PeerGone \/ Retry
  <2>1. line' \o stream' = line \o stream /\ peer' = peer /\ half' = half
    BY <1>4 DEF ConnectFails, CheckSame, Timeout, PeerGone, Retry
  <2>. QED  BY <1>1, <2>1 DEF FramesAreWhole, HalfInv
<1>5. CASE FirstSubscribe \/ Resubscribe
  <2>1. line' \o stream' = line \o stream /\ peer' = peer /\ half' = half
    BY <1>5 DEF FirstSubscribe, Resubscribe, Ask
  <2>. QED  BY <1>1, <2>1 DEF FramesAreWhole, HalfInv
<1>6. CASE ReadPart
  <2>1. line' \o stream' = line \o stream
    BY <1>6, ReadPartKeeps
  <2>2. peer' = peer /\ half' = half
    BY <1>6 DEF ReadPart
  <2>. QED  BY <1>1, <2>1, <2>2 DEF FramesAreWhole, HalfInv
<1>7. CASE ReadLine
  BY <1>7, ReadLineKeeps
<1>8. CASE TakeRequest \/ DaemonStarts
  <2>1. line' \o stream' = line \o stream /\ peer' = peer /\ half' = half
    BY <1>8 DEF TakeRequest, DaemonStarts
  <2>. QED  BY <1>1, <2>1 DEF FramesAreWhole, HalfInv
<1>9. CASE SendSpank
  <2>1. Puts("spank") /\ "spank" \in Pieces
    BY <1>9 DEF SendSpank, Pieces
  <2>2. half' \in BOOLEAN /\ ("spank" = "tail" <=> half) /\ (half' <=> "spank" = "head")
    BY <1>1, <1>9 DEF SendSpank, ScopeTypeOK
  <2>. QED  BY <2>1, <2>2, PutsKeeps
<1>10. CASE SendFrame
  <2>1. Puts("head") /\ "head" \in Pieces
    BY <1>10 DEF SendFrame, Pieces
  <2>2. half' \in BOOLEAN /\ ("head" = "tail" <=> half) /\ (half' <=> "head" = "head")
    BY <1>1, <1>10 DEF SendFrame, ScopeTypeOK
  <2>. QED  BY <2>1, <2>2, PutsKeeps
<1>11. CASE SendRest
  <2>1. Puts("tail") /\ "tail" \in Pieces
    BY <1>11 DEF SendRest, Pieces
  <2>2. half' \in BOOLEAN /\ ("tail" = "tail" <=> half) /\ (half' <=> "tail" = "head")
    BY <1>1, <1>11 DEF SendRest, ScopeTypeOK
  <2>. QED  BY <2>1, <2>2, PutsKeeps
<1>12. CASE DaemonStops
  <2>1. line' \o stream' = line \o stream /\ peer' = FALSE
    BY <1>12 DEF DaemonStops
  <2>. QED  BY <1>1, <2>1 DEF FramesAreWhole, HalfInv
<1>13. CASE UNCHANGED scopeVars
  <2>1. line' \o stream' = line \o stream /\ peer' = peer /\ half' = half
    BY <1>13 DEF scopeVars
  <2>. QED  BY <1>1, <2>1 DEF FramesAreWhole, HalfInv
<1>. QED
  BY <1>2, <1>3, <1>4, <1>5, <1>6, <1>7, <1>8, <1>9, <1>10, <1>11, <1>12, <1>13
  DEF ScopeNext, Subscription, Daemon


(* What was asked for last is what the thread believes.                      *)
LEMMA AgreesStep ==
    ASSUME IInv, [ScopeNext]_scopeVars
    PROVE  SubscriptionAgrees'
<1>. USE DEF app, socket
<1>1. ScopeTypeOK /\ PeerInv /\ SubscriptionAgrees
  BY DEF IInv
<1>2. CASE User \/ Watch \/ \E t \in Threads : LoadScope(t) \/ StoreWant(t)
  <2>1. UNCHANGED <<peer, pc, asked, sends, subscribed>>
    BY <1>1, <1>2, Wishes
  <2>. QED  BY <1>1, <2>1 DEF SubscriptionAgrees
<1>3. CASE OpenConnection
  BY <1>1, <1>3 DEF OpenConnection, SubscriptionAgrees, PeerInv
<1>4. CASE ConnectFails
  BY <1>1, <1>4 DEF ConnectFails, SubscriptionAgrees, PeerInv
<1>5. CASE FirstSubscribe \/ Resubscribe
  <2>1. subscribed' = want_telemetry /\ peer' = peer
    BY <1>5 DEF FirstSubscribe, Resubscribe, Ask
  <2>2. CASE peer
    <3>1. asked' = Append(asked, want_telemetry)
      BY <1>5, <2>2 DEF FirstSubscribe, Resubscribe, Ask
    <3>2. asked' # <<>> /\ Last(asked') = want_telemetry
      BY <1>1, <3>1, AppendLast DEF ScopeTypeOK
    <3>. QED  BY <2>1, <3>2 DEF SubscriptionAgrees
  <2>3. CASE ~peer
    BY <2>1, <2>3 DEF SubscriptionAgrees
  <2>. QED  BY <2>2, <2>3
<1>6. CASE CheckSame
  BY <1>1, <1>6 DEF CheckSame, SubscriptionAgrees, PeerInv
<1>7. CASE ReadPart
  BY <1>1, <1>7 DEF ReadPart, SubscriptionAgrees, PeerInv
<1>8. CASE ReadLine
  BY <1>1, <1>8 DEF ReadLine, SubscriptionAgrees, PeerInv
<1>9. CASE Timeout
  BY <1>1, <1>9 DEF Timeout, SubscriptionAgrees, PeerInv
<1>10. CASE PeerGone
  BY <1>1, <1>10 DEF PeerGone, SubscriptionAgrees, PeerInv
<1>11. CASE Retry
  BY <1>1, <1>11 DEF Retry, SubscriptionAgrees, PeerInv
<1>12. CASE TakeRequest
  <2>1. /\ asked \in Seq(BOOLEAN) /\ asked # <<>> /\ asked' = Tail(asked)
        /\ sends' = IF Head(asked) THEN "all" ELSE "spanks"
        /\ UNCHANGED <<peer, pc, subscribed>>
    BY <1>1, <1>12 DEF TakeRequest, ScopeTypeOK
  <2>2. peer /\ pc \in {"check", "read"} => Last(asked) = subscribed
    BY <1>1, <2>1 DEF SubscriptionAgrees
  <2>3. /\ asked' = <<>> => Head(asked) = Last(asked)
        /\ asked' # <<>> => Last(asked') = Last(asked)
    BY <2>1, TailLast
  <2>4. CASE asked' = <<>>
    <3>1. peer' /\ pc' \in {"check", "read"} => Head(asked) = subscribed'
      BY <2>1, <2>2, <2>3, <2>4
    <3>. QED  BY <2>1, <2>4, <3>1 DEF SubscriptionAgrees
  <2>5. CASE asked' # <<>>
    <3>1. peer' /\ pc' \in {"check", "read"} => Last(asked') = subscribed'
      BY <2>1, <2>2, <2>3, <2>5
    <3>. QED  BY <2>5, <3>1 DEF SubscriptionAgrees
  <2>. QED  BY <2>4, <2>5
<1>13. CASE SendSpank \/ SendFrame \/ SendRest
  <2>1. UNCHANGED <<peer, pc, asked, sends, subscribed>>
    BY <1>13 DEF SendSpank, SendFrame, SendRest, Puts
  <2>. QED  BY <1>1, <2>1 DEF SubscriptionAgrees
<1>14. CASE DaemonStarts
  BY <1>1, <1>14 DEF DaemonStarts, SubscriptionAgrees, PeerInv
<1>15. CASE DaemonStops
  BY <1>1, <1>15 DEF DaemonStops, SubscriptionAgrees, PeerInv
<1>16. CASE UNCHANGED scopeVars
  <2>1. UNCHANGED <<peer, pc, asked, sends, subscribed>>
    BY <1>16 DEF scopeVars
  <2>. QED  BY <1>1, <2>1 DEF SubscriptionAgrees
<1>. QED
  BY <1>2, <1>3, <1>4, <1>5, <1>6, <1>7, <1>8, <1>9, <1>10, <1>11, <1>12, <1>13, <1>14, <1>15, <1>16
  DEF ScopeNext, Subscription, Daemon

-----------------------------------------------------------------------------
LEMMA NextIInv == IInv /\ [ScopeNext]_scopeVars => IInv'
BY TypeStep, PeerStep, WireStep, AgreesStep DEF IInv

LEMMA Invariance == ScopeSpec => []IInv
<1>1. ScopeInit => IInv
  BY InitIInv
<1>2. IInv /\ [ScopeNext]_scopeVars => IInv'
  BY NextIInv
<1>. QED  BY <1>1, <1>2, PTL DEF ScopeSpec

(* A line is at most begun, and never begun twice.                           *)
THEOREM ScopeTypeCorrect == ScopeSpec => []ScopeTypeOK
<1>1. IInv => ScopeTypeOK
  BY DEF IInv
<1>. QED  BY <1>1, Invariance, PTL

(* No timeout, new wish, hang-up or new connection shreds an event: app     *)
(* daemon.rs:176-182 and 199-211, for sockets of any size.                   *)
THEOREM FramesStayWhole == ScopeSpec => []FramesAreWhole
<1>1. IInv => FramesAreWhole
  BY DEF IInv
<1>. QED  BY <1>1, Invariance, PTL

(* What the thread compares its wish with is what the daemon sends once it   *)
(* has read its requests: app daemon.rs:159-197.                             *)
THEOREM SubscriptionStaysRight == ScopeSpec => []SubscriptionAgrees
<1>1. IInv => SubscriptionAgrees
  BY DEF IInv
<1>. QED  BY <1>1, Invariance, PTL

=============================================================================
