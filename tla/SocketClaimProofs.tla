-------------------------- MODULE SocketClaimProofs --------------------------
(***************************************************************************)
(* SocketClaim's properties hold for any set of daemons, finite or not: no *)
(* step of the proof counts them.                                          *)
(***************************************************************************)
EXTENDS SocketClaim, TLAPS

LEMMA InitIInv == Init => IInv
<1>. USE ClaimAssumption
<1>. SUFFICES ASSUME Init PROVE IInv
  OBVIOUS
<1>1. TypeOK
  BY DEF Init, TypeOK, States, Claim
<1>2. Claiming = {} /\ Live = {} /\ In({"listen", "chmod"}) = {}
  BY DEF Init, Claiming, Live, In, Claim
<1>3. ClaimInv /\ OneOwner
  BY <1>2 DEF ClaimInv, OneOwner
<1>4. ReachInv
  BY DEF Init, ReachInv
<1>. QED  BY <1>1, <1>3, <1>4 DEF IInv

-----------------------------------------------------------------------------
(* Types, and the owner of the path.                                       *)
LEMMA TypeStep == ASSUME TypeOK, Next PROVE TypeOK'
<1>. USE ClaimAssumption DEF TypeOK, States, Claim, Goto, Continue, Ends, Refused
<1>. PICK d \in Daemons : Start(d) \/ ClaimStep(d) \/ Return(d) \/ Leave(d) \/ Crash(d)
  BY DEF Next
<1>1. CASE Start(d)
  BY <1>1 DEF Start
<1>2. CASE Check(d)
  BY <1>2 DEF Check
<1>3. CASE ProbeAnswered(d)
  BY <1>3 DEF ProbeAnswered
<1>4. CASE ProbeRefused(d)
  BY <1>4 DEF ProbeRefused
<1>5. CASE RemoveStale(d)
  BY <1>5 DEF RemoveStale
<1>6. CASE RemoveNothing(d)
  BY <1>6 DEF RemoveNothing
<1>7. CASE Bind(d)
  BY <1>7 DEF Bind
<1>8. CASE BindInUse(d)
  BY <1>8 DEF BindInUse
<1>9. CASE Listen(d)
  BY <1>9 DEF Listen
<1>10. CASE Chmod(d)
  BY <1>10 DEF Chmod
<1>11. CASE ChmodNothing(d)
  BY <1>11 DEF ChmodNothing
<1>12. CASE Return(d)
  BY <1>12 DEF Return
<1>13. CASE Leave(d)
  BY <1>13 DEF Leave
<1>14. CASE Crash(d)
  BY <1>14 DEF Crash
<1>. QED
  BY <1>1, <1>2, <1>3, <1>4, <1>5, <1>6, <1>7, <1>8, <1>9, <1>10, <1>11,
     <1>12, <1>13, <1>14 DEF ClaimStep

-----------------------------------------------------------------------------
(* Without a race one daemon claims at a time, so what it has found out      *)
(* about the path stays true until it has acted on it.                       *)
LEMMA ClaimStepInv ==
    ASSUME TypeOK, ClaimInv, OneOwner, Next
    PROVE  ClaimInv' /\ OneOwner'
<1>. USE ClaimAssumption
     DEF TypeOK, ClaimInv, OneOwner, Claiming, Live, In, States, Claim,
         Goto, Continue, Ends, Refused
<1>. PICK d \in Daemons : Start(d) \/ ClaimStep(d) \/ Return(d) \/ Leave(d) \/ Crash(d)
  BY DEF Next
<1>1. CASE Start(d)
  BY <1>1 DEF Start
<1>2. CASE Check(d)
  BY <1>2 DEF Check
<1>3. CASE ProbeAnswered(d)
  BY <1>3 DEF ProbeAnswered
<1>4. CASE ProbeRefused(d)
  BY <1>4 DEF ProbeRefused, Answers
<1>5. CASE RemoveStale(d)
  BY <1>5 DEF RemoveStale
<1>6. CASE RemoveNothing(d)
  BY <1>6 DEF RemoveNothing
<1>7. CASE Bind(d)
  BY <1>7 DEF Bind
<1>8. CASE BindInUse(d)
  BY <1>8 DEF BindInUse
<1>9. CASE Listen(d)
  BY <1>9 DEF Listen
<1>10. CASE Chmod(d)
  BY <1>10 DEF Chmod
<1>11. CASE ChmodNothing(d)
  BY <1>11 DEF ChmodNothing
<1>12. CASE Return(d)
  BY <1>12 DEF Return
<1>13. CASE Leave(d)
  BY <1>13 DEF Leave
<1>14. CASE Crash(d)
  BY <1>14 DEF Crash
<1>. QED
  BY <1>1, <1>2, <1>3, <1>4, <1>5, <1>6, <1>7, <1>8, <1>9, <1>10, <1>11,
     <1>12, <1>13, <1>14 DEF ClaimStep

-----------------------------------------------------------------------------
(* Whoever finds the path in the way of its claim leaves a claimer behind,   *)
(* or a path that is bound.                                                  *)
LEMMA ReachStep == ASSUME TypeOK, ReachInv, Next PROVE ReachInv'
<1>. USE ClaimAssumption
     DEF TypeOK, ReachInv, In, States, Claim, Goto, Continue, Ends, Refused
<1>. PICK d \in Daemons : Start(d) \/ ClaimStep(d) \/ Return(d) \/ Leave(d) \/ Crash(d)
  BY DEF Next
<1>1. CASE Start(d)
  BY <1>1 DEF Start
<1>2. CASE Check(d)
  BY <1>2 DEF Check
<1>3. CASE ProbeAnswered(d)
  BY <1>3 DEF ProbeAnswered, Answers
<1>4. CASE ProbeRefused(d)
  BY <1>4 DEF ProbeRefused
<1>5. CASE RemoveStale(d)
  BY <1>5 DEF RemoveStale
<1>6. CASE RemoveNothing(d)
  BY <1>6 DEF RemoveNothing
<1>7. CASE Bind(d)
  BY <1>7 DEF Bind
<1>8. CASE BindInUse(d)
  BY <1>8 DEF BindInUse
<1>9. CASE Listen(d)
  BY <1>9 DEF Listen
<1>10. CASE Chmod(d)
  BY <1>10 DEF Chmod
<1>11. CASE ChmodNothing(d)
  BY <1>11 DEF ChmodNothing
<1>12. CASE Return(d)
  BY <1>12 DEF Return
<1>13. CASE Leave(d)
  BY <1>13 DEF Leave
<1>14. CASE Crash(d)
  BY <1>14 DEF Crash
<1>. QED
  BY <1>1, <1>2, <1>3, <1>4, <1>5, <1>6, <1>7, <1>8, <1>9, <1>10, <1>11,
     <1>12, <1>13, <1>14 DEF ClaimStep

-----------------------------------------------------------------------------
LEMMA StutterIInv == ASSUME IInv, UNCHANGED vars PROVE IInv'
BY DEF vars, IInv, TypeOK, ClaimInv, OneOwner, ReachInv, Claiming, Live, In

LEMMA IInvHolds == Spec => []IInv
<1>1. Init => IInv
  BY InitIInv
<1>2. IInv /\ [Next]_vars => IInv'
  BY TypeStep, ClaimStepInv, ReachStep, StutterIInv DEF IInv
<1>. QED  BY <1>1, <1>2, PTL DEF Spec

(* The types hold, and the path never leads to a daemon that has not bound   *)
(* it or is gone (server.rs:60, daemon.rs:152).                              *)
THEOREM TypeCorrect == Spec => []TypeOK
<1>1. IInv => TypeOK
  BY DEF IInv
<1>. QED  BY <1>1, IInvHolds, PTL

(* As long as starts do not overlap, at most one daemon is live and it owns  *)
(* the path: bind refuses the others (server.rs:46) and no exit removes a    *)
(* socket of somebody else's (daemon.rs:152).                                *)
THEOREM OneOwnerHolds == Spec => []OneOwner
<1>1. IInv => OneOwner
  BY DEF IInv
<1>. QED  BY <1>1, IInvHolds, PTL

(* Starts that overlap may remove each other's sockets, but not all of them  *)
(* can lose (server.rs:45-67).                                               *)
THEOREM SomebodyReachableHolds == Spec => []SomebodyReachable
<1>1. IInv => SomebodyReachable
  BY DEF IInv, ReachInv, SomebodyReachable, Claiming, Serving, In, Claim
<1>. QED  BY <1>1, IInvHolds, PTL

=============================================================================
