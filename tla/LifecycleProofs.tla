-------------------------- MODULE LifecycleProofs --------------------------
(***************************************************************************)
(* Lifecycle's safety properties hold for any number of apps, with or      *)
(* without a daemon beside them, and any number of crashes.                *)
(***************************************************************************)
EXTENDS Lifecycle, SocketClaimProofs

LockProofs == INSTANCE SocketClaimProofs
    WITH Daemons <- Apps, path <- lock, state <- claim, raced <- contested, calm <- settled

LEMMA Names ==
    /\ Bundled \subseteq Apps /\ Bundled \subseteq Daemons
    /\ Agent \in Daemons /\ Agent \notin Apps /\ Agent \notin Bundled
    /\ Daemons = Bundled \cup {Agent}
    /\ None \notin Apps /\ "stale" \notin Apps /\ None # "stale"
BY LifecycleAssumption, ClaimAssumption

-----------------------------------------------------------------------------
(* The daemons do what SocketClaim says they do, whoever starts and stops    *)
(* them.                                                                     *)
LEMMA DaemonStep == ASSUME LifeNext PROVE [Next]_vars
<1>. USE Names DEF LifeNext, Commands, InApp, InCmd
<1>1. ASSUME NEW a \in Apps,
             \/ Launch(a) \/ Acquire(a) \/ AcquireFails(a) \/ Attach(a) \/ NobodyAnswers(a)
             \/ SpawnFails(a) \/ Await(a) \/ Quit(a) \/ ChildStopped(a) \/ Release(a)
             \/ AppCrash(a)
      PROVE  UNCHANGED vars
  BY <1>1 DEF Launch, Acquire, AcquireFails, Attach, NobodyAnswers, SpawnFails, Await, Quit,
              ChildStopped, Release, AppCrash
<1>2. ASSUME NEW a \in Apps, Spawn(a) PROVE Next
  BY <1>2 DEF Spawn, Next
<1>3. ASSUME NEW a \in Apps, KillChild(a) PROVE Next
  BY <1>3 DEF KillChild, Next
<1>4. ASSUME NEW a \in Bundled, ParentGone(a) PROVE Next
  BY <1>4 DEF ParentGone, Next
<1>5. ASSUME NEW d \in Daemons, Claims(d) \/ Returns(d) \/ Leaves(d) \/ DaemonCrash(d) PROVE Next
  BY <1>5 DEF Claims, Returns, Leaves, DaemonCrash, Killed, Next
<1>6. CASE LaunchdStarts
  BY <1>6 DEF LaunchdStarts, Next
<1>7. CASE Restart
  BY <1>7 DEF Restart, Killed, Next
<1>8. CASE LaunchdForgets \/ Begin \/ Gone \/ Install \/ Bootstrap \/ Uninstall \/ CommandFails
  BY <1>8 DEF LaunchdForgets, Begin, Gone, Install, Bootstrap, Uninstall, CommandFails
<1>. QED  BY <1>1, <1>2, <1>3, <1>4, <1>5, <1>6, <1>7, <1>8

LEMMA DaemonInv == ASSUME IInv, LifeNext PROVE IInv'
BY DaemonStep, TypeStep, ClaimStepInv, ReachStep, StutterIInv DEF IInv

-----------------------------------------------------------------------------
(* So does an app with its own socket, until its claim fails.                *)
LEMMA LockStep ==
    ASSUME LifeNext
    PROVE  Lock!Next \/ UNCHANGED lockVars \/ \E a \in Apps : AcquireFails(a)
<1>. USE Names DEF LifeNext, Commands, InCmd, appVars
<1>1. ASSUME NEW a \in Apps, Launch(a) PROVE Lock!Next
  BY <1>1 DEF Launch, Lock!Next
<1>2. ASSUME NEW a \in Apps, Acquire(a) PROVE Lock!Next
  BY <1>2 DEF Acquire, Lock!Next, Lock!ClaimStep
<1>3. ASSUME NEW a \in Apps, Quit(a) PROVE Lock!Next
  BY <1>3 DEF Quit, Lock!Next
<1>4. ASSUME NEW a \in Apps, Release(a) PROVE Lock!Next
  BY <1>4 DEF Release, Lock!Next
<1>5. ASSUME NEW a \in Apps, AppCrash(a) PROVE Lock!Next
  BY <1>5 DEF AppCrash, Lock!Next
<1>6. ASSUME NEW a \in Apps,
             \/ Attach(a) \/ NobodyAnswers(a) \/ Spawn(a) \/ SpawnFails(a) \/ Await(a)
             \/ ChildStopped(a) \/ KillChild(a)
      PROVE  UNCHANGED lockVars
  BY <1>6 DEF Attach, NobodyAnswers, Spawn, SpawnFails, Await, ChildStopped, KillChild
<1>7. ASSUME NEW a \in Bundled, ParentGone(a) PROVE UNCHANGED lockVars
  BY <1>7 DEF ParentGone
<1>8. ASSUME NEW d \in Daemons, Claims(d) \/ Returns(d) \/ Leaves(d) \/ DaemonCrash(d)
      PROVE  UNCHANGED lockVars
  BY <1>8 DEF Claims, Returns, Leaves, DaemonCrash
<1>9. CASE LaunchdStarts \/ LaunchdForgets \/ Begin \/ Gone \/ Install \/ Bootstrap
           \/ Uninstall \/ CommandFails \/ Restart
  BY <1>9 DEF LaunchdStarts, LaunchdForgets, Begin, Gone, Install, Bootstrap,
              Uninstall, CommandFails, Restart
<1>. QED  BY <1>1, <1>2, <1>3, <1>4, <1>5, <1>6, <1>7, <1>8, <1>9

(* SocketClaim's lemmas speak of the lock under another name. *)
LEMMA LockTypes == (Lock!TypeOK <=> LockProofs!TypeOK) /\ (Lock!TypeOK <=> LockProofs!TypeOK)'
BY DEF
        Lock!TypeOK, LockProofs!TypeOK, Lock!Claim, LockProofs!Claim, Lock!States, LockProofs!States

LEMMA LockClaims ==
    /\ (Lock!ClaimInv <=> LockProofs!ClaimInv) /\ (Lock!ClaimInv <=> LockProofs!ClaimInv)'
    /\ (Lock!OneOwner <=> LockProofs!OneOwner) /\ (Lock!OneOwner <=> LockProofs!OneOwner)'
BY DEF
        Lock!ClaimInv, LockProofs!ClaimInv, Lock!OneOwner, LockProofs!OneOwner, Lock!Claim,
        LockProofs!Claim, Lock!States, LockProofs!States, Lock!In, LockProofs!In, Lock!Claiming,
        LockProofs!Claiming, Lock!Live, LockProofs!Live

LEMMA LockNext == Lock!Next <=> LockProofs!Next
BY DEF
        Lock!Next, LockProofs!Next, Lock!Start, LockProofs!Start, Lock!ClaimStep,
        LockProofs!ClaimStep, Lock!Check, LockProofs!Check, Lock!ProbeAnswered,
        LockProofs!ProbeAnswered, Lock!ProbeRefused, LockProofs!ProbeRefused, Lock!RemoveStale,
        LockProofs!RemoveStale, Lock!RemoveNothing, LockProofs!RemoveNothing, Lock!Bind,
        LockProofs!Bind, Lock!BindInUse, LockProofs!BindInUse, Lock!Listen, LockProofs!Listen,
        Lock!Chmod, LockProofs!Chmod, Lock!ChmodNothing, LockProofs!ChmodNothing, Lock!Return,
        LockProofs!Return, Lock!Leave, LockProofs!Leave, Lock!Crash, LockProofs!Crash, Lock!Goto,
        LockProofs!Goto, Lock!Continue, LockProofs!Continue, Lock!Ends, LockProofs!Ends,
        Lock!Refused, LockProofs!Refused, Lock!Claim, LockProofs!Claim, Lock!In, LockProofs!In,
        Lock!Claiming, LockProofs!Claiming, Lock!Answers, LockProofs!Answers

LEMMA LockStepInv == ASSUME LockInv, LifeNext PROVE LockInv'
<1>1. CASE Lock!Next
  <2>1. LockProofs!Next /\ LockProofs!TypeOK /\ LockProofs!ClaimInv /\ LockProofs!OneOwner
    BY <1>1, LockTypes, LockClaims, LockNext DEF LockInv
  <2>2. None \notin Apps /\ "stale" \notin Apps /\ None # "stale"
    BY Names
  <2>3. LockProofs!TypeOK'
    BY <2>1, <2>2, LockProofs!TypeStep DEF LockProofs!ClaimAssumption
  <2>4. LockProofs!ClaimInv' /\ LockProofs!OneOwner'
    BY <2>1, <2>2, LockProofs!ClaimStepInv DEF LockProofs!ClaimAssumption
  <2>. QED  BY <2>3, <2>4, LockTypes, LockClaims DEF LockInv
<1>2. CASE UNCHANGED lockVars
  BY <1>2 DEF lockVars, LockInv, Lock!TypeOK, Lock!ClaimInv, Lock!OneOwner, Lock!In,
              Lock!Claiming, Lock!Live
<1>3. ASSUME NEW a \in Apps, AcquireFails(a) PROVE LockInv'
  <2>1. claim' = [claim EXCEPT ![a] = "run"] /\ contested' = TRUE /\ UNCHANGED <<lock, settled>>
    BY <1>3 DEF AcquireFails
  <2>2. Lock!TypeOK'
    BY <2>1, Names DEF LockInv, Lock!TypeOK, Lock!States, Lock!Claim
  <2>3. Lock!ClaimInv' /\ Lock!OneOwner'
    BY <2>1 DEF Lock!ClaimInv, Lock!OneOwner
  <2>. QED  BY <2>2, <2>3 DEF LockInv
<1>. QED  BY <1>1, <1>2, <1>3, LockStep

-----------------------------------------------------------------------------
(* The types of the rest. *)
LEMMA RestTypes ==
    ASSUME LifeTypeOK, TypeOK', Lock!TypeOK', LifeNext
    PROVE  LifeTypeOK'
<1>. USE Names DEF LifeTypeOK, Stage, InApp, InCmd, Step, Done, IsLoaded, Steps
<1>1. ASSUME NEW a \in Apps,
             \/ Launch(a) \/ Acquire(a) \/ AcquireFails(a) \/ Attach(a) \/ NobodyAnswers(a)
             \/ Spawn(a) \/ SpawnFails(a) \/ Await(a) \/ ChildStopped(a) \/ KillChild(a)
             \/ Release(a)
      PROVE  LifeTypeOK'
  BY <1>1 DEF Launch, Acquire, AcquireFails, Attach, NobodyAnswers, Spawn, SpawnFails, Await,
              ChildStopped, KillChild, Release, agentVars
<1>2. ASSUME NEW a \in Apps, Quit(a) PROVE LifeTypeOK'
  BY <1>2 DEF Quit, agentVars
<1>3. ASSUME NEW a \in Apps, AppCrash(a) PROVE LifeTypeOK'
  BY <1>3, LifecycleAssumption DEF AppCrash, agentVars
<1>4. ASSUME NEW a \in Bundled, ParentGone(a) PROVE LifeTypeOK'
  BY <1>4 DEF ParentGone, appVars, agentVars
<1>5. ASSUME NEW d \in Daemons, Claims(d) \/ Returns(d) \/ Leaves(d) PROVE LifeTypeOK'
  BY <1>5 DEF Claims, Returns, Leaves, appVars, agentVars
<1>6. ASSUME NEW d \in Daemons, DaemonCrash(d) PROVE LifeTypeOK'
  BY <1>6, LifecycleAssumption DEF DaemonCrash, Killed, appVars, agentVars
<1>7. CASE LaunchdStarts \/ LaunchdForgets
  BY <1>7 DEF LaunchdStarts, LaunchdForgets, appVars, agentVars
<1>8. CASE Begin
  BY <1>8 DEF Begin, appVars
<1>9. CASE Gone \/ Install \/ Bootstrap \/ Uninstall \/ CommandFails
  BY <1>9 DEF Gone, Install, Bootstrap, Uninstall, CommandFails, appVars
<1>10. CASE Restart
  BY <1>10, LifecycleAssumption DEF Restart, Killed, appVars
<1>. QED
  BY <1>1, <1>2, <1>3, <1>4, <1>5, <1>6, <1>7, <1>8, <1>9, <1>10 DEF LifeNext, Commands

-----------------------------------------------------------------------------
(* An app has no daemon but the child it has started and not yet stopped.    *)
LEMMA StageStep ==
    ASSUME LifeTypeOK, StageInv, LifeNext
    PROVE  StageInv'
<1>. USE Names
     DEF LifeTypeOK, StageInv, ChildDown, At, Stage, InApp, InCmd, appVars, lockVars, vars
<1>0. state \in [Daemons -> States] /\ claim \in [Apps -> Lock!States]
  BY DEF TypeOK, Lock!TypeOK
<1>1. ASSUME NEW a \in Apps, Launch(a) PROVE StageInv'
  BY <1>0, <1>1 DEF Launch, Lock!Start, Lock!Goto
<1>2. ASSUME NEW a \in Apps, Acquire(a) PROVE StageInv'
  <2>1. \E s \in Lock!States : /\ claim' = [claim EXCEPT ![a] = s]
                             /\ claim[a] \notin {"run", "leave", "down"} /\ s # "leave"
    BY <1>2 DEF Acquire, Lock!Check, Lock!ProbeAnswered, Lock!ProbeRefused, Lock!RemoveStale,
                Lock!Bind, Lock!Listen, Lock!Chmod, Lock!Goto, Lock!Refused, Lock!Ends,
                Lock!States, Lock!Claim
  <2>. QED  BY <1>0, <1>2, <2>1 DEF Acquire
<1>3. ASSUME NEW a \in Apps, AcquireFails(a) PROVE StageInv'
  BY <1>0, <1>3 DEF AcquireFails
<1>4. ASSUME NEW a \in Apps, Attach(a) \/ NobodyAnswers(a) \/ SpawnFails(a) PROVE StageInv'
  BY <1>0, <1>4 DEF Attach, NobodyAnswers, SpawnFails
<1>5. ASSUME NEW a \in Apps, Spawn(a) PROVE StageInv'
  BY <1>0, <1>5 DEF Spawn, Start, Goto
<1>6. ASSUME NEW a \in Apps, Await(a) PROVE StageInv'
  BY <1>0, <1>6 DEF Await
<1>7. ASSUME NEW a \in Apps, Quit(a) PROVE StageInv'
  BY <1>0, <1>7 DEF Quit, Lock!Return, Lock!Goto
<1>8. ASSUME NEW a \in Apps, ChildStopped(a) PROVE StageInv'
  BY <1>0, <1>8 DEF ChildStopped
<1>9. ASSUME NEW a \in Apps, KillChild(a) PROVE StageInv'
  BY <1>0, <1>9 DEF KillChild, Crash, Ends, Goto
<1>10. ASSUME NEW a \in Apps, Release(a) PROVE StageInv'
  BY <1>0, <1>10 DEF Release, Lock!Leave, Lock!Goto
<1>11. ASSUME NEW a \in Apps, AppCrash(a) PROVE StageInv'
  BY <1>0, <1>11 DEF AppCrash, Lock!Crash, Lock!Ends, Lock!Goto
<1>12. ASSUME UNCHANGED appVars,
              \A a \in Bundled : state[a] = "down" => state'[a] = "down"
       PROVE  StageInv'
  BY <1>0, <1>12
<1>13. ASSUME NEW d \in Daemons, d # Agent => state[d] # "down",
              ClaimStep(d) \/ Return(d) \/ Leave(d) \/ Crash(d) \/ Start(d)
       PROVE  \A a \in Bundled : state[a] = "down" => state'[a] = "down"
  <2>1. \E s \in States : state' = [state EXCEPT ![d] = s]
    BY <1>13 DEF ClaimStep, Return, Leave, Crash, Start, Check, ProbeAnswered, ProbeRefused,
                 RemoveStale, RemoveNothing, Bind, BindInUse, Listen, Chmod, ChmodNothing,
                 Goto, Refused, Ends, States, Claim
  <2>. QED  BY <1>0, <1>13, <2>1
<1>14. ASSUME NEW d \in Daemons, ClaimStep(d) \/ Return(d) \/ Leave(d) \/ Crash(d)
       PROVE  state[d] # "down"
  BY <1>14 DEF ClaimStep, Return, Leave, Crash, Check, ProbeAnswered, ProbeRefused,
               RemoveStale, RemoveNothing, Bind, BindInUse, Listen, Chmod, ChmodNothing
<1>15. ASSUME NEW a \in Bundled, ParentGone(a) PROVE StageInv'
  BY <1>12, <1>13, <1>14, <1>15 DEF ParentGone
<1>16. ASSUME NEW d \in Daemons, Claims(d) \/ Returns(d) \/ Leaves(d) \/ DaemonCrash(d)
       PROVE  StageInv'
  BY <1>12, <1>13, <1>14, <1>16 DEF Claims, Returns, Leaves, DaemonCrash, Killed
<1>17. CASE LaunchdStarts
  BY <1>12, <1>13, <1>17 DEF LaunchdStarts
<1>18. CASE Restart
  BY <1>12, <1>13, <1>14, <1>18 DEF Restart, Killed
<1>19. CASE LaunchdForgets \/ Begin \/ Gone \/ Install \/ Bootstrap \/ Uninstall \/ CommandFails
  BY <1>12, <1>19 DEF LaunchdForgets, Begin, Gone, Install, Bootstrap, Uninstall, CommandFails
<1>. QED
  BY <1>1, <1>2, <1>3, <1>4, <1>5, <1>6, <1>7, <1>8, <1>9, <1>10, <1>11, <1>15, <1>16,
     <1>17, <1>18, <1>19 DEF LifeNext, Commands

-----------------------------------------------------------------------------
(* Commands wait for launchd, and only launchd starts the agent.             *)
LEMMA SameJob ==
    ASSUME JobInv, UNCHANGED agentVars, state[Agent] = "down" /\ job = "none" => state'[Agent] = "down"
    PROVE  JobInv'
BY DEF JobInv, agentVars

LEMMA AgentDown ==
    ASSUME TypeOK, NEW d \in Daemons, d # Agent \/ state[d] # "down",
           ClaimStep(d) \/ Return(d) \/ Leave(d) \/ Crash(d) \/ Start(d),
           state[Agent] = "down"
    PROVE  state'[Agent] = "down"
<1>1. d # Agent
  OBVIOUS
<1>2. \E s \in States : state' = [state EXCEPT ![d] = s]
  BY DEF ClaimStep, Return, Leave, Crash, Start, Check, ProbeAnswered, ProbeRefused,
         RemoveStale, RemoveNothing, Bind, BindInUse, Listen, Chmod, ChmodNothing,
         Goto, Refused, Ends, States, Claim
<1>. QED  BY <1>1, <1>2, Names DEF TypeOK

LEMMA NotDown ==
    ASSUME NEW d \in Daemons, ClaimStep(d) \/ Return(d) \/ Leave(d) \/ Crash(d)
    PROVE  state[d] # "down"
BY DEF ClaimStep, Return, Leave, Crash, Check, ProbeAnswered, ProbeRefused,
       RemoveStale, RemoveNothing, Bind, BindInUse, Listen, Chmod, ChmodNothing

LEMMA JobStep ==
    ASSUME LifeTypeOK, JobInv, LifeNext
    PROVE  JobInv'
<1>. TypeOK
  BY DEF LifeTypeOK
<1>. USE Names DEF InApp, InCmd
<1>1. ASSUME NEW a \in Apps,
             \/ Launch(a) \/ Acquire(a) \/ AcquireFails(a) \/ Attach(a) \/ NobodyAnswers(a)
             \/ SpawnFails(a) \/ Await(a) \/ Quit(a) \/ ChildStopped(a) \/ Release(a)
             \/ AppCrash(a)
      PROVE  JobInv'
  <2>1. UNCHANGED <<vars, agentVars>>
    BY <1>1 DEF Launch, Acquire, AcquireFails, Attach, NobodyAnswers, SpawnFails, Await, Quit,
                ChildStopped, Release, AppCrash
  <2>. QED  BY <2>1, SameJob DEF vars
<1>2. ASSUME NEW a \in Apps, Spawn(a) PROVE JobInv'
  BY <1>2, SameJob, AgentDown DEF Spawn
<1>3. ASSUME NEW a \in Apps, KillChild(a) PROVE JobInv'
  BY <1>3, SameJob, AgentDown DEF KillChild
<1>4. ASSUME NEW a \in Bundled, ParentGone(a) PROVE JobInv'
  BY <1>4, SameJob, AgentDown DEF ParentGone
<1>5. ASSUME NEW d \in Daemons, Claims(d) \/ Leaves(d) \/ DaemonCrash(d) PROVE JobInv'
  BY <1>5, SameJob, AgentDown, NotDown DEF Claims, Leaves, DaemonCrash, Killed
<1>6. ASSUME NEW d \in Daemons, Returns(d) PROVE JobInv'
  <2>1. CASE UNCHANGED job
    BY <1>6, <2>1, SameJob, AgentDown, NotDown DEF Returns, agentVars
  <2>2. CASE d = Agent /\ job = "keep" /\ job' = "done"
    BY <1>6, <2>2 DEF Returns, JobInv
  <2>. QED  BY <1>6, <2>1, <2>2 DEF Returns
<1>7. CASE LaunchdStarts
  BY <1>7, SameJob DEF LaunchdStarts, agentVars
<1>8. CASE LaunchdForgets
  BY <1>8 DEF LaunchdForgets, JobInv, vars
<1>9. CASE Restart
  <2>1. job' = "keep" /\ cmd' = cmd /\ cmd = "idle"
    BY <1>9 DEF Restart
  <2>. QED  BY <2>1 DEF JobInv
<1>10. CASE Begin
  <2>1. PICK answer \in BOOLEAN :
          /\ IsLoaded(answer)
          /\ Step(IF answer THEN "poll" ELSE "files")
          /\ UNCHANGED job \/ (answer /\ job' = "leaving")
    BY <1>10 DEF Begin
  <2>2. state' = state
    BY <1>10 DEF Begin, vars
  <2>. QED  BY <2>1, <2>2 DEF JobInv, IsLoaded, Loaded, Step
<1>11. CASE Gone \/ Install
  BY <1>11 DEF Gone, Install, IsLoaded, Loaded, Step, JobInv, vars
<1>12. CASE Bootstrap
  BY <1>12 DEF Bootstrap, Done, Step, JobInv
<1>13. CASE Uninstall \/ CommandFails
  BY <1>13 DEF Uninstall, CommandFails, Done, Step, JobInv, vars
<1>. QED
  BY <1>1, <1>2, <1>3, <1>4, <1>5, <1>6, <1>7, <1>8, <1>9, <1>10, <1>11, <1>12, <1>13
     DEF LifeNext, Commands

-----------------------------------------------------------------------------
LEMMA InitLifeInv == LifeInit => LifeInv
<1>. SUFFICES ASSUME LifeInit PROVE LifeInv
  OBVIOUS
<1>. USE Names DEF LifeInit
<1>1. IInv
  BY InitIInv
<1>2. LockInv
  <2>1. Lock!TypeOK
    BY DEF Lock!Init, Lock!TypeOK, Lock!States, Lock!Claim
  <2>2. Lock!ClaimInv /\ Lock!OneOwner
    BY DEF Lock!Init, Lock!ClaimInv, Lock!OneOwner, Lock!Claiming, Lock!Live, Lock!In, Lock!Claim
  <2>. QED  BY <2>1, <2>2 DEF LockInv
<1>3. LifeTypeOK
  <2>1. /\ stage \in [Apps -> {"ensure", "spawn", "await", "up", "stop", "release"}]
        /\ child \in [Apps -> BOOLEAN]
    OBVIOUS
  <2>2. job \in {"none", "keep", "done", "leaving"} /\ cmd \in Steps /\ misled \in BOOLEAN
    BY DEF Steps
  <2>3. crashes \in 0..MaxCrashes
    BY LifecycleAssumption
  <2>. QED  BY <1>1, <1>2, <2>1, <2>2, <2>3 DEF LifeTypeOK, IInv, LockInv
<1>4. StageInv
  BY DEF StageInv, Lock!Init
<1>5. JobInv
  BY DEF JobInv, Init
<1>. QED  BY <1>1, <1>2, <1>3, <1>4, <1>5 DEF LifeInv

LEMMA NextLifeInv == ASSUME LifeInv, LifeNext PROVE LifeInv'
<1>1. IInv'
  BY DaemonInv DEF LifeInv
<1>2. LockInv'
  BY LockStepInv DEF LifeInv
<1>3. LifeTypeOK'
  BY <1>1, <1>2, RestTypes DEF LifeInv, IInv, LockInv
<1>4. StageInv'
  BY StageStep DEF LifeInv
<1>5. JobInv'
  BY JobStep DEF LifeInv
<1>. QED  BY <1>1, <1>2, <1>3, <1>4, <1>5 DEF LifeInv

LEMMA StutterLifeInv == ASSUME LifeInv, UNCHANGED lifeVars PROVE LifeInv'
<1>. USE DEF lifeVars, appVars, lockVars, agentVars
<1>1. IInv'
  BY StutterIInv DEF LifeInv
<1>2. LockInv'
  BY DEF LifeInv, LockInv, Lock!TypeOK, Lock!ClaimInv, Lock!OneOwner, Lock!In,
         Lock!Claiming, Lock!Live
<1>3. LifeTypeOK'
  BY <1>1, <1>2 DEF LifeInv, LifeTypeOK, IInv, LockInv
<1>4. StageInv'
  BY DEF LifeInv, StageInv, ChildDown, vars
<1>5. JobInv'
  BY SameJob DEF LifeInv, vars
<1>. QED  BY <1>1, <1>2, <1>3, <1>4, <1>5 DEF LifeInv

LEMMA LifeInvHolds == LifeSpec => []LifeInv
<1>1. LifeInv /\ [LifeNext]_lifeVars => LifeInv'
  BY NextLifeInv, StutterLifeInv
<1>. QED  BY <1>1, InitLifeInv, PTL DEF LifeSpec

(* Every run of apps, launchd and commands is a run of SocketClaim's daemons: *)
(* what is said of those holds here (daemon.rs:76, 150).                     *)
THEOREM LifecycleIsClaim == LifeSpec => Spec
<1>1. LifeInit => Init
  BY DEF LifeInit
<1>2. [LifeNext]_lifeVars => [Next]_vars
  BY DaemonStep DEF lifeVars
<1>. QED  BY <1>1, <1>2, PTL DEF LifeSpec, Spec

(* The types hold, of the apps' stages and of the commands' steps too        *)
(* (supervisor.rs:15, launchd.rs:160).                                       *)
THEOREM LifeTypeCorrect == LifeSpec => []LifeTypeOK
<1>1. LifeInv => LifeTypeOK
  BY DEF LifeInv
<1>. QED  BY <1>1, LifeInvHolds, PTL

(* Whoever starts, stops and kills daemons, at most one is live as long as   *)
(* their starts do not overlap, and it owns the path (server.rs:46).         *)
THEOREM OneDaemonHolds == LifeSpec => []OneOwner
<1>1. LifeInv => OneOwner
  BY DEF LifeInv, IInv
<1>. QED  BY <1>1, LifeInvHolds, PTL

(* And whoever they are, they cannot all lose the path (server.rs:45-67).    *)
THEOREM DaemonReachableHolds == LifeSpec => []SomebodyReachable
<1>1. LifeInv => SomebodyReachable
  BY DEF LifeInv, IInv, ReachInv, SomebodyReachable, Claiming, Serving, In, Claim
<1>. QED  BY <1>1, LifeInvHolds, PTL

(* Unless copies of the app started at once, or one failed to claim its      *)
(* socket, one runs (single_instance.rs:43).                                 *)
THEOREM OneAppHolds == LifeSpec => []OneApp
<1>1. LifeInv => OneApp
  BY DEF LifeInv, LockInv, OneApp
<1>. QED  BY <1>1, LifeInvHolds, PTL

(* An app lets go of its socket only when its daemon is down                 *)
(* (supervisor.rs:142).                                                      *)
THEOREM QuitStopsChildHolds == LifeSpec => []QuitStopsChild
<1>1. LifeInv => QuitStopsChild
  BY DEF LifeInv, StageInv, QuitStopsChild, At
<1>. QED  BY <1>1, LifeInvHolds, PTL

(* No command touches the agent's binary or its file under a running agent,  *)
(* however often bootout fails, unless launchctl fails on the question       *)
(* whether launchd still has the job (launchd.rs:137, 151, 216).             *)
THEOREM NothingUnderfootHolds == LifeSpec => []NothingUnderfoot
<1>1. LifeInv => NothingUnderfoot
  BY DEF LifeInv, JobInv, NothingUnderfoot
<1>. QED  BY <1>1, LifeInvHolds, PTL

=============================================================================
