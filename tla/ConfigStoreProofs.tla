------------------------- MODULE ConfigStoreProofs -------------------------
(***************************************************************************)
(* ConfigStore's invariants hold for any number of connections, worker     *)
(* threads and configurations, and whichever system calls fail.            *)
(***************************************************************************)
EXTENDS ConfigStore, FiniteSetTheorems, TLAPS

(* What load returns and what the handlers save is always usable. *)
LEMMA NormalizeBody ==
    ASSUME NEW c \in Config
    PROVE  /\ Normalize(c) \in Config
           /\ Normalize(c) = [enabled |-> c.enabled, body |-> Modern[c.body]]
<1>1. c.body \in Bodies /\ Modern[c.body] \in Bodies
  BY ConstantsAssumption DEF Config
<1>. QED  BY <1>1 DEF Config, Normalize

LEMMA NormalizeUsable ==
    ASSUME NEW c \in Config, Valid(Normalize(c))
    PROVE  Usable(Normalize(c))
<1>1. c.body \in Bodies /\ Modern[Modern[c.body]] = Modern[c.body]
  BY ConstantsAssumption DEF Config
<1>2. Normalize(Normalize(c)) = Normalize(c)
  BY <1>1, NormalizeBody
<1>. QED  BY <1>2 DEF Usable

LEMMA DefaultUsable == Default \in Config /\ Usable(Default)
<1>1. DefaultBody \in Bodies \ InvalidBodies /\ Modern[DefaultBody] = DefaultBody
  BY ConstantsAssumption
<1>2. Default \in Config
  BY <1>1 DEF Default, Config
<1>3. Default.enabled = TRUE /\ Default.body = DefaultBody
  BY DEF Default
<1>4. Normalize(Default) = Default
  BY <1>1, <1>2, <1>3, NormalizeBody DEF Default
<1>. QED  BY <1>1, <1>2, <1>3, <1>4 DEF Usable, Valid

LEMMA LoadedUsable ==
    ASSUME NEW text
    PROVE  Loaded(text) \in Config /\ Usable(Loaded(text))
BY NormalizeBody, NormalizeUsable, DefaultUsable DEF Loaded, Acceptable

(* A boot that finds no usable configuration, or none, starts with defaults. *)
LEMMA UsableLoadsAsIs ==
    ASSUME NEW c \in Config, Usable(c)
    PROVE  Loaded(c) = c
BY DEF Loaded, Acceptable, Usable

LEMMA EnabledUsable ==
    ASSUME NEW c \in Config, Usable(c), NEW value \in BOOLEAN
    PROVE  LET d == [c EXCEPT !.enabled = value]
           IN  d \in Config /\ Usable(d)
<1> DEFINE d == [c EXCEPT !.enabled = value]
<1>1. d = [enabled |-> value, body |-> c.body] /\ c.body \in Bodies
  BY DEF Config
<1>2. c.body \notin InvalidBodies /\ Modern[c.body] = c.body
  BY <1>1 DEF Usable, Valid, Normalize, Config
<1>3. d \in Config
  BY <1>1 DEF Config
<1>4. Usable(d)
  BY <1>1, <1>2 DEF Usable, Valid, Normalize
<1>. QED  BY <1>3, <1>4

LEMMA WrittenContent ==
    ASSUME NEW old, NEW c \in Config
    PROVE  Written(old, c) \subseteq Content
BY DEF Written, Content

-----------------------------------------------------------------------------
(* Type correctness. *)

LEMMA StartSaveType ==
    ASSUME TypeOK, NEW c \in Conns, NEW wanted \in Config,
           NEW request \in {"set_config", "set_enabled"},
           StartSave(c, request, wanted)
    PROVE  TypeOK'
BY DEF StartSave, TypeOK, Goto, Steps, Job, Names, disk

LEMMA SaveReturnsErrorType ==
    ASSUME TypeOK, NEW c \in Conns, SaveReturnsError(c),
           file' \in [Names -> Content \cup {Absent}], unsynced' \subseteq Names,
           UNCHANGED stale
    PROVE  TypeOK'
<1>1. NoJob \in Job
  BY DefaultUsable DEF NoJob, Job
<1>. QED  BY <1>1 DEF SaveReturnsError, Close, Goto, TypeOK, Steps, Files, history

LEMMA PutType ==
    ASSUME TypeOK, NEW c \in Conns, NEW text \in Content \cup {Absent}, Put(c, text)
    PROVE  file' \in [Names -> Content \cup {Absent}] /\ unsynced' \subseteq Names
BY DEF Put, TypeOK

LEMMA OldType ==
    ASSUME TypeOK, NEW c \in Conns
    PROVE  Old(c) \in Content \cup {Absent}
BY DEF Old, TypeOK, Content

LEMMA RequestType ==
    ASSUME TypeOK, NEW c \in Conns, Request(c)
    PROVE  TypeOK'
<1>1. ASSUME NEW received \in Config, SetConfig(c, received)
      PROVE  TypeOK'
  BY <1>1, NormalizeBody, StartSaveType DEF SetConfig
<1>2. ASSUME NEW value \in BOOLEAN, SetEnabled(c, value)
      PROVE  TypeOK'
  <2>1. [config EXCEPT !.enabled = value] \in Config
    BY DEF TypeOK, Config
  <2>. QED  BY <1>2, <2>1, StartSaveType DEF SetEnabled
<1>. QED  BY <1>1, <1>2 DEF Request

LEMMA HandleType ==
    ASSUME TypeOK, NEW c \in Conns, Handle(c)
    PROVE  TypeOK'
<1> USE DEF Goto, Close, Steps, Files, history, disk
<1>0. NoJob \in Job
  BY DefaultUsable DEF NoJob, Job
<1>1. CASE OpenTmp(c)
  BY <1>1 DEF OpenTmp, TypeOK, Names, Content
<1>2. CASE WriteTmp(c)
  <2>1. job[c].config \in Config
    BY DEF TypeOK, Job
  <2>2. PICK text \in Written(Old(c), job[c].config) : Put(c, text)
    BY <1>2 DEF WriteTmp
  <2>3. file' \in [Names -> Content \cup {Absent}] /\ unsynced' \subseteq Names
    BY <2>1, <2>2, WrittenContent, PutType
  <2>. QED  BY <1>2, <2>3 DEF WriteTmp, TypeOK
<1>3. CASE WriteFails(c)
  <2>1. PICK text \in {Old(c), Torn} : Put(c, text)
    BY <1>3 DEF WriteFails
  <2>2. text \in Content \cup {Absent}
    BY OldType DEF Content
  <2>. QED  BY <1>3, <2>1, <2>2, PutType, SaveReturnsErrorType DEF WriteFails
<1>4. CASE SyncTmp(c)
  BY <1>4 DEF SyncTmp, TypeOK
<1>5. CASE RenameTmp(c)
  <2>1. file' \in [Names -> Content \cup {Absent}]
    BY <1>5 DEF RenameTmp, TypeOK, Names, DiskName
  <2>2. fd' \in [Conns -> Files]
    <3>1. \A f \in Files : Moved(f) \in Files
      BY DEF Moved, Names
    <3>. QED  BY <1>5, <3>1 DEF RenameTmp, TypeOK
  <2>3. unsynced' \subseteq Names /\ overlap' \subseteq Names
    BY <1>5 DEF RenameTmp, Older, Names
  <2>. QED  BY <1>5, <2>1, <2>2, <2>3 DEF RenameTmp, TypeOK
<1>6. CASE RenameFindsNothing(c)
  BY <1>6, SaveReturnsErrorType DEF RenameFindsNothing, TypeOK
<1>7. CASE ChmodConfig(c)
  BY <1>7 DEF ChmodConfig, TypeOK
<1>8. CASE CallFails(c)
  BY <1>8, SaveReturnsErrorType DEF CallFails, TypeOK
<1>9. CASE Send(c)
  BY <1>9, <1>0 DEF Send, TypeOK, Job
<1>. QED  BY <1>1, <1>2, <1>3, <1>4, <1>5, <1>6, <1>7, <1>8, <1>9 DEF Handle

LEMMA EnvironmentType ==
    ASSUME TypeOK
    PROVE  /\ BootAsIs \/ BootQuarantines \/ QuarantineFails => TypeOK'
           /\ WriteBack \/ Kill \/ PowerLoss => TypeOK'
           /\ \A text \in Edits : EditFile(text) => TypeOK'
<1>1. OnDisk \in Config
  BY LoadedUsable DEF OnDisk
<1>2. NoJob \in Job
  BY DefaultUsable DEF NoJob, Job
<1>3. ASSUME BootAsIs \/ QuarantineFails PROVE TypeOK'
  BY <1>1, <1>3 DEF BootAsIs, QuarantineFails, BootWithFile, Boot, TypeOK, disk
<1>4. ASSUME BootQuarantines PROVE TypeOK'
  <2>1. file' \in [Names -> Content \cup {Absent}] /\ aside' \in Content \cup {Absent}
    BY <1>4 DEF BootQuarantines, TypeOK, Names, DiskName
  <2>2. unsynced' \subseteq Names /\ overlap' \subseteq Names
    BY <1>4 DEF BootQuarantines, Older, Names
  <2>. QED  BY <1>1, <1>4, <2>1, <2>2 DEF BootQuarantines, Boot, TypeOK
<1>5. ASSUME Kill PROVE TypeOK'
  BY <1>2, <1>5 DEF Kill, Ends, TypeOK, Steps, Files
<1>6. ASSUME PowerLoss PROVE TypeOK'
  <2>1. Survivors \subseteq Content \cup {Absent}
    BY DEF TypeOK, Names, Content, Survivors, DiskName
  <2>2. file' \in [Names -> Content \cup {Absent}]
    BY <1>6, <2>1 DEF PowerLoss, Names
  <2>3. overlap' \subseteq Names
    BY <1>6 DEF PowerLoss, Names
  <2>. QED  BY <1>2, <1>6, <2>2, <2>3 DEF PowerLoss, Ends, TypeOK, Steps, Files
<1>7. ASSUME NEW text \in Edits, EditFile(text) PROVE TypeOK'
  BY <1>7 DEF EditFile, Edits, TypeOK, Content
<1>8. ASSUME WriteBack PROVE TypeOK'
  <2>1. fd' \in [Conns -> Files]
    BY <1>8 DEF WriteBack, TypeOK, Files
  <2>. QED  BY <1>8, <2>1 DEF WriteBack, TypeOK
<1>. QED  BY <1>3, <1>4, <1>5, <1>6, <1>7, <1>8

LEMMA TypeStep == TypeOK /\ [Next]_vars => TypeOK'
<1>1. ASSUME TypeOK, Next PROVE TypeOK'
  BY <1>1, RequestType, HandleType, EnvironmentType DEF Next
<1>2. ASSUME TypeOK, UNCHANGED vars PROVE TypeOK'
  BY <1>2 DEF vars, disk, history, TypeOK
<1>. QED  BY <1>1, <1>2

LEMMA TypeInit == Init => TypeOK
<1>1. NoJob \in Job
  BY DefaultUsable DEF NoJob, Job
<1>. QED  BY <1>1, DefaultUsable DEF Init, TypeOK, Names, Steps, Files

(* Every variable keeps its type, whatever the system calls do. *)
THEOREM TypeCorrect == Spec => []TypeOK
BY TypeInit, TypeStep, PTL DEF Spec

-----------------------------------------------------------------------------
(* The handlers' configurations, and that of the daemon, are usable. *)

UsableInv == TypeOK /\ LiveIsUsable /\ HandlerInv

LEMMA UsableRequest ==
    ASSUME UsableInv, NEW c \in Conns, Request(c)
    PROVE  LiveIsUsable' /\ HandlerInv'
<1>1. ASSUME NEW request \in {"set_config", "set_enabled"}, NEW wanted \in Config,
             Usable(wanted), StartSave(c, request, wanted)
      PROVE  LiveIsUsable' /\ HandlerInv'
  <2>1. request # "none"
    BY <1>1
  <2>. QED  BY <1>1, <2>1 DEF StartSave, Goto, UsableInv, TypeOK, LiveIsUsable, HandlerInv
<1>2. ASSUME NEW received \in Config, SetConfig(c, received)
      PROVE  LiveIsUsable' /\ HandlerInv'
  BY <1>1, <1>2, NormalizeBody, NormalizeUsable DEF SetConfig
<1>3. ASSUME NEW value \in BOOLEAN, SetEnabled(c, value)
      PROVE  LiveIsUsable' /\ HandlerInv'
  <2>1. up
    BY <1>3 DEF SetEnabled, StartSave
  <2>2. config \in Config /\ Usable(config)
    BY <2>1 DEF UsableInv, TypeOK, LiveIsUsable
  <2>. QED  BY <1>1, <1>3, <2>2, EnabledUsable DEF SetEnabled
<1>. QED  BY <1>2, <1>3 DEF Request

LEMMA UsableHandle ==
    ASSUME UsableInv, NEW c \in Conns, Handle(c)
    PROVE  LiveIsUsable' /\ HandlerInv'
<1> USE DEF UsableInv, TypeOK, LiveIsUsable, HandlerInv, Goto, Close, history, disk
<1>1. CASE OpenTmp(c)
  BY <1>1 DEF OpenTmp
<1>2. CASE WriteTmp(c)
  BY <1>2 DEF WriteTmp
<1>3. CASE WriteFails(c) \/ RenameFindsNothing(c) \/ CallFails(c)
  <2>1. pc[c] # "idle"
    BY <1>3, ConstantsAssumption
       DEF WriteFails, RenameFindsNothing, CallFails, SysCalls
  <2>2. SaveReturnsError(c)
    BY <1>3 DEF WriteFails, RenameFindsNothing, CallFails
  <2>3. job[c].request \in {"set_config", "set_enabled"}
    BY <2>1 DEF Job
  <2>. QED  BY <2>1, <2>2, <2>3 DEF SaveReturnsError, NoJob
<1>4. CASE SyncTmp(c)
  BY <1>4 DEF SyncTmp
<1>5. CASE RenameTmp(c)
  <2>1. \A d \in Conns : fd'[d] # "closed" <=> fd[d] # "closed"
    BY <1>5 DEF RenameTmp, Moved, Files, Names
  <2>. QED  BY <1>5, <2>1 DEF RenameTmp
<1>6. CASE ChmodConfig(c)
  BY <1>6 DEF ChmodConfig
<1>7. CASE Send(c)
  BY <1>7 DEF Send, NoJob
<1>. QED  BY <1>1, <1>2, <1>3, <1>4, <1>5, <1>6, <1>7 DEF Handle

LEMMA UsableEnvironment ==
    ASSUME UsableInv,
           \/ BootAsIs \/ BootQuarantines \/ QuarantineFails
           \/ WriteBack \/ Kill \/ PowerLoss
           \/ \E text \in Edits : EditFile(text)
    PROVE  LiveIsUsable' /\ HandlerInv'
<1>1. CASE BootAsIs \/ BootQuarantines \/ QuarantineFails
  BY <1>1, LoadedUsable
     DEF BootAsIs, BootQuarantines, QuarantineFails, BootWithFile, Boot, OnDisk,
         UsableInv, LiveIsUsable, HandlerInv
<1>2. CASE Kill \/ PowerLoss
  BY <1>2 DEF Kill, PowerLoss, Ends, LiveIsUsable, HandlerInv, NoJob
<1>3. CASE \E text \in Edits : EditFile(text)
  BY <1>3 DEF EditFile, UsableInv, LiveIsUsable, HandlerInv
<1>4. CASE WriteBack
  <2>1. \A c \in Conns : fd'[c] # "closed" <=> fd[c] # "closed"
    BY <1>4 DEF WriteBack, UsableInv, TypeOK
  <2>. QED  BY <1>4, <2>1 DEF WriteBack, UsableInv, LiveIsUsable, HandlerInv
<1>. QED  BY <1>1, <1>2, <1>3, <1>4

LEMMA UsableStep == UsableInv /\ [Next]_vars => UsableInv'
<1>1. ASSUME UsableInv, Next PROVE LiveIsUsable' /\ HandlerInv'
  BY <1>1, UsableRequest, UsableHandle, UsableEnvironment DEF Next
<1>2. ASSUME UsableInv, UNCHANGED vars PROVE LiveIsUsable' /\ HandlerInv'
  BY <1>2 DEF vars, disk, history, UsableInv, LiveIsUsable, HandlerInv
<1>. QED  BY <1>1, <1>2, TypeStep DEF UsableInv

LEMMA UsableInit == Init => UsableInv
BY TypeInit DEF Init, UsableInv, LiveIsUsable, HandlerInv, NoJob

(* The daemon never runs a configuration that does not validate or is in an *)
(* older layout: not after a boot from any file, not for any client.        *)
THEOREM LiveIsAlwaysUsable == Spec => []LiveIsUsable
<1>1. UsableInv => LiveIsUsable
  BY DEF UsableInv
<1>. QED  BY <1>1, UsableInit, UsableStep, PTL DEF Spec

-----------------------------------------------------------------------------
(* What a save leaves behind.  A step of a handler that is alone can only    *)
(* disturb its own LoneSave; a step of any other happens while config.json   *)
(* is known to overlapping handlers, and there is no lone handler then.      *)

SaveInv == OverlapInv /\ LoneSaveInv /\ WholeInv /\ SettledInv

LEMMA ConfigIsWhole == Config \cap {Absent, Empty, Torn} = {}
BY TextsDiffer

(* A handler at work is by itself, or overlapping handlers may write. *)
LEMMA AloneOrOverlap ==
    ASSUME IInv, NEW c \in Conns, pc[c] # "idle"
    PROVE  /\ ~settled
           /\ \/ alone /\ Busy = {c} /\ LoneSave(c)
              \/ ~alone /\ "config" \in overlap
<1>1. c \in Busy
  BY DEF Busy
<1>. QED  BY <1>1 DEF IInv, OverlapInv, LoneSaveInv, SettledInv

(* The handlers that have a file open are at work, and not alone unless it   *)
(* is the temporary file.                                                    *)
LEMMA OpenFiles ==
    ASSUME IInv, NEW c \in Conns, fd[c] # "closed"
    PROVE  /\ c \in Busy /\ pc[c] \in {"write", "sync"}
           /\ fd[c] # "tmp" => ~alone /\ "config" \in overlap
           /\ fd[c] = "former" => "former" \in overlap
<1>1. pc[c] \in {"write", "sync"}
  BY DEF IInv, HandlerInv
<1>2. c \in Busy
  BY <1>1 DEF Busy
<1>. QED  BY <1>1, <1>2, AloneOrOverlap DEF IInv, OverlapInv, LoneSave

(* Where a file may be in part, and which are open: what a step owes to the  *)
(* name "former".                                                            *)
FormerKept ==
    /\ file["former"] \in {Empty, Torn} \/ "former" \in unsynced => "former" \in overlap
    /\ \A d \in Conns : fd[d] = "former" => "former" \in overlap

LEMMA FormerNow == IInv => FormerKept
BY OpenFiles DEF IInv, WholeInv, FormerKept

LEMMA PutFormer ==
    ASSUME IInv, NEW c \in Conns, NEW text, Put(c, text),
           \A d \in Conns : fd'[d] \in {fd[d], "closed"}, UNCHANGED overlap
    PROVE  FormerKept'
<1>1. FormerKept /\ file \in [Names -> Content \cup {Absent}]
  BY FormerNow DEF IInv, TypeOK
<1>2. CASE fd[c] = "former"
  BY <1>1, <1>2 DEF FormerKept
<1>3. CASE fd[c] # "former"
  <2>1. file'["former"] = file["former"] /\ ("former" \in unsynced' <=> "former" \in unsynced)
    BY <1>1, <1>3 DEF Put, Names
  <2>. QED  BY <1>1, <2>1 DEF FormerKept
<1>. QED  BY <1>2, <1>3

LEMMA FormerHandle ==
    ASSUME IInv, NEW c \in Conns, Handle(c)
    PROVE  FormerKept'
<1> USE DEF Goto, Close, history, disk
<1>0. /\ FormerKept /\ file \in [Names -> Content \cup {Absent}]
      /\ fd \in [Conns -> Files] /\ unsynced \subseteq Names
  BY FormerNow DEF IInv, TypeOK
<1>1. CASE OpenTmp(c)
  <2>1. file'["former"] = file["former"] /\ \A d \in Conns : fd'[d] \in {fd[d], "tmp"}
    BY <1>0, <1>1 DEF OpenTmp, Names
  <2>. QED  BY <1>0, <1>1, <2>1 DEF OpenTmp, FormerKept
<1>2. CASE WriteTmp(c)
  BY <1>2, PutFormer DEF WriteTmp
<1>3. CASE WriteFails(c)
  <2>1. \A d \in Conns : fd'[d] \in {fd[d], "closed"}
    BY <1>0, <1>3 DEF WriteFails, SaveReturnsError
  <2>. QED  BY <1>3, <2>1, PutFormer DEF WriteFails, SaveReturnsError
<1>4. CASE RenameTmp(c)
  <2>1. pc[c] = "rename" /\ c \in Busy
    BY <1>4 DEF RenameTmp, Busy
  <2>2. ASSUME NEW d \in Conns, fd[d] \in {"config", "former"}
        PROVE  "config" \in overlap /\ fd[d] \in overlap
    BY <2>2, OpenFiles
  <2>3. ASSUME NEW d \in Conns, fd'[d] = "former" PROVE DiskName \in overlap
    <3>1. fd'[d] = Moved(fd[d])
      BY <1>4 DEF RenameTmp
    <3>2. fd[d] = "former" \/ (fd[d] = "config" /\ ~stale)
      BY <2>3, <3>1 DEF Moved
    <3>. QED  BY <2>2, <3>2 DEF DiskName
  <2>4. /\ file'["former"] = file[DiskName]
        /\ "former" \in unsynced' <=> DiskName \in unsynced
        /\ DiskName \in overlap => "former" \in overlap'
    BY <1>4 DEF RenameTmp, Older
  <2>5. file[DiskName] \in {Empty, Torn} \/ DiskName \in unsynced => DiskName \in overlap
    BY DEF IInv, WholeInv, DiskName
  <2>. QED  BY <2>3, <2>4, <2>5 DEF FormerKept
<1>5. CASE \/ SyncTmp(c) \/ RenameFindsNothing(c) \/ ChmodConfig(c)
           \/ CallFails(c) \/ Send(c)
  <2>1. \A d \in Conns : fd'[d] \in {fd[d], "closed"}
    BY <1>0, <1>5 DEF SyncTmp, RenameFindsNothing, ChmodConfig, CallFails, Send,
                      SaveReturnsError
  <2>2. /\ UNCHANGED <<file, overlap>> /\ unsynced' \subseteq unsynced
    BY <1>5 DEF SyncTmp, RenameFindsNothing, ChmodConfig, CallFails, Send,
                SaveReturnsError
  <2>. QED  BY <1>0, <2>1, <2>2 DEF FormerKept
<1>. QED  BY <1>1, <1>2, <1>3, <1>4, <1>5 DEF Handle

(* A step of a handler beside others cannot disturb anything. *)
LEMMA CrowdedStep ==
    ASSUME IInv, NEW c \in Conns, pc[c] # "idle", ~alone, FormerKept',
           UNCHANGED alone, "config" \in overlap', ~settled'
    PROVE  SaveInv'
<1>1. OverlapInv'
  BY DEF OverlapInv, FormerKept, Busy
<1>2. WholeInv'
  BY DEF WholeInv, FormerKept
<1>. QED  BY <1>1, <1>2 DEF SaveInv, LoneSaveInv, SettledInv

(* A step of a lone handler has only its own progress to account for. *)
LEMMA LoneStep ==
    ASSUME IInv, NEW c \in Conns, pc[c] # "idle", alone, FormerKept',
           Busy' \subseteq Busy, UNCHANGED alone, SettledInv',
           c \in Busy' => LoneSave(c)',
           "config" \in unsynced' => "config" \in overlap',
           file'["config"] \in {Empty, Torn} => "config" \in overlap'
    PROVE  SaveInv'
<1>1. Busy = {c}
  BY AloneOrOverlap
<1>2. Busy' \subseteq {c}
  BY <1>1
<1>3. OverlapInv' /\ LoneSaveInv'
  BY <1>2 DEF OverlapInv, LoneSaveInv, FormerKept, Busy
<1>4. WholeInv'
  BY DEF WholeInv, FormerKept
<1>. QED  BY <1>3, <1>4 DEF SaveInv

LEMMA SaveRequest ==
    ASSUME IInv, NEW c \in Conns, Request(c)
    PROVE  SaveInv'
<1>1. PICK request, wanted : StartSave(c, request, wanted)
  BY DEF Request, SetConfig, SetEnabled
<1>2. /\ Busy' = Busy \cup {c}
      /\ alone' = (Busy = {})
      /\ overlap \subseteq overlap' /\ (Busy # {} => "config" \in overlap')
      /\ pc' = [pc EXCEPT ![c] = "open"]
      /\ ~settled' /\ UNCHANGED <<disk, fd>>
  BY <1>1 DEF StartSave, Goto, Busy, IInv, TypeOK
<1>3. FormerKept'
  BY <1>2, FormerNow DEF FormerKept, disk
<1>4. OverlapInv'
  BY <1>2, <1>3 DEF OverlapInv, FormerKept, Busy
<1>5. LoneSaveInv'
  <2>1. ASSUME NEW d \in Busy', alone' PROVE LoneSave(d)'
    <3>1. d \in Conns /\ d = c
      BY <1>2, <2>1 DEF Busy
    <3>2. pc'[d] = "open"
      BY <1>2, <3>1 DEF IInv, TypeOK
    <3>. QED  BY <3>2 DEF LoneSave
  <2>. QED  BY <2>1 DEF LoneSaveInv
<1>. QED  BY <1>2, <1>4, <1>5 DEF SaveInv, IInv, WholeInv, SettledInv, disk

LEMMA SaveHandle ==
    ASSUME IInv, NEW c \in Conns, Handle(c)
    PROVE  SaveInv'
<1> USE DEF Goto, Close, history, disk
<1>0. /\ pc \in [Conns -> Steps] /\ fd \in [Conns -> Files]
      /\ file \in [Names -> Content \cup {Absent}] /\ unsynced \subseteq Names
      /\ job \in [Conns -> Job] /\ job[c].config \in Config
  BY DEF IInv, TypeOK, Job
<1>1. pc[c] # "idle"
  BY ConstantsAssumption
     DEF Handle, OpenTmp, WriteTmp, WriteFails, SyncTmp, RenameTmp,
         RenameFindsNothing, ChmodConfig, CallFails, SysCalls, Send
<1>2. /\ ~settled
      /\ \/ alone /\ Busy = {c} /\ LoneSave(c)
         \/ ~alone /\ "config" \in overlap
  BY <1>1, AloneOrOverlap
<1>3. UNCHANGED alone /\ Busy' \subseteq Busy /\ FormerKept'
  BY <1>0, <1>1, FormerHandle
     DEF Handle, OpenTmp, WriteTmp, WriteFails, SyncTmp, RenameTmp, Busy,
         RenameFindsNothing, ChmodConfig, CallFails, Send, SaveReturnsError
<1>4. CASE ~alone
  <2>1. "config" \in overlap'
    BY <1>2, <1>4
       DEF Handle, OpenTmp, WriteTmp, WriteFails, SyncTmp, RenameTmp,
           RenameFindsNothing, ChmodConfig, CallFails, Send, SaveReturnsError
  <2>2. ~settled'
    BY <1>2, <1>4
       DEF Handle, OpenTmp, WriteTmp, WriteFails, SyncTmp, RenameTmp,
           RenameFindsNothing, ChmodConfig, CallFails, Send, SaveReturnsError
  <2>. QED  BY <1>1, <1>3, <1>4, <2>1, <2>2, CrowdedStep
<1>5. CASE alone
  <2>0. /\ LoneSave(c) /\ Busy = {c}
        /\ "config" \in unsynced => "config" \in overlap
        /\ file["config"] \in {Empty, Torn} => "config" \in overlap
    BY <1>2, <1>5 DEF IInv, WholeInv
  <2> SUFFICES /\ SettledInv'
               /\ c \in Busy' => LoneSave(c)'
               /\ "config" \in unsynced' => "config" \in overlap'
               /\ file'["config"] \in {Empty, Torn} => "config" \in overlap'
    BY <1>1, <1>3, <1>5, LoneStep
  <2> USE DEF SettledInv
  <2>1. CASE OpenTmp(c)
    <3>1. pc'[c] = "write" /\ fd'[c] = "tmp" /\ file'["tmp"] = Empty
      BY <1>0, <2>1 DEF OpenTmp, Names
    <3>2. file'["config"] = file["config"]
      BY <1>0, <2>1 DEF OpenTmp, Names
    <3>. QED  BY <1>2, <2>0, <2>1, <3>1, <3>2 DEF OpenTmp, LoneSave
  <2>2. CASE WriteTmp(c)
    <3>1. fd[c] = "tmp" /\ Old(c) = Empty
      BY <2>0, <2>2 DEF WriteTmp, LoneSave, Old, Names
    <3>2. Put(c, job[c].config)
      BY <2>2, <3>1 DEF WriteTmp, Written
    <3>3. /\ file'["tmp"] = job[c].config /\ file'["config"] = file["config"]
          /\ "config" \in unsynced' <=> "config" \in unsynced
      BY <1>0, <3>1, <3>2 DEF Put, Names
    <3>4. pc'[c] = "sync"
      BY <1>0, <2>2 DEF WriteTmp
    <3>. QED  BY <1>2, <2>0, <2>2, <3>1, <3>3, <3>4 DEF WriteTmp, LoneSave
  <2>3. CASE WriteFails(c)
    <3>1. fd[c] = "tmp"
      BY <2>0, <2>3 DEF WriteFails, LoneSave
    <3>2. PICK text : Put(c, text)
      BY <2>3 DEF WriteFails
    <3>3. /\ file'["config"] = file["config"]
          /\ "config" \in unsynced' <=> "config" \in unsynced
      BY <1>0, <3>1, <3>2 DEF Put, Names
    <3>4. pc'[c] \in {"idle", "unsaved"}
      BY <1>0, <2>3 DEF WriteFails, SaveReturnsError
    <3>. QED  BY <1>2, <2>0, <2>3, <3>3, <3>4
              DEF WriteFails, SaveReturnsError, LoneSave
  <2>4. CASE SyncTmp(c)
    <3>1. fd[c] = "tmp" /\ file["tmp"] = job[c].config
      BY <2>0, <2>4 DEF SyncTmp, LoneSave
    <3>2. pc'[c] = "rename"
      BY <1>0, <2>4 DEF SyncTmp
    <3>. QED  BY <1>2, <2>0, <2>4, <3>1, <3>2 DEF SyncTmp, LoneSave
  <2>5. CASE RenameTmp(c)
    <3>1. file["tmp"] = job[c].config /\ "tmp" \notin unsynced
      BY <2>0, <2>5 DEF RenameTmp, LoneSave
    <3>2. file'["config"] = job[c].config /\ "config" \notin unsynced'
      BY <2>5, <3>1 DEF RenameTmp, Older
    <3>3. pc'[c] = "chmod"
      BY <1>0, <2>5 DEF RenameTmp
    <3>. QED  BY <1>0, <1>2, <2>5, <3>2, <3>3, ConfigIsWhole DEF RenameTmp, LoneSave
  <2>6. CASE RenameFindsNothing(c) \/ CallFails(c)
    <3>1. pc'[c] \in {"idle", "unsaved"}
      BY <1>0, <2>6 DEF RenameFindsNothing, CallFails, SaveReturnsError
    <3>. QED  BY <1>2, <2>0, <2>6, <3>1
              DEF RenameFindsNothing, CallFails, SaveReturnsError, LoneSave
  <2>7. CASE ChmodConfig(c)
    <3>1. pc'[c] = "send"
      BY <1>0, <2>7 DEF ChmodConfig
    <3>. QED  BY <1>2, <2>0, <2>7, <3>1 DEF ChmodConfig, LoneSave
  <2>8. CASE Send(c)
    <3>1. c \notin Busy' /\ Busy' = {} /\ UNCHANGED <<disk, overlap>>
      BY <1>0, <2>0, <2>8 DEF Send, Busy
    <3>2. ASSUME settled' PROVE OnDisk' = config' /\ "config" \notin unsynced'
      <4>1. pc[c] = "send"
        BY <2>8, <3>2 DEF Send
      <4>2. file["config"] = job[c].config /\ "config" \notin unsynced
        BY <2>0, <4>1 DEF LoneSave
      <4>3. Usable(job[c].config)
        BY <1>1 DEF IInv, HandlerInv
      <4>4. OnDisk' = job[c].config
        BY <1>0, <3>1, <4>2, <4>3, UsableLoadsAsIs DEF OnDisk
      <4>. QED  BY <2>8, <3>1, <4>2, <4>4 DEF Send
    <3>. QED  BY <2>0, <3>1, <3>2
  <2>. QED  BY <2>1, <2>2, <2>3, <2>4, <2>5, <2>6, <2>7, <2>8 DEF Handle
<1>. QED  BY <1>4, <1>5, <1>2

(* Between daemons there is no handler, and nothing to say about one. *)
LEMMA IdleSave ==
    ASSUME Busy' = {}, WholeInv',
           settled' => OnDisk' = config' /\ "config" \notin unsynced'
    PROVE  SaveInv'
BY DEF SaveInv, OverlapInv, LoneSaveInv, SettledInv

(* A boot that moves a broken file aside starts with what it would have     *)
(* started with from that file.                                             *)
LEMMA QuarantineKeepsOnDisk ==
    ASSUME TypeOK, BootQuarantines
    PROVE  OnDisk = Default /\ OnDisk' = Default
<1>1. file'["config"] = Absent
  BY DEF BootQuarantines, TypeOK, Names
<1>2. ~Acceptable(Absent)
  BY ConfigIsWhole DEF Acceptable
<1>3. ~Acceptable(file["config"])
  BY DEF BootQuarantines, Unusable
<1>. QED  BY <1>1, <1>2, <1>3 DEF OnDisk, Loaded

LEMMA SaveBoot ==
    ASSUME IInv, BootAsIs \/ BootQuarantines \/ QuarantineFails
    PROVE  SaveInv'
<1>1. Boot /\ ~up
  BY DEF BootAsIs, BootQuarantines, QuarantineFails, BootWithFile, Boot
<1>2. Busy' = {}
  BY <1>1 DEF Boot, IInv, HandlerInv, Busy
<1>3. CASE BootAsIs \/ QuarantineFails
  <2>1. UNCHANGED <<disk, overlap>> /\ settled' = ("config" \notin unsynced)
    BY <1>3 DEF BootAsIs, QuarantineFails, BootWithFile
  <2>2. OnDisk' = OnDisk /\ config' = OnDisk
    BY <1>1, <2>1 DEF Boot, OnDisk, disk
  <2>. QED  BY <1>2, <2>1, <2>2, IdleSave DEF disk, IInv, WholeInv
<1>4. CASE BootQuarantines
  <2>1. /\ file'["config"] = Absent /\ file'["former"] = file[DiskName]
        /\ unsynced' = Older(unsynced) /\ overlap' = Older(overlap)
    BY <1>4 DEF BootQuarantines, IInv, TypeOK, Names
  <2>2. WholeInv'
    BY <2>1, TextsDiffer DEF IInv, WholeInv, Older, DiskName
  <2>3. config' = OnDisk /\ OnDisk' = OnDisk /\ "config" \notin unsynced'
    BY <1>1, <1>4, <2>1, QuarantineKeepsOnDisk DEF Boot, Older, IInv
  <2>. QED  BY <1>2, <2>2, <2>3, IdleSave
<1>. QED  BY <1>3, <1>4

LEMMA SaveWriteBack ==
    ASSUME IInv, WriteBack
    PROVE  SaveInv'
<1>1. /\ file'["config"] = file["config"] /\ file'["tmp"] = file["tmp"]
      /\ file'["former"] = Absent
      /\ unsynced' = unsynced \ {"former"} /\ overlap' = overlap \ {"former"}
      /\ UNCHANGED <<up, config, pc, job, alone, settled>>
  BY DEF WriteBack, IInv, TypeOK, Names
<1>2. Busy' = Busy
  BY <1>1 DEF Busy
<1>3. \A c \in Conns : fd'[c] # "former" /\ (fd[c] = "tmp" => fd'[c] = "tmp")
  BY DEF WriteBack
<1>4. OverlapInv'
  BY <1>1, <1>2, <1>3 DEF IInv, OverlapInv, Busy
<1>5. LoneSaveInv'
  BY <1>1, <1>2, <1>3 DEF IInv, LoneSaveInv, LoneSave, Busy
<1>6. WholeInv'
  BY <1>1, TextsDiffer DEF IInv, WholeInv
<1>7. SettledInv'
  BY <1>1, <1>2 DEF IInv, SettledInv, OnDisk
<1>. QED  BY <1>4, <1>5, <1>6, <1>7 DEF SaveInv

LEMMA SaveStop ==
    ASSUME IInv, Kill \/ PowerLoss
    PROVE  SaveInv'
<1>1. Ends /\ Busy' = {}
  BY DEF Kill, PowerLoss, Ends, Busy
<1>2. CASE Kill
  <2>1. /\ file'["config"] = file["config"] /\ file'["former"] = file["former"]
        /\ unsynced' \subseteq unsynced /\ UNCHANGED <<config, overlap, settled>>
    BY <1>2 DEF Kill, Ends, IInv, TypeOK, Names
  <2>2. WholeInv' /\ OnDisk' = OnDisk
    BY <2>1 DEF IInv, WholeInv, OnDisk
  <2>. QED  BY <1>1, <2>1, <2>2, IdleSave DEF IInv, SettledInv
<1>3. CASE PowerLoss
  <2>1. PICK text \in Survivors :
            file' = [config |-> text, tmp |-> Absent, former |-> Absent]
    BY <1>3 DEF PowerLoss
  <2>2. file'["config"] = text /\ file'["former"] = Absent
    BY <2>1
  <2>3. unsynced' = {} /\ (DiskName \in overlap => "config" \in overlap')
    BY <1>3 DEF PowerLoss
  <2>4. text \in {Empty, Torn} => DiskName \in overlap
    BY DEF Survivors, DiskName, IInv, WholeInv
  <2>5. WholeInv'
    BY <2>2, <2>3, <2>4, TextsDiffer DEF WholeInv
  <2>6. ASSUME settled' PROVE OnDisk' = config'
    <3>1. settled /\ ~stale /\ config' = config
      BY <1>3, <2>6 DEF PowerLoss, Ends
    <3>2. OnDisk = config /\ "config" \notin unsynced
      BY <3>1 DEF IInv, SettledInv
    <3>3. text = file["config"]
      BY <3>1, <3>2 DEF Survivors, DiskName
    <3>. QED  BY <2>2, <3>1, <3>2, <3>3 DEF OnDisk
  <2>. QED  BY <1>1, <2>3, <2>5, <2>6, IdleSave
<1>. QED  BY <1>2, <1>3

LEMMA SaveEdit ==
    ASSUME IInv, NEW text \in Edits, EditFile(text)
    PROVE  SaveInv'
<1>1. Busy' = {}
  BY DEF EditFile, IInv, HandlerInv, Busy
<1>2. text \notin {Empty, Torn}
  BY TextsDiffer DEF Edits
<1>3. file'["config"] = text /\ file'["former"] = Absent
  BY DEF EditFile, IInv, TypeOK, Names
<1>. QED  BY <1>1, <1>2, <1>3, IdleSave, TextsDiffer DEF EditFile, WholeInv

LEMMA SaveStep ==
    ASSUME IInv, [Next]_vars
    PROVE  SaveInv'
<1>1. CASE Next
  BY <1>1, SaveRequest, SaveHandle, SaveBoot, SaveWriteBack, SaveStop, SaveEdit DEF Next
<1>2. CASE UNCHANGED vars
  BY <1>2 DEF vars, disk, history, IInv, SaveInv, OverlapInv, LoneSaveInv, LoneSave,
              WholeInv, SettledInv, OnDisk, Busy
<1>. QED  BY <1>1, <1>2

LEMMA IInvInit == Init => IInv
<1>1. ASSUME Init PROVE Busy = {} /\ \A n \in Names : file[n] = Absent
  BY <1>1 DEF Init, Busy
<1>. QED  BY <1>1, UsableInit, TextsDiffer
          DEF Init, IInv, UsableInv, OverlapInv, LoneSaveInv, WholeInv, SettledInv, Names

LEMMA IInvStep == IInv /\ [Next]_vars => IInv'
BY UsableStep, SaveStep DEF IInv, UsableInv, SaveInv

LEMMA Inductive == Spec => []IInv
BY IInvInit, IInvStep, PTL DEF Spec

(* A file that parses as no configuration, other than by the user's own      *)
(* hand, is proof that two handlers were in store::save at once.             *)
THEOREM OneWriterNeverTears == Spec => []TornOnlyAfterOverlap
<1>1. IInv => TornOnlyAfterOverlap
  BY DEF IInv, WholeInv, TornOnlyAfterOverlap
<1>. QED  BY <1>1, Inductive, PTL

(* What a handler that ran alone has answered is what every restart after a  *)
(* kill finds, and every restart after a power loss once the directory has   *)
(* reached the disk: save syncs the file but not the directory.              *)
THEOREM AnsweredChangesSurvive == Spec => []SettledSurvivesRestart
<1>1. IInv => SettledSurvivesRestart
  BY DEF IInv, SettledInv, SettledSurvivesRestart, Survivors, DiskName, OnDisk
<1>. QED  BY <1>1, Inductive, PTL

-----------------------------------------------------------------------------
(* A broken file is moved aside, never overwritten.                          *)

(* A descriptor never gets text that is not a handler's own. *)
LEMMA PutMends ==
    ASSUME UsableInv, MendedInv, NEW c \in Conns, NEW text, OwnText(text),
           Put(c, text), UNCHANGED up
    PROVE  MendedInv'
<1>1. file \in [Names -> Content \cup {Absent}]
  BY DEF UsableInv, TypeOK
<1>2. /\ file'["tmp"] = file["tmp"] \/ file'["tmp"] = text
      /\ file'["config"] = file["config"] \/ file'["config"] = text
  BY <1>1 DEF Put, Names
<1>. QED  BY <1>2 DEF MendedInv

LEMMA MendedHandle ==
    ASSUME UsableInv, MendedInv, NEW c \in Conns, Handle(c)
    PROVE  MendedInv'
<1> USE DEF history, disk
<1>0. /\ file \in [Names -> Content \cup {Absent}]
      /\ job[c].config \in Config
  BY DEF UsableInv, TypeOK, Job
<1>1. CASE OpenTmp(c)
  <2>1. file'["tmp"] = Empty /\ file'["config"] = file["config"]
    BY <1>0, <1>1 DEF OpenTmp, Names
  <2>. QED  BY <1>1, <2>1 DEF OpenTmp, MendedInv, OwnText
<1>2. CASE WriteTmp(c)
  <2>1. PICK text \in Written(Old(c), job[c].config) : Put(c, text)
    BY <1>2 DEF WriteTmp
  <2>2. text = Torn \/ text = job[c].config
    BY <2>1 DEF Written
  <2>3. Usable(job[c].config)
    BY <1>2 DEF WriteTmp, UsableInv, HandlerInv
  <2>. QED  BY <1>0, <1>2, <2>1, <2>2, <2>3, PutMends DEF WriteTmp, OwnText
<1>3. CASE WriteFails(c)
  <2>1. PICK text \in {Old(c), Torn} : Put(c, text)
    BY <1>3 DEF WriteFails
  <2>2. CASE text = Torn
    BY <1>3, <2>1, <2>2, PutMends DEF WriteFails, SaveReturnsError, OwnText
  <2>3. CASE text = Old(c)
    <3>1. file' = file
      BY <1>0, <2>1, <2>3 DEF Put, Old, Names
    <3>. QED  BY <1>3, <3>1 DEF WriteFails, SaveReturnsError, MendedInv
  <2>. QED  BY <2>1, <2>2, <2>3
<1>4. CASE RenameTmp(c)
  <2>1. /\ file'["config"] = file["tmp"] /\ file'["tmp"] = Absent
        /\ OwnText(file["tmp"])
    BY <1>4 DEF RenameTmp, MendedInv, Names
  <2>. QED  BY <2>1 DEF MendedInv
<1>5. CASE \/ SyncTmp(c) \/ RenameFindsNothing(c) \/ ChmodConfig(c)
           \/ CallFails(c) \/ Send(c)
  BY <1>5 DEF SyncTmp, RenameFindsNothing, ChmodConfig, CallFails, Send,
              SaveReturnsError, MendedInv
<1>. QED  BY <1>1, <1>2, <1>3, <1>4, <1>5 DEF Handle

LEMMA MendedEnvironment ==
    ASSUME UsableInv, MendedInv,
           \/ BootAsIs \/ BootQuarantines \/ QuarantineFails
           \/ WriteBack \/ Kill \/ PowerLoss
           \/ \E text \in Edits : EditFile(text)
    PROVE  MendedInv'
<1>0. file \in [Names -> Content \cup {Absent}]
  BY DEF UsableInv, TypeOK
<1>1. CASE BootAsIs \/ QuarantineFails
  BY <1>1 DEF BootAsIs, QuarantineFails, BootWithFile, Boot, disk, MendedInv
<1>2. CASE BootQuarantines
  <2>1. file'["config"] = Absent /\ file'["tmp"] = file["tmp"]
    BY <1>0, <1>2 DEF BootQuarantines, Names
  <2>. QED  BY <2>1 DEF MendedInv, Unusable
<1>3. CASE Kill \/ PowerLoss
  BY <1>0, <1>3 DEF Kill, PowerLoss, Ends, MendedInv, Names
<1>4. CASE \E text \in Edits : EditFile(text)
  BY <1>0, <1>4 DEF EditFile, MendedInv, Names
<1>5. CASE WriteBack
  BY <1>0, <1>5 DEF WriteBack, MendedInv, Names
<1>. QED  BY <1>1, <1>2, <1>3, <1>4, <1>5

LEMMA MendedStep == UsableInv /\ MendedInv /\ [Next]_vars => MendedInv'
<1>1. ASSUME UsableInv, MendedInv, NEW c \in Conns, Request(c) PROVE MendedInv'
  BY <1>1 DEF Request, SetConfig, SetEnabled, StartSave, MendedInv, disk
<1>2. ASSUME MendedInv, UNCHANGED vars PROVE MendedInv'
  BY <1>2 DEF vars, disk, MendedInv
<1>. QED  BY <1>1, <1>2, MendedHandle, MendedEnvironment DEF Next

LEMMA KeptStep ==
    ASSUME UsableInv, MendedInv, [Next]_vars, "quarantine" \notin IOFails,
           up \/ up', Unusable(file["config"]), file["config"] \notin {Empty, Torn}
    PROVE  file'["config"] = file["config"] \/ aside' = file["config"]
<1>1. ~up
  <2>1. ASSUME OwnText(file["config"]) PROVE FALSE
    BY <2>1 DEF OwnText, Unusable, Acceptable, Usable
  <2>. QED  BY <2>1 DEF MendedInv
<1>2. \A c \in Conns : ~Request(c) /\ ~Handle(c)
  <2>1. \A c \in Conns : pc[c] = "idle"
    BY <1>1 DEF UsableInv, HandlerInv
  <2>. QED  BY <1>1, <2>1, ConstantsAssumption
            DEF Request, SetConfig, SetEnabled, StartSave, Handle, OpenTmp, WriteTmp,
                WriteFails, SyncTmp, RenameTmp, RenameFindsNothing, ChmodConfig,
                CallFails, SysCalls, Send
<1>3. CASE BootAsIs \/ BootQuarantines \/ QuarantineFails
  BY <1>3 DEF BootAsIs, BootQuarantines, QuarantineFails, BootWithFile, disk
<1>4. CASE Kill \/ PowerLoss \/ \E text \in Edits : EditFile(text)
  BY <1>1, <1>4 DEF Kill, PowerLoss, Ends, EditFile
<1>5. CASE WriteBack
  BY <1>5 DEF WriteBack, UsableInv, TypeOK, Names
<1>. QED  BY <1>1, <1>2, <1>3, <1>4, <1>5 DEF Next, vars, disk

(* As long as the rename in quarantine works, no boot and no save ever       *)
(* replaces a broken file that has not been moved aside.                     *)
THEOREM BrokenIsMovedAside ==
    ASSUME "quarantine" \notin IOFails
    PROVE  Spec => BrokenConfigKept
<1>1. Init => UsableInv /\ MendedInv
  BY UsableInit DEF Init, MendedInv, Names
<1>2. UsableInv /\ MendedInv /\ [Next]_vars => UsableInv' /\ MendedInv'
  BY UsableStep, MendedStep
<1>3. UsableInv /\ MendedInv /\ [Next]_vars =>
        [ (up \/ up') /\ Unusable(file["config"]) /\ file["config"] \notin {Empty, Torn}
              => file'["config"] = file["config"] \/ aside' = file["config"] ]_vars
  BY KeptStep
<1>. QED  BY <1>1, <1>2, <1>3, PTL DEF Spec, BrokenConfigKept

-----------------------------------------------------------------------------
(* The steps of ConfigPromise that ConfigStore's are.                        *)

Durable == {Loaded(text) : text \in Survivors}

(* Requests on their way are ConfigPromise's. *)
LEMMA WaitingIsBusy ==
    ASSUME IInv
    PROVE  Promise!Waiting = Busy
<1>1. \A c \in Conns : job[c] # NoJob <=> pc[c] # "idle"
  BY DEF IInv, HandlerInv, NoJob
<1>. QED  BY <1>1 DEF Promise!Waiting, Busy

(* No step ever leaves anything but usable configurations to resume with. *)
LEMMA AlwaysDisturbed == Promise!Disturbed
<1>1. OnDisk' \in {d \in Config : Usable(d)}
  BY LoadedUsable DEF OnDisk
<1>2. Durable' \in SUBSET {d \in Config : Usable(d)}
  BY LoadedUsable DEF Durable
<1>. QED  BY <1>1, <1>2 DEF Promise!Disturbed, Durable

(* What decides on the files a boot may find. *)
FilesKept ==
    /\ stale' = stale
    /\ file'["config"] = file["config"] /\ file'["former"] = file["former"]
    /\ "config" \in unsynced' <=> "config" \in unsynced
    /\ "former" \in unsynced' <=> "former" \in unsynced

LEMMA FilesKeepStore == FilesKept => UNCHANGED Promise!store
<1>1. ASSUME FilesKept PROVE Survivors' = Survivors /\ OnDisk' = OnDisk
  BY <1>1 DEF FilesKept, Survivors, DiskName, OnDisk
<1>2. ASSUME FilesKept PROVE ("config" \in unsynced)' = ("config" \in unsynced)
  BY <1>2 DEF FilesKept
<1>. QED  BY <1>1, <1>2 DEF Promise!store

LEMMA RequestRefines ==
    ASSUME IInv, NEW c \in Conns, Request(c)
    PROVE  Promise!Replace(c) \/ Promise!Switch(c)
<1>1. ASSUME NEW request, NEW wanted, StartSave(c, request, wanted)
      PROVE  up /\ job[c] = NoJob /\ Promise!Ask(c, request, wanted)
  <2>1. FilesKept
    BY <1>1 DEF StartSave, disk, FilesKept
  <2>. QED  BY <1>1, <2>1, FilesKeepStore, WaitingIsBusy
            DEF StartSave, Promise!Ask, IInv, HandlerInv
<1>2. ASSUME NEW received \in Config, SetConfig(c, received)
      PROVE  Promise!Replace(c)
  <2>1. Normalize(received) \in {d \in Config : Usable(d)}
    BY <1>2, NormalizeBody, NormalizeUsable DEF SetConfig
  <2>. QED  BY <1>1, <1>2, <2>1 DEF SetConfig, Promise!Replace
<1>3. ASSUME NEW value \in BOOLEAN, SetEnabled(c, value)
      PROVE  Promise!Switch(c)
  BY <1>1, <1>3 DEF SetEnabled, Promise!Switch
<1>. QED  BY <1>2, <1>3 DEF Request

(* A failed save refuses a configuration; the switch goes on. *)
LEMMA ErrorRefines ==
    ASSUME IInv, NEW c \in Conns, pc[c] # "idle", SaveReturnsError(c),
           alone => FilesKept
    PROVE  Promise!Save(c) \/ Promise!Refuse(c) \/ UNCHANGED Promise!vars
<1>1. job[c] # NoJob
  BY DEF IInv, HandlerInv, NoJob
<1>2. UNCHANGED <<up, config, alone>>
  BY DEF SaveReturnsError, history
<1>3. alone => UNCHANGED Promise!store
  BY FilesKeepStore
<1>4. CASE job[c].request = "set_config"
  <2>1. job' = [job EXCEPT ![c] = NoJob]
    BY <1>4 DEF SaveReturnsError
  <2>. QED  BY <1>1, <1>2, <1>3, <1>4, <2>1, AlwaysDisturbed DEF Promise!Refuse
<1>5. CASE job[c].request # "set_config"
  <2>1. job' = job
    BY <1>5 DEF SaveReturnsError
  <2>2. CASE alone
    BY <1>2, <1>3, <2>1, <2>2 DEF Promise!vars, Promise!store
  <2>3. CASE ~alone
    BY <1>1, <1>2, <2>1, <2>3, AlwaysDisturbed DEF Promise!Save
  <2>. QED  BY <2>2, <2>3
<1>. QED  BY <1>4, <1>5

(* Any other step on the way to the answer. *)
LEMMA QuietRefines ==
    ASSUME IInv, NEW c \in Conns, pc[c] # "idle",
           UNCHANGED <<up, config, job, alone>>, alone => FilesKept
    PROVE  Promise!Save(c) \/ UNCHANGED Promise!vars
<1>1. job[c] # NoJob
  BY DEF IInv, HandlerInv, NoJob
<1>2. CASE alone
  BY <1>2, FilesKeepStore DEF Promise!vars, Promise!store
<1>3. CASE ~alone
  BY <1>1, <1>3, AlwaysDisturbed DEF Promise!Save
<1>. QED  BY <1>2, <1>3

LEMMA HandleRefines ==
    ASSUME IInv, NEW c \in Conns, Handle(c)
    PROVE  \/ Promise!Save(c) \/ Promise!Publish(c) \/ Promise!Refuse(c)
           \/ UNCHANGED Promise!vars
<1> USE DEF Goto, Close, history, disk
<1>0. /\ pc \in [Conns -> Steps] /\ fd \in [Conns -> Files]
      /\ file \in [Names -> Content \cup {Absent}] /\ job[c].config \in Config
  BY DEF IInv, TypeOK, Job
<1>1. pc[c] # "idle"
  BY ConstantsAssumption
     DEF Handle, OpenTmp, WriteTmp, WriteFails, SyncTmp, RenameTmp,
         RenameFindsNothing, ChmodConfig, CallFails, SysCalls, Send
<1>2. alone => LoneSave(c)
  BY <1>1, AloneOrOverlap
<1>3. CASE OpenTmp(c)
  <2>1. FilesKept
    BY <1>0, <1>3 DEF OpenTmp, Names, FilesKept
  <2>. QED  BY <1>1, <1>3, <2>1, QuietRefines DEF OpenTmp
<1>4. CASE WriteTmp(c) \/ WriteFails(c)
  <2>1. PICK text : Put(c, text) /\ UNCHANGED stale
    BY <1>4 DEF WriteTmp, WriteFails
  <2>2. alone => fd[c] = "tmp"
    BY <1>2, <1>4 DEF WriteTmp, WriteFails, LoneSave
  <2>3. alone => FilesKept
    BY <1>0, <2>1, <2>2 DEF Put, Names, FilesKept
  <2>4. CASE WriteTmp(c)
    BY <1>1, <2>3, <2>4, QuietRefines DEF WriteTmp
  <2>5. CASE WriteFails(c)
    BY <1>1, <2>3, <2>5, ErrorRefines DEF WriteFails
  <2>. QED  BY <1>4, <2>4, <2>5
<1>5. CASE SyncTmp(c)
  <2>1. alone => FilesKept
    BY <1>2, <1>5 DEF SyncTmp, LoneSave, FilesKept
  <2>. QED  BY <1>1, <1>5, <2>1, QuietRefines DEF SyncTmp
<1>6. CASE RenameTmp(c)
  <2>1. CASE ~alone
    BY <1>1, <1>6, <2>1, QuietRefines DEF RenameTmp
  <2>2. CASE alone
    <3>1. file["tmp"] = job[c].config /\ "tmp" \notin unsynced
      BY <1>2, <1>6, <2>2 DEF RenameTmp, LoneSave
    <3>2. Usable(job[c].config) /\ job[c] # NoJob
      BY <1>1 DEF IInv, HandlerInv, NoJob
    <3>3. OnDisk' = job[c].config
      BY <1>0, <1>6, <3>1, <3>2, UsableLoadsAsIs DEF RenameTmp, OnDisk
    <3>4. ("config" \in unsynced') = FALSE
      BY <1>6, <3>1 DEF RenameTmp, Older
    <3>5. Survivors' = Survivors
      BY <1>6 DEF RenameTmp, Older, Survivors, DiskName
    <3>. QED  BY <1>6, <2>2, <3>2, <3>3, <3>4, <3>5 DEF RenameTmp, Promise!Save
  <2>. QED  BY <2>1, <2>2
<1>7. CASE ChmodConfig(c)
  <2>1. FilesKept
    BY <1>7 DEF ChmodConfig, FilesKept
  <2>. QED  BY <1>1, <1>7, <2>1, QuietRefines DEF ChmodConfig
<1>8. CASE RenameFindsNothing(c) \/ CallFails(c)
  <2>1. FilesKept /\ SaveReturnsError(c)
    BY <1>8 DEF RenameFindsNothing, CallFails, FilesKept
  <2>. QED  BY <1>1, <2>1, ErrorRefines
<1>9. CASE Send(c)
  <2>1. FilesKept
    BY <1>9 DEF Send, FilesKept
  <2>2. job[c] # NoJob /\ Usable(job[c].config)
    BY <1>1 DEF IInv, HandlerInv, NoJob
  <2>3. ASSUME alone, job[c].request = "set_config" PROVE OnDisk = job[c].config
    <3>1. pc[c] = "send"
      BY <1>9, <2>3 DEF Send, IInv, HandlerInv
    <3>2. file["config"] = job[c].config
      BY <1>2, <2>3, <3>1 DEF LoneSave
    <3>. QED  BY <1>0, <2>2, <3>2, UsableLoadsAsIs DEF OnDisk
  <2>. QED  BY <1>9, <2>1, <2>2, <2>3, FilesKeepStore DEF Send, Promise!Publish
<1>. QED  BY <1>3, <1>4, <1>5, <1>6, <1>7, <1>8, <1>9 DEF Handle

LEMMA BootRefines ==
    ASSUME IInv, BootAsIs \/ BootQuarantines \/ QuarantineFails
    PROVE  Promise!Start
<1>1. Boot
  BY DEF BootAsIs, BootQuarantines, QuarantineFails, BootWithFile
<1>2. CASE BootAsIs \/ QuarantineFails
  <2>1. FilesKept
    BY <1>2 DEF BootAsIs, QuarantineFails, BootWithFile, disk, FilesKept
  <2>. QED  BY <1>1, <2>1, FilesKeepStore DEF Boot, Promise!Start, Promise!store
<1>3. CASE BootQuarantines
  <2>1. ("config" \in unsynced') = FALSE
    BY <1>3 DEF BootQuarantines, Older
  <2>2. Survivors' = Survivors
    <3>1. file'["former"] = file[DiskName]
      BY <1>3 DEF BootQuarantines, IInv, TypeOK, Names
    <3>. QED  BY <1>3, <3>1 DEF BootQuarantines, Older, Survivors, DiskName
  <2>3. OnDisk' = OnDisk
    BY <1>3, QuarantineKeepsOnDisk DEF IInv
  <2>. QED  BY <1>1, <2>1, <2>2, <2>3 DEF Boot, Promise!Start
<1>. QED  BY <1>2, <1>3

LEMMA WriteBackRefines ==
    ASSUME IInv, WriteBack
    PROVE  Promise!WriteBack
<1>1. /\ file'["config"] = file["config"] /\ stale' = FALSE
      /\ "config" \in unsynced' <=> "config" \in unsynced
      /\ UNCHANGED <<up, config, job, alone>>
  BY DEF WriteBack, IInv, TypeOK, Names
<1>2. OnDisk' = OnDisk /\ ("config" \in unsynced)' = ("config" \in unsynced)
  BY <1>1 DEF OnDisk
<1>3. Survivors' = {file["config"]} \cup (IF "config" \in unsynced THEN {Torn} ELSE {})
  BY <1>1 DEF Survivors, DiskName
<1>4. Loaded(Torn) = Default /\ Loaded(file["config"]) = OnDisk
  BY ConfigIsWhole DEF Loaded, Acceptable, OnDisk
<1>5. {Loaded(text) : text \in Survivors'}
          = {OnDisk} \cup (IF "config" \in unsynced THEN {Default} ELSE {})
  BY <1>3, <1>4
<1>. QED  BY <1>1, <1>2, <1>5 DEF Promise!WriteBack

LEMMA StopRefines ==
    ASSUME IInv, Kill \/ PowerLoss
    PROVE  Promise!Stop \/ Promise!PowerLoss
<1>1. CASE Kill
  <2>1. FilesKept
    BY <1>1 DEF Kill, IInv, TypeOK, Names, FilesKept
  <2>. QED  BY <1>1, <2>1, FilesKeepStore DEF Kill, Ends, Promise!Stop
<1>2. CASE PowerLoss
  <2>1. PICK text \in Survivors :
            file' = [config |-> text, tmp |-> Absent, former |-> Absent]
    BY <1>2 DEF PowerLoss
  <2>2. unsynced' = {} /\ stale' = FALSE /\ file'["config"] = text
    BY <1>2, <2>1 DEF PowerLoss
  <2>3. OnDisk' = Loaded(text) /\ Survivors' = {text}
    BY <2>2 DEF OnDisk, Survivors, DiskName
  <2>4. Durable' = {OnDisk'} /\ OnDisk' \in Durable
    BY <2>3 DEF Durable
  <2>. QED  BY <1>2, <2>2, <2>4 DEF PowerLoss, Ends, Promise!PowerLoss, Durable
<1>. QED  BY <1>1, <1>2

LEMMA EditRefines ==
    ASSUME IInv, NEW text \in Edits, EditFile(text)
    PROVE  Promise!Edit
<1>1. /\ file'["config"] = text /\ stale' = FALSE /\ unsynced' = {}
      /\ ~up /\ UNCHANGED <<up, config, job, alone>>
  BY DEF EditFile, IInv, TypeOK, Names
<1>2. OnDisk' = Loaded(text) /\ Survivors' = {text}
  BY <1>1 DEF OnDisk, Survivors, DiskName
<1>3. Durable' = {OnDisk'} /\ OnDisk' \in {d \in Config : Usable(d)}
  BY <1>2, LoadedUsable DEF Durable
<1>. QED  BY <1>1, <1>3 DEF Promise!Edit, Durable

LEMMA StepRefines ==
    ASSUME IInv, [Next]_vars
    PROVE  [Promise!Next]_(Promise!vars)
<1>1. CASE UNCHANGED vars
  <2>1. FilesKept /\ UNCHANGED <<up, config, job, alone>>
    BY <1>1 DEF vars, disk, history, FilesKept
  <2>. QED  BY <2>1, FilesKeepStore DEF Promise!vars, Promise!store
<1>2. CASE \E c \in Conns : Request(c)
  BY <1>2, RequestRefines DEF Promise!Next
<1>3. CASE \E c \in Conns : Handle(c)
  BY <1>3, HandleRefines DEF Promise!Next
<1>4. CASE BootAsIs \/ BootQuarantines \/ QuarantineFails
  BY <1>4, BootRefines DEF Promise!Next
<1>5. CASE WriteBack
  BY <1>5, WriteBackRefines DEF Promise!Next
<1>6. CASE Kill \/ PowerLoss
  BY <1>6, StopRefines DEF Promise!Next
<1>7. CASE \E text \in Edits : EditFile(text)
  BY <1>7, EditRefines DEF Promise!Next
<1>. QED  BY <1>1, <1>2, <1>3, <1>4, <1>5, <1>6, <1>7 DEF Next

LEMMA InitRefines == Init => Promise!Init
<1>1. ASSUME Init PROVE Survivors = {file["config"]} /\ ("config" \in unsynced) = FALSE
  BY <1>1 DEF Init, Survivors, DiskName
<1>2. ASSUME Init PROVE Durable = {OnDisk}
  BY <1>1, <1>2 DEF Durable, OnDisk
<1>3. OnDisk \in {d \in Config : Usable(d)} /\ Default \in {d \in Config : Usable(d)}
  BY LoadedUsable, DefaultUsable DEF OnDisk
<1>. QED  BY <1>1, <1>2, <1>3 DEF Init, Promise!Init, Durable

(* The daemon keeps ConfigPromise's promise on any number of worker threads, *)
(* whichever system calls fail: a change is saved before it is published or  *)
(* refused, a switch changes nothing else, and every boot resumes with what  *)
(* was saved, after a power loss with what had reached the disk              *)
(* (store.rs:75-104, server.rs:201-232).                                     *)
THEOREM SavedBeforePublished == Spec => ChangesAreSavedFirst
<1>1. IInv /\ [Next]_vars => [Promise!Next]_(Promise!vars)
  BY StepRefines
<1>. QED  BY <1>1, InitRefines, Inductive, PTL DEF Spec, ChangesAreSavedFirst, Promise!Spec

=============================================================================
