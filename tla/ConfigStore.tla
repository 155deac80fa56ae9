----------------------------- MODULE ConfigStore -----------------------------
(***************************************************************************)
(* How the daemon keeps its configuration: the watch value every request   *)
(* handler reads and replaces (server.rs), the file it is persisted in     *)
(* (store.rs) and what a restart makes of that file.                       *)
(*                                                                         *)
(* handle_request is synchronous, so it occupies one tokio worker thread   *)
(* from its first line to its last; daemon.rs builds the runtime with two  *)
(* of them.  Up to WorkerThreads handlers are therefore in progress at     *)
(* once, each between two of the system calls store::save makes.  Every    *)
(* save of one process writes the same temporary file, whose name holds    *)
(* only the process id.  A rename moves the open descriptors along with    *)
(* the file.                                                               *)
(*                                                                         *)
(* save syncs the file but not the directory, so a power loss may undo the *)
(* rename.  "former" names the file the directory on disk still calls      *)
(* config.json while that is an older one (stale); the kernel writes the   *)
(* directory back whenever it likes.  "gone" is a file without a name.     *)
(*                                                                         *)
(* A configuration is abstracted to its `enabled` switch and a body that   *)
(* stands for everything else.                                             *)
(***************************************************************************)
EXTENDS Naturals, FiniteSets

CONSTANTS
    Conns,          \* client connections
    WorkerThreads,  \* worker threads of the tokio runtime
    Bodies,         \* a configuration but for its `enabled` field
    InvalidBodies,  \* the bodies DaemonConfig::validate refuses
    Modern,         \* body |-> the same body in the current layout
    BodyLen,        \* body |-> length of its JSON text
    DefaultBody,    \* the body of DaemonConfig::default()
    Absent,         \* the text of a name no file has
    Empty,          \* the text of a file just created or truncated
    Torn,           \* text left by a save that parses as no configuration
    Broken,         \* text a user wrote that parses as no configuration
    Unreadable,     \* text read_to_string fails on: not UTF-8, no permission
    IOFails         \* the system calls that may fail in this environment

Config == [enabled : BOOLEAN, body : Bodies]
Content == Config \cup {Empty, Torn, Broken, Unreadable}
Names == {"config", "tmp", "former"}
SysCalls == {"open", "write", "sync", "rename", "chmod", "quarantine"}

ASSUME ConstantsAssumption ==
    /\ WorkerThreads \in Nat \ {0}
    /\ InvalidBodies \subseteq Bodies
    /\ Modern \in [Bodies -> Bodies]
    /\ \A b \in Bodies : Modern[Modern[b]] = Modern[b]
    /\ BodyLen \in [Bodies -> Nat]
    /\ DefaultBody \in Bodies \ InvalidBodies
    /\ Modern[DefaultBody] = DefaultBody
    /\ IOFails \subseteq SysCalls

ASSUME TextsDiffer ==
    /\ {Absent, Empty, Torn, Broken, Unreadable} \cap Config = {}
    /\ Absent \notin {Empty, Torn, Broken, Unreadable}
    /\ Empty \notin {Torn, Broken, Unreadable}
    /\ Torn \notin {Broken, Unreadable}
    /\ Broken # Unreadable

VARIABLES
    up,       \* a daemon is running
    config,   \* Shared.config, the watch value
    file,     \* name |-> text: config.json, this process's temp_sibling, "former"
    stale,    \* the directory on disk does not have the last rename
    unsynced, \* the names of files with text that is not on the disk yet
    pc,       \* where each connection's handler is; "idle" outside handle_request
    job,      \* the request it is handling and the configuration it is saving
    fd,       \* the file it has open
    \* History, which no action reads:
    aside,    \* the text moved aside at the last boot, until a request comes
    alone,    \* the handler that started last has had no other beside it
    overlap,  \* the names of files that overlapping handlers may have written
    settled   \* nothing happened since a lone save, or the boot, completed

disk == <<file, stale, unsynced>>
history == <<aside, alone, overlap, settled>>
vars == <<up, config, disk, pc, job, fd, history>>

Steps == {"idle", "open", "write", "sync", "rename", "chmod", "unsaved", "send"}
Files == Names \cup {"closed", "gone"}
Job == [request : {"none", "set_config", "set_enabled"}, config : Config]

Busy == {c \in Conns : pc[c] # "idle"}

-----------------------------------------------------------------------------
(* The pure parts: config.rs and store::load.                              *)

Default == [enabled |-> TRUE, body |-> DefaultBody]
NoJob == [request |-> "none", config |-> Default]
Normalize(c) == [c EXCEPT !.body = Modern[c.body]]
Valid(c) == c.body \notin InvalidBodies
Acceptable(text) == text \in Config /\ Valid(Normalize(text))

(* What validates and already has the current layout. *)
Usable(c) == Valid(c) /\ Normalize(c) = c

(* What load returns for a text. *)
Loaded(text) == IF Acceptable(text) THEN Normalize(text) ELSE Default

(* The configuration a boot would start from. *)
OnDisk == Loaded(file["config"])

(* The name here of the file the directory on disk calls config.json. *)
DiskName == IF stale THEN "former" ELSE "config"

(* The texts of config.json after a power loss. *)
Survivors == {file[DiskName]} \cup {Torn : n \in unsynced \cap {DiskName}}

(* load could read the file and can use nothing of it. *)
Unusable(text) == text \notin {Absent, Unreadable} /\ ~Acceptable(text)

(* The length of the JSON text, in which `false` is one longer than `true`. *)
TextLen(c) == BodyLen[c.body] + (IF c.enabled THEN 4 ELSE 5)

(* The texts a write_all of c from offset 0 may leave in a file that holds   *)
(* old: a longer old text keeps its tail.                                    *)
Written(old, c) ==
    IF old = Empty THEN {c}
    ELSE IF old \in Config
         THEN {IF TextLen(old) > TextLen(c) THEN Torn ELSE c}
         ELSE {c, Torn}

-----------------------------------------------------------------------------
TypeOK ==
    /\ up \in BOOLEAN
    /\ config \in Config
    /\ file \in [Names -> Content \cup {Absent}]
    /\ stale \in BOOLEAN
    /\ unsynced \subseteq Names
    /\ aside \in Content \cup {Absent}
    /\ pc \in [Conns -> Steps]
    /\ job \in [Conns -> Job]
    /\ fd \in [Conns -> Files]
    /\ alone \in BOOLEAN
    /\ overlap \subseteq Names
    /\ settled \in BOOLEAN

Init ==
    /\ up = FALSE
    /\ config = Default
    /\ file = [n \in Names |-> Absent]
    /\ stale = FALSE
    /\ unsynced = {}
    /\ aside = Absent
    /\ pc = [c \in Conns |-> "idle"]
    /\ job = [c \in Conns |-> NoJob]
    /\ fd = [c \in Conns |-> "closed"]
    /\ alone = FALSE
    /\ overlap = {}
    /\ settled = FALSE

-----------------------------------------------------------------------------
(* The request handlers.                                                   *)

Goto(c, step) == pc' = [pc EXCEPT ![c] = step]
Close(c) == fd' = [fd EXCEPT ![c] = "closed"]

(* A worker thread picks up c's request and reaches the save. *)
StartSave(c, request, wanted) ==
    /\ up
    /\ pc[c] = "idle"
    /\ Cardinality(Busy) < WorkerThreads
    /\ Goto(c, "open")
    /\ job' = [job EXCEPT ![c] = [request |-> request, config |-> wanted]]
    /\ alone' = (Busy = {})
    /\ overlap' = IF Busy = {} THEN overlap ELSE overlap \cup {"config"}
    /\ aside' = Absent
    /\ settled' = FALSE
    /\ UNCHANGED <<up, config, disk, fd>>

(* Mutant: a configuration from the socket is trusted. *)
SetConfigUnchecked(c, received) ==
    StartSave(c, "set_config", Normalize(received))

(* SetConfig, past normalize and validate; a refused configuration is        *)
(* answered with an error before anything is touched.                        *)
SetConfig(c, received) ==
    /\ Valid(Normalize(received))
    /\ StartSave(c, "set_config", Normalize(received))

(* SetEnabled edits the copy of the watch value it has just read. *)
SetEnabled(c, value) ==
    StartSave(c, "set_enabled", [config EXCEPT !.enabled = value])

(* Mutant: a failed save is only logged, for SetConfig too. *)
SaveErrorIgnored(c) ==
    /\ Close(c)
    /\ Goto(c, "send")
    /\ UNCHANGED <<up, config, job, history>>

(* save returned an error: SetConfig answers with it and is done, SetEnabled *)
(* logs it and goes on.                                                      *)
SaveReturnsError(c) ==
    /\ Close(c)
    /\ IF job[c].request = "set_config"
       THEN Goto(c, "idle") /\ job' = [job EXCEPT ![c] = NoJob]
       ELSE Goto(c, "unsaved") /\ UNCHANGED job
    /\ UNCHANGED <<up, config, history>>

(* OpenOptions::create(true).truncate(true): an existing temporary file is   *)
(* emptied in place, whoever else has it open.                               *)
OpenTmp(c) ==
    /\ pc[c] = "open"
    /\ file' = [file EXCEPT !["tmp"] = Empty]
    /\ unsynced' = unsynced \cup {"tmp"}
    /\ fd' = [fd EXCEPT ![c] = "tmp"]
    /\ Goto(c, "write")
    /\ UNCHANGED <<up, config, stale, job, history>>

(* c's descriptor now holds text. *)
Put(c, text) ==
    IF fd[c] \in Names
    THEN /\ file' = [file EXCEPT ![fd[c]] = text]
         /\ unsynced' = unsynced \cup {fd[c]}
    ELSE UNCHANGED <<file, unsynced>>

Old(c) == IF fd[c] \in Names THEN file[fd[c]] ELSE Empty

WriteTmp(c) ==
    /\ pc[c] = "write"
    /\ \E text \in Written(Old(c), job[c].config) : Put(c, text)
    /\ Goto(c, "sync")
    /\ UNCHANGED <<up, config, stale, job, fd, history>>

(* A full disk: some prefix was written, or nothing. *)
WriteFails(c) ==
    /\ pc[c] = "write"
    /\ "write" \in IOFails
    /\ \E text \in {Old(c), Torn} : Put(c, text)
    /\ SaveReturnsError(c)
    /\ UNCHANGED stale

(* Mutant: the file is closed without sync_all. *)
SyncSkipped(c) ==
    /\ pc[c] = "sync"
    /\ Close(c)
    /\ Goto(c, "rename")
    /\ UNCHANGED <<up, config, disk, job, history>>

(* sync_all, and the end of the block that owns the file. *)
SyncTmp(c) ==
    /\ pc[c] = "sync"
    /\ unsynced' = unsynced \ {fd[c]}
    /\ Close(c)
    /\ Goto(c, "rename")
    /\ UNCHANGED <<up, config, file, stale, job, history>>

(* The descriptors move with the files they are open on. *)
Moved(f) ==
    CASE f = "tmp" -> "config"
      [] f = "config" -> (IF stale THEN "gone" ELSE "former")
      [] OTHER -> f

(* What holds of the file that is "former" after a rename. *)
Older(names) == {"former" : n \in names \cap {DiskName}}

RenameTmp(c) ==
    /\ pc[c] = "rename"
    /\ file["tmp"] # Absent
    /\ file' = [config |-> file["tmp"], tmp |-> Absent, former |-> file[DiskName]]
    /\ stale' = TRUE
    /\ unsynced' = {"config" : n \in unsynced \cap {"tmp"}} \cup Older(unsynced)
    /\ fd' = [d \in Conns |-> Moved(fd[d])]
    /\ Goto(c, "chmod")
    /\ overlap' = {n \in overlap : n = "config" /\ ~alone} \cup Older(overlap)
    /\ UNCHANGED <<up, config, aside, job, alone, settled>>

(* Another handler of this process has renamed the shared temporary file. *)
RenameFindsNothing(c) ==
    /\ pc[c] = "rename"
    /\ file["tmp"] = Absent
    /\ SaveReturnsError(c)
    /\ UNCHANGED disk

(* Mutant: the handler forgets to publish what it saved. *)
ChmodEndsRequest(c) ==
    /\ pc[c] = "chmod"
    /\ Goto(c, "idle")
    /\ job' = [job EXCEPT ![c] = NoJob]
    /\ UNCHANGED <<up, config, disk, fd, history>>

ChmodConfig(c) ==
    /\ pc[c] = "chmod"
    /\ Goto(c, "send")
    /\ UNCHANGED <<up, config, disk, job, fd, history>>

(* One of the calls that change nothing when they fail. *)
CallFails(c) ==
    /\ pc[c] \in IOFails \ {"write"}
    /\ SaveReturnsError(c)
    /\ UNCHANGED disk

(* watch::Sender::send, then the Config reply. *)
Send(c) ==
    /\ pc[c] \in {"send", "unsaved"}
    /\ config' = job[c].config
    /\ Goto(c, "idle")
    /\ job' = [job EXCEPT ![c] = NoJob]
    /\ settled' = (pc[c] = "send" /\ alone)
    /\ UNCHANGED <<up, disk, aside, fd, alone, overlap>>

-----------------------------------------------------------------------------
(* The process and its environment.                                        *)

(* run: load the file, set aside what cannot be used, start serving. *)
Boot ==
    /\ ~up
    /\ up' = TRUE
    /\ config' = OnDisk
    /\ UNCHANGED <<pc, job, fd, alone>>

BootWithFile ==
    /\ Boot
    /\ settled' = ("config" \notin unsynced)
    /\ UNCHANGED <<disk, aside, overlap>>

BootAsIs ==
    /\ BootWithFile
    /\ ~Unusable(file["config"])

(* Mutant: load warns and leaves the file where the next save replaces it. *)
BootOnlyWarns ==
    /\ BootWithFile
    /\ Unusable(file["config"])

(* quarantine renames the file, and does not sync the directory either. *)
BootQuarantines ==
    /\ Boot
    /\ Unusable(file["config"])
    /\ aside' = file["config"]
    /\ file' = [file EXCEPT !["config"] = Absent, !["former"] = file[DiskName]]
    /\ stale' = TRUE
    /\ unsynced' = Older(unsynced)
    /\ overlap' = Older(overlap)
    /\ settled' = TRUE

QuarantineFails ==
    /\ BootWithFile
    /\ Unusable(file["config"])
    /\ "quarantine" \in IOFails

(* The kernel writes the directory back. *)
WriteBack ==
    /\ stale
    /\ stale' = FALSE
    /\ file' = [file EXCEPT !["former"] = Absent]
    /\ unsynced' = unsynced \ {"former"}
    /\ overlap' = overlap \ {"former"}
    /\ fd' = [d \in Conns |-> IF fd[d] = "former" THEN "gone" ELSE fd[d]]
    /\ UNCHANGED <<up, config, aside, pc, job, alone, settled>>

(* The process ends wherever its handlers are.  The next one has another     *)
(* process id, so the temporary file left behind is never opened again.      *)
Ends ==
    /\ up' = FALSE
    /\ pc' = [c \in Conns |-> "idle"]
    /\ job' = [c \in Conns |-> NoJob]
    /\ fd' = [c \in Conns |-> "closed"]
    /\ aside' = Absent
    /\ UNCHANGED <<config, alone>>

(* Killed, or stopped by a signal: the kernel keeps what was done. *)
Kill ==
    /\ up
    /\ Ends
    /\ file' = [file EXCEPT !["tmp"] = Absent]
    /\ unsynced' = unsynced \ {"tmp"}
    /\ UNCHANGED <<stale, overlap, settled>>

(* Power loss: text that was not synced may be lost in part, and a rename    *)
(* that the directory on disk does not have is undone, a quarantine too.     *)
PowerLoss ==
    /\ up \/ stale \/ unsynced # {}
    /\ Ends
    /\ \E text \in Survivors :
          file' = [config |-> text, tmp |-> Absent, former |-> Absent]
    /\ stale' = FALSE
    /\ unsynced' = {}
    /\ overlap' = {"config" : n \in overlap \cap {DiskName}}
    /\ settled' = (settled /\ ~stale)

(* While no daemon runs the user may replace the file with anything, and it  *)
(* reaches the disk.                                                         *)
Edits == Config \cup {Broken, Unreadable}
EditFile(text) ==
    /\ ~up
    /\ file' = [file EXCEPT !["config"] = text, !["former"] = Absent]
    /\ stale' = FALSE
    /\ unsynced' = {}
    /\ settled' = FALSE
    /\ overlap' = {}
    /\ UNCHANGED <<up, config, aside, pc, job, fd, alone>>

-----------------------------------------------------------------------------
Request(c) ==
    \/ \E received \in Config : SetConfig(c, received)
    \/ \E value \in BOOLEAN : SetEnabled(c, value)

Handle(c) ==
    \/ OpenTmp(c)
    \/ WriteTmp(c)
    \/ WriteFails(c)
    \/ SyncTmp(c)
    \/ RenameTmp(c)
    \/ RenameFindsNothing(c)
    \/ ChmodConfig(c)
    \/ CallFails(c)
    \/ Send(c)

Next ==
    \/ \E c \in Conns : Request(c)
    \/ \E c \in Conns : Handle(c)
    \/ BootAsIs
    \/ BootQuarantines
    \/ QuarantineFails
    \/ WriteBack
    \/ Kill
    \/ PowerLoss
    \/ \E text \in Edits : EditFile(text)

Spec == Init /\ [][Next]_vars

-----------------------------------------------------------------------------
(* Properties of every runtime, however many worker threads it has.        *)

(* The running configuration always validates and has the current layout,   *)
(* whatever the file held at boot and whatever clients send (config.rs:67,   *)
(* "so the rest of the code only ever deals with the current shape").        *)
LiveIsUsable == up => Usable(config)

(* A kill or a power loss at any point leaves no truncated or half-written   *)
(* configuration, as long as no two handlers were saving at once             *)
(* (store.rs:75-77).                                                         *)
TornOnlyAfterOverlap == file["config"] \in {Empty, Torn} => "config" \in overlap

(* Once a change that ran alone is answered, a restart resumes with exactly  *)
(* the running configuration (server.rs:209): after a kill at any time, and  *)
(* after a power loss once the directory has reached the disk.               *)
SettledSurvivesRestart ==
    settled => /\ OnDisk = config
               /\ stale \/ \A text \in Survivors : Loaded(text) = config

(* A file the user broke is never replaced by the daemon without having been *)
(* moved aside (store.rs:16-19).                                             *)
BrokenConfigKept ==
    [][ (up \/ up') /\ Unusable(file["config"]) /\ file["config"] \notin {Empty, Torn}
            => file'["config"] = file["config"] \/ aside' = file["config"] ]_vars

-----------------------------------------------------------------------------
(* The inductive invariant behind these properties.                        *)

(* A handler runs only in a live daemon, holds a usable configuration and    *)
(* has its file open exactly between open and sync.  Only SetEnabled goes on *)
(* without having saved.                                                     *)
HandlerInv ==
    \A c \in Conns :
        /\ pc[c] = "idle" <=> job[c].request = "none"
        /\ pc[c] = "idle" => job[c] = NoJob
        /\ pc[c] # "idle" => up /\ Usable(job[c].config)
        /\ pc[c] = "unsaved" => job[c].request = "set_enabled"
        /\ pc[c] \in {"write", "sync"} <=> fd[c] # "closed"

(* A handler that is still alone has no company, and company is remembered,  *)
(* with the files that went by the name config.json in the meantime.         *)
OverlapInv ==
    \A c \in Busy :
        /\ IF alone THEN Busy = {c} ELSE "config" \in overlap
        /\ fd[c] = "former" => "former" \in overlap

(* How far c's save has come when no other ran beside it. *)
LoneSave(c) ==
    /\ pc[c] \in {"write", "sync"} => fd[c] = "tmp"
    /\ pc[c] = "write" => file["tmp"] = Empty
    /\ pc[c] \in {"sync", "rename"} => file["tmp"] = job[c].config
    /\ pc[c] = "rename" => "tmp" \notin unsynced
    /\ pc[c] \in {"chmod", "send"} =>
           file["config"] = job[c].config /\ "config" \notin unsynced

LoneSaveInv == alone => \A c \in Busy : LoneSave(c)

(* Only overlapping saves leave a part of a text under a name a boot may     *)
(* find, or text that is not synced.                                         *)
WholeInv ==
    \A n \in {"config", "former"} :
        file[n] \in {Empty, Torn} \/ n \in unsynced => n \in overlap

SettledInv == settled => Busy = {} /\ OnDisk = config /\ "config" \notin unsynced

(* What the daemon itself writes: a whole usable configuration, or part of one. *)
OwnText(text) == text \in {Empty, Torn} \/ (text \in Config /\ Usable(text))

(* With a quarantine that works, a live daemon never has a broken file beside *)
(* it that anyone but a handler wrote.                                        *)
MendedInv ==
    /\ file["tmp"] = Absent \/ OwnText(file["tmp"])
    /\ "quarantine" \notin IOFails /\ up =>
           ~Unusable(file["config"]) \/ OwnText(file["config"])

IInv ==
    /\ TypeOK
    /\ LiveIsUsable
    /\ HandlerInv
    /\ OverlapInv
    /\ LoneSaveInv
    /\ WholeInv
    /\ SettledInv

-----------------------------------------------------------------------------
Promise == INSTANCE ConfigPromise WITH
              Configs <- {c \in Config : Usable(c)},
              Default <- Default,
              NoRequest <- NoJob,
              saved <- OnDisk,
              durable <- {Loaded(text) : text \in Survivors},
              partly <- "config" \in unsynced,
              asked <- job

(* ConfigStore implements ConfigPromise, however many handlers run at once   *)
(* and whichever system calls fail: a lone change is in the file before it   *)
(* is published, one that fails to be saved is refused or, for the switch,   *)
(* published alone, and beside each other requests lose no answer            *)
(* (server.rs:201-232, store.rs:75-104).                                     *)
ChangesAreSavedFirst == Promise!Spec

=============================================================================
