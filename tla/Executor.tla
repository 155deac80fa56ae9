------------------------------- MODULE Executor -------------------------------
(***************************************************************************)
(* What a spank sets off (actions.rs: Executor): the actions that match it, *)
(* in the order of the configuration, and for a sound the file that is      *)
(* played.  Files come and go in the folders a playlist names; decoding is *)
(* done when a configuration is taken over, never on the trigger path.     *)
(* Jobs are ActionWorker's from where they are sent.                       *)
(*                                                                         *)
(* Files are numbers, in the order of their names.                         *)
(***************************************************************************)
EXTENDS Integers, Sequences, FiniteSets, SequencesExt

CONSTANTS
    Files,      \* audio files
    Folder,     \* an entry that stands for every file on the disk
    Broken,     \* files that do not decode
    Raw,        \* the configurations clients send: sequences of actions
    Spanks,     \* tiers and intensities
    Unset,      \* an entry, id or sound that is not there
    MaxRotation \* bound: the rotation counter

(* An action as it is configured.  fields: all numbers in range, or not;      *)
(* filled: there is something to run; path: the sound of an older layout.    *)
Actions ==
    [id : STRING \cup {Unset}, enabled : BOOLEAN, tiers : SUBSET STRING, min_intensity : Nat,
     kind : {"sound", "exec", "webhook"}, fields : {"in range", "out of range"},
     filled : BOOLEAN, paths : Seq(Files \cup {Folder}), path : Files \cup {Folder, Unset},
     order : {"sequential", "random"}]

ASSUME ExecutorAssumption ==
    /\ Files \subseteq Nat /\ IsFiniteSet(Files) /\ Broken \subseteq Files
    /\ Folder \notin Files /\ Unset \notin Files
    /\ Raw \subseteq Seq(Actions)
    /\ MaxRotation \in Nat

VARIABLES
    config,     \* the loop's actions, normalised and valid
    disk,       \* the files that exist
    cache,      \* the files that are decoded
    rotation,
    last_pick,
    todo,       \* the actions of the dispatch under way that are still to run
    outcome,    \* what the latest run of this dispatch came to
    \* History, which no action reads:
    fresh,      \* nothing has changed on the disk since the last preload
    streak      \* the latest picks, as long as the same action makes them from
                \* the same list

execVars == <<config, disk, cache, rotation, last_pick, todo, outcome, fresh, streak>>

-----------------------------------------------------------------------------
Nothing == <<"no sound", Unset>>

(* config.rs. *)

(* The sound of an older layout moves to the list, unless there is one. *)
Normalize(a) ==
    IF a.kind = "sound"
    THEN [a EXCEPT !.paths = IF a.paths = <<>> /\ a.path # Unset THEN <<a.path>> ELSE @,
                   !.path = Unset]
    ELSE a

(* What a field may not be is told by its name: config.rs checks ranges. *)
ValidAction(a) == a.id # Unset /\ a.fields = "in range"

Valid(actions) ==
    /\ \A i \in DOMAIN actions : ValidAction(actions[i])
    /\ \A i, j \in DOMAIN actions : actions[i].id = actions[j].id => i = j

(* An action that is not filled in yet is valid, and does nothing. *)
Runnable(a) == IF a.kind = "sound" THEN a.paths # <<>> ELSE a.filled

Matches(a, spank) ==
    /\ a.enabled /\ Runnable(a)
    /\ a.tiers = {} \/ spank.tier \in a.tiers
    /\ spank.intensity >= a.min_intensity

-----------------------------------------------------------------------------
(* The files of a set, in the order of their names. *)
Sorted(files) ==
    CHOOSE s \in [1..Cardinality(files) -> files] :
        \A i, j \in DOMAIN s : i < j => s[i] < s[j]

(* A folder is every file in it, sorted; what is not there is nothing. *)
Resolve(entry, there) ==
    IF entry = Folder THEN Sorted(there)
    ELSE IF entry \in there THEN <<entry>> ELSE <<>>

Append1(out, file) == IF file \in ToSet(out) THEN out ELSE Append(out, file)

Playlist(paths, there) ==
    LET found == FlattenSeq([i \in DOMAIN paths |-> Resolve(paths[i], there)])
        out[n \in 0..Len(found)] == IF n = 0 THEN <<>> ELSE Append1(out[n - 1], found[n])
    IN  out[Len(found)]

Wanted(actions, there) ==
    UNION {ToSet(Playlist(actions[i].paths, there)) :
                i \in {j \in DOMAIN actions : actions[j].kind = "sound"}}

(* Mutant: what is cached is kept, and nothing is loaded for a known action. *)
PreloadedLate(actions, there) ==
    IF cache = {} THEN Wanted(actions, there) \ Broken ELSE cache

(* What is wanted and decodes is loaded, and nothing else is kept. *)
Preloaded(actions, there) ==
    (cache \cap Wanted(actions, there)) \cup (Wanted(actions, there) \ Broken)

ExecInit ==
    /\ \E raw \in Raw : Valid(raw) /\ config = [i \in DOMAIN raw |-> Normalize(raw[i])]
    /\ disk \in SUBSET Files
    /\ cache = Wanted(config, disk) \ Broken
    /\ rotation = 0
    /\ last_pick = Unset
    /\ todo = <<>>
    /\ outcome = Nothing
    /\ fresh = TRUE
    /\ streak = <<>>

-----------------------------------------------------------------------------
(* A configuration that validates is taken over between two dispatches. *)
SetConfig ==
    /\ todo = <<>>
    /\ \E raw \in Raw :
        /\ Valid(raw)
        /\ config' = [i \in DOMAIN raw |-> Normalize(raw[i])]
    /\ cache' = Preloaded(config', disk)
    /\ fresh' = TRUE
    /\ streak' = <<>>
    /\ outcome' = Nothing
    /\ UNCHANGED <<disk, rotation, last_pick, todo>>

(* The user, at any time. *)
DiskChanges ==
    /\ disk' \in SUBSET Files \ {disk}
    /\ fresh' = FALSE
    /\ streak' = <<>>
    /\ UNCHANGED <<config, cache, rotation, last_pick, todo, outcome>>

Dispatch(spank) ==
    /\ todo = <<>>
    /\ todo' = SelectSeq(config, LAMBDA a : Matches(a, spank))
    /\ outcome' = Nothing
    /\ UNCHANGED <<config, disk, cache, rotation, last_pick, fresh, streak>>

(* A test runs one action, whatever its filters. *)
Test ==
    /\ todo = <<>>
    /\ \E i \in DOMAIN config : todo' = <<config[i]>>
    /\ outcome' = Nothing
    /\ UNCHANGED <<config, disk, cache, rotation, last_pick, fresh, streak>>

-----------------------------------------------------------------------------
(* run, on the next action. *)
Runs(a) ==
    /\ todo # <<>> /\ a = Head(todo)
    /\ todo' = Tail(todo)
    /\ UNCHANGED <<config, disk, cache, fresh>>

List(a) == Playlist(a.paths, disk)

Sends(file) == outcome' = <<IF file \in cache THEN "sent" ELSE "not loaded", file>>

(* The sound, if it is loaded, becomes a job. *)
Plays(a, file) ==
    /\ Sends(file)
    /\ LET before == IF streak # <<>> /\ streak[1] = a.id THEN streak[2] ELSE <<>>
       IN  streak' = <<a.id, IF Len(before) < Len(List(a)) THEN Append(before, file)
                             ELSE Append(Tail(before), file)>>

RunOther(a) ==
    /\ Runs(a)
    /\ a.kind # "sound"
    /\ outcome' = <<"sent", a.kind>>
    /\ UNCHANGED <<rotation, last_pick, streak>>

(* No sound: the list is empty, or nothing on it exists. *)
RunNothing(a) ==
    /\ Runs(a)
    /\ a.kind = "sound" /\ Len(List(a)) = 0
    /\ outcome' = Nothing
    /\ UNCHANGED <<rotation, last_pick, streak>>

(* One sound is no choice, and not remembered. *)
RunOnly(a) ==
    /\ Runs(a)
    /\ a.kind = "sound" /\ Len(List(a)) = 1
    /\ Sends(List(a)[1])
    /\ streak' = <<>>
    /\ UNCHANGED <<rotation, last_pick>>

RunSequential(a) ==
    /\ Runs(a)
    /\ a.kind = "sound" /\ a.order = "sequential"
    /\ LET list == List(a)
           chosen == list[1 + (rotation % Len(list))]
       IN  /\ Len(list) > 1
           /\ rotation < MaxRotation
           /\ rotation' = rotation + 1
           /\ last_pick' = chosen
           /\ Plays(a, chosen)

(* Mutant: the draw is uniform. *)
PoolOfAll(list) == ToSet(list)

(* Everything but the last pick. *)
Pool(list) ==
    IF ToSet(list) \ {last_pick} = {} THEN ToSet(list) ELSE ToSet(list) \ {last_pick}

RunRandom(a) ==
    /\ Runs(a)
    /\ a.kind = "sound" /\ a.order = "random"
    /\ Len(List(a)) > 1
    /\ \E chosen \in Pool(List(a)) :
        /\ last_pick' = chosen
        /\ Plays(a, chosen)
    /\ UNCHANGED rotation

Run ==
    \E i \in DOMAIN config :
        \/ RunOther(config[i])
        \/ RunNothing(config[i])
        \/ RunOnly(config[i])
        \/ RunSequential(config[i])
        \/ RunRandom(config[i])

ExecNext ==
    \/ SetConfig
    \/ DiskChanges
    \/ \E spank \in Spanks : Dispatch(spank)
    \/ Test
    \/ Run

ExecSpec == ExecInit /\ [][ExecNext]_execVars

-----------------------------------------------------------------------------
(* As long as one action picks from one list, it steps through the list in   *)
(* order and begins again at its end, or never plays a sound twice running   *)
(* (proto config.rs:120, 123; actions.rs:234).                               *)
PicksFollowOrder ==
    streak # <<>> =>
        \A i \in DOMAIN config : config[i].id = streak[1] =>
            LET list == List(config[i])
                picks == streak[2]
            IN  \A k \in 1..(Len(picks) - 1) :
                    IF config[i].order = "random" THEN picks[k] # picks[k + 1]
                    ELSE \E j \in DOMAIN list :
                            /\ picks[k] = list[j]
                            /\ picks[k + 1] = list[1 + (j % Len(list))]

(* A picked sound is decoded already, unless it cannot be or the disk has    *)
(* changed since the configuration was taken over (actions.rs:105).          *)
SoundsAreLoaded == outcome[1] = "not loaded" => ~fresh \/ outcome[2] \in Broken

-----------------------------------------------------------------------------
(* The inductive invariant of the two.                                      *)
ExecTypeOK ==
    /\ config \in Seq(Actions)
    /\ \A i, j \in DOMAIN config : config[i].id = config[j].id => i = j
    /\ disk \subseteq Files /\ cache \subseteq Files
    /\ rotation \in Nat
    /\ streak # <<>> => streak[2] \in Seq(Files)

(* What may be played was decoded. *)
Decoded == fresh => Wanted(config, disk) \subseteq cache \cup Broken

(* The streak ends with the last pick, and a sequential one where the rotation *)
(* stands.                                                                    *)
Continues(a) ==
    LET list == List(a)
        picks == streak[2]
    IN  /\ Len(list) > 1
        /\ picks # <<>> /\ picks[Len(picks)] = last_pick
        /\ last_pick \in ToSet(list)
        /\ a.order = "sequential" =>
                rotation > 0 /\ last_pick = list[1 + ((rotation - 1) % Len(list))]

StreakInv ==
    streak # <<>> => \A i \in DOMAIN config : config[i].id = streak[1] => Continues(config[i])

ExecInv == ExecTypeOK /\ Decoded /\ SoundsAreLoaded /\ StreakInv /\ PicksFollowOrder

=============================================================================
