# Yamete: specifications, checks and proofs

Yamete detects slaps on a laptop from its accelerometer and plays a sound, runs
a command or calls a webhook. This directory holds TLA+ models of the program,
the TLC configurations that check them on small instances, and TLAPS proofs of
what matters most for every instance. Paths below are relative to the
repository root, which PROJECT.json calls `src/`.

## 1. The system

| Component | Where | State | Operations |
|---|---|---|---|
| Configuration store | `crates/yamete/src/store.rs`, `crates/yamete-proto/src/config.rs` | `config.json`, its temporary sibling, a quarantined copy | `load`, `quarantine`, `save`, `normalize`, `validate` |
| Control socket | `crates/yamete/src/server.rs`, `crates/yamete-proto/src/lib.rs` | one task per connection with its `Subscription`; the watch value of the configuration; the subscriber count; the broadcast channel; the queue of tests | `SetConfig`, `SetEnabled`, `Subscribe`, `TestAction`, `Get*`, `Ping`, disconnect |
| Detector loop | `crates/yamete/src/daemon.rs` | its own copy of the configuration, sensor, pump, detector, executor, telemetry buffers | one iteration every 2 ms: reload, tests, drain, telemetry, status; shutdown |
| Detector | `crates/yamete-dsp` | filters, warmup counter, time of the last detection | `push_accel`, `push_gyro`, `set_config` |
| Sensor and pump | `crates/yamete-sensor`, `crates/yamete/src/pump.rs` | two bounded rings, drop counters, two pending samples, time origin | device callback, `drain` |
| Actions | `crates/yamete/src/actions.rs` | job channel, pending jobs, audio device, rotation and last pick | `dispatch`, `run`, `pick_sound`, the worker |
| Socket ownership and lifecycle | `server.rs` `bind`, `daemon.rs` `run`, `app/src-tauri/src/{supervisor,single_instance,lib}.rs` | the socket path, the child process, its stdin pipe | bind, `ensure_running`, `shutdown`, signals, crash |
| LaunchAgent | `crates/yamete/src/launchd.rs` | launchd's, the plist, the binary | install, uninstall, restart |
| App, native side | `app/src-tauri/src/{daemon,tray}.rs` | subscription thread, `want_telemetry`, `scope_visible` | reconnect, resubscribe, requests |
| App, web view | `app/src/main.ts` | the form's configuration, the debounce timer | edit, push, toggle, refresh |
| Offline tools | `calibrate.rs`, `replay.rs`, `crates/yamete-dsp/src/fixture.rs`, ... | recorded traces | record, write, read, replay |
| Command line | `client.rs`, `main.rs` | none | one request, one reply |

How they interact. Clients speak JSON lines over a Unix socket. tokio runs the
connection tasks on two worker threads; `handle_request` is synchronous and
occupies one of them. The detector loop has a thread of its own and never
waits: it polls the watch value of the configuration, the queue of tests, the
subscriber count and the sensor rings, and sends events into a bounded
broadcast channel. The rings are filled by the kernel's callback. The loop hands
jobs to a worker thread over a channel. The app is a client with two kinds of
connection, one per request and one for the subscription, and it may own the
daemon as a child process tied to it by a pipe.

What is hard. Two handlers share one temporary file, and change the file and the
watch value in two steps. The loop works with copies of the configuration and of
the subscriber count. Clients stall, vanish and change their mind. A crash or a
power loss falls between any two system calls. Two daemons may start at once.
Every such place is listed in PROJECT.json under `hazards`, at its line, with the
properties that cover it or the reason why none does.

What makes each component correct:

* store: a crash leaves a whole configuration; an answered change survives a
  restart; a file broken by hand is kept; the running configuration validates. (Of
  requests that overlap, and of a power loss, less is true: section 4.)
* control socket: the subscriber count is exact; nobody watching means nothing is
  built; a client that keeps up gets its events; a slow one costs a bounded amount.
* detector loop: the configuration in force is the latest after an iteration; an
  accepted test runs under a configuration that has the action; nothing fires
  while disabled or warming up; shutdown is always obeyed.
* ownership: at most one daemon serves and reads the sensor; the socket path
  leads to it; a child does not outlive its parent; the agent takes over when the
  app is gone, and its files are touched only while it is down (unless launchctl fails).
* sensor and pump: every report is emitted or counted; frames leave nearly in the
  order of their time stamps.
* detector: a slap is reported once, from the latest samples and recent rotation.
* offline tools: a trace reads back as it was recorded, to the digits of the file, and
  replays as it was live.
* actions: jobs run once, not before their time and in order; the device is
  released only when idle; a playlist is stepped through in order;
  what is played is decoded in advance.
* app: telemetry is subscribed to exactly while the scope is on screen, and
  no frame is torn. (That the form never loses an edit is not so: section 4.)

## 2. Modules and runs

| Module | Models | Checked by |
|---|---|---|
| `ConfigPromise` | what the daemon promises about its configuration | `config_promise` |
| `ConfigStore` | the store and the handlers that change it, one action per system call | `config_promise`, `config_threads` |
| `EventStream` | connections, subscriptions, the broadcast channel and the telemetry part of the loop | `events_safety`, `events_live` |
| `DetectorLoop` | the daemon's own thread against the handlers that change its configuration and queue tests | `loop_turns`, `loop_live` |
| `SensorPump` | the report callbacks, their rings and the pump that merges them | `pump` |
| `Detector` | which samples the detector reports | `replay` |
| `Recording` | the same samples recorded, written, read and replayed; extends `Detector` | `replay` |
| `Executor` | which actions a spank runs and which sound is picked, on a disk that changes | `sounds` |
| `ActionWorker` | the thread that carries out actions, and the audio device | `actions_jobs` |
| `SocketClaim` | `bind`, the end of `run`, and crashes: who owns a socket's path | `lifecycle`, which extends it |
| `Lifecycle` | the app with its child and its own socket, launchd with the agent, and the commands, over `SocketClaim` | `lifecycle` |
| `ScopeSubscription` | how the app follows the daemon: the subscription, the wish for telemetry and its two writers | `scope_follow` |
| `ConfigStoreProofs`, `SocketClaimProofs`, `LifecycleProofs`, `SensorPumpProofs` | theorems about the module they are named after (and `ConfigPromise` in the first) | tlapm |
| `SubscriptionProofs` | theorems about `EventStream` and `ScopeSubscription`, the two ends of a subscription | tlapm |
| `DetectorProofs` | theorems about `DetectorLoop`, `Detector` and `Recording`, from the sample to the file | tlapm |
| `ActionProofs` | theorems about `Executor` and `ActionWorker`, from the spank to the sound | tlapm |
| `DataLemmas` | induction, recursive functions, maxima and residues, for those proofs | tlapm |
| `MC*` | symmetry sets and definitions that TLC needs | |

The views of the daemon overlap at seams that are named here rather than
composed, because their product is beyond a run: a handler's `Send` in
`ConfigStore` is `Publish` in `DetectorLoop`; the loop's iteration in
`EventStream` is one turn of `DetectorLoop`, seen from the subscribers; a
`Spank` or `RunTest` of `DetectorLoop` is a `Send` of `ActionWorker`; the daemon
of `ScopeSubscription` is one connection of `EventStream`, seen from the client; a
frame that `SensorPump` emits is one that `DetectorLoop` samples and `Detector` is
fed; what `Executor` sends is `ActionWorker`'s `Send`; and `run` in `SocketClaim` is
where the other models begin. Properties never cross a seam: each is about state that
one module holds in full. Where a composition fits into a run it is one: `Lifecycle` is
two claims, the app and launchd together, and `Recording` feeds on `Detector`'s trace.

### ConfigStore

State: `config` is `Shared.config`; `file` is the text of `config.json` and of
the temporary sibling; `unsynced` names the files whose text is still in the page
cache; `aside` is what `quarantine` moved; `pc`, `job` and `fd` are each
handler's place in `handle_request` and `save`. `up` is the process. `save` syncs the
temporary file but not the directory: `stale` says that the directory on the disk does
not have the last rename yet, and `"former"` is the file that it still calls
`config.json`.

A configuration is its `enabled` flag and a body. The bodies are of three kinds: a valid
one, one `validate` refuses, one in the older layout that `normalize` rewrites. The
texts of the two configurations that remain differ in length by their flag, so that a
write over an older text may leave a tail.

Actions: `SetConfig`, `SetEnabled` take a worker thread (at most `WorkerThreads`
at once). Then come `OpenTmp`, `WriteTmp`, `SyncTmp`, `RenameTmp`, `ChmodConfig`,
`Send`, each one system call or `watch::Sender::send`. `CallFails` and
`WriteFails` are the error paths, which `SetConfig` answers and `SetEnabled` only
logs. `BootAsIs`, `BootQuarantines`, `QuarantineFails` are `load`. `WriteBack`, `Kill`,
`PowerLoss` and `EditFile` are the environment: the kernel writes the directory back
whenever it likes, and a power loss before that brings the former file back.

A descriptor is identified by the name its file has now. A rename therefore moves
the descriptors too, and a second handler may write into `config.json` itself, or into
the file that the directory on the disk still calls so.

Three history variables let the properties say what still holds when handlers
overlap: `alone` (no other handler ran beside this request), `overlap` (the files that
two may have written) and `settled` (nothing happened since a lone save, or the boot,
completed).

Assumed of the environment: a rename happens at once for those who look, and on the disk
whenever the directory is written; text that was not synced may be lost in part at a power
loss; the user edits the file only while no daemon runs, and the edit reaches the disk. A
second quarantine in the same second reuses the first one's name and is not modelled, nor
is the file moved aside followed any further: a power loss may undo that rename too, after
which the next boot moves the same file again.

Both runs have two connections, three bodies and the two worker threads that `daemon.rs`
builds:

* `config_promise`: every system call of the save and of the quarantine may fail.
  `ConfigStore` implements `ConfigPromise`: a lone change is saved before it is published;
  one that could not be saved is refused, or for the switch published alone; a restart
  resumes with what was saved and a power loss with what has reached the disk. Of requests
  that run beside each other `ConfigPromise` promises only that each is published or
  refused, as it was asked for, and that what is published and resumed with is usable: more
  is not true of two threads. Nor does it say what a refused lone change leaves in the file
  before it is refused: after a failing chmod it is the new configuration (section 4).
* `config_threads`: the quarantine works, every call of the save may fail.
  `TornOnlyAfterOverlap`, `SettledSurvivesRestart`, `LiveIsUsable` and `BrokenConfigKept`
  hold. Two connections are enough, as a property is broken by one handler and one other.

With two threads the comment of `store.rs:75` is wrong: the first handler may rename
the file that the second has just emptied. That of `server.rs:209` is wrong too: two
handlers that save in one order and send in the other leave the daemon with a
configuration that a restart does not resume, and a handler of `SetEnabled` publishes
the copy it read before another's `SetConfig` was answered. It is why
`TornOnlyAfterOverlap` and `SettledSurvivesRestart` speak of handlers that ran alone.
`SettledSurvivesRestart` promises that a settled change survives a kill, and a power loss
only from the directory's write-back on, as nothing in `save` waits for that.

### EventStream

State: per connection the client's end (`client`), the handler (`open`), its
`topics`, the events it has not received (`queue`), whether it was overtaken
(`lagged`) and what it is writing (`out`); the shared `count`; the loop's place,
its `want` and the sizes of its buffers (`trace`). A handler that is writing is
out of its `select!`, so it neither reads nor receives.

`Broadcast` and `Crowded` state what tokio's channel does: at most `Capacity`
events wait per receiver and the oldest gives way, which the receiver learns at
its next `recv`. `Subscribe` is `Subscription::set` with its edges; `Drop` is every
way out of `handle` (`EndOfStream`, `ReadFails`, `WriteFails`). The detector's
iteration is `Load`, `Drain*`, `Emit*`, because other threads may act between
reading the count and sending.

Events are abstracted to their topic. `EVENT_CAPACITY` is 2 and
`MAX_TELEMETRY_SAMPLES` is 1 in the runs: a full queue and a full buffer are then
common, and no property depends on a larger value.

* `events_safety`: two clients that do anything in any order. `CountIsExact`,
  `FramesAreWatched`. (`EnvelopeIsLive` is proved.)
* `events_live`: one client, with fairness. `UnobservedGoesQuiet`,
  `WatcherSeesFrames`, `SpankArrives`. Handlers share only the count and the
  channel, which never blocks a sender, so another client cannot delay this one;
  two clients multiply the temporal graph beyond the time a run has.

Fairness: the loop sleeps 2 ms and waits for nothing (weak fairness of
`Detector`), and a frame is due every 16 ms (strong fairness of `EmitFrame`). tokio
polls a ready task, and `select!` picks at random among its ready branches, so a
branch that keeps becoming ready is taken (strong fairness of `EndOfStream`,
`Lagged` and `Receive`). A write completes when the client reads or is gone (weak).
Nothing is assumed of clients: they may stall for ever.

### SocketClaim

State: `path` is the file at the socket's path, by the process that bound it,
`"stale"` when that process is gone; `state` is each daemon's place in `bind` and
`run`. The steps are the system calls of `bind`: `Check` (exists), `ProbeAnswered`
and `ProbeRefused` (connect), `RemoveStale`, `RemoveNothing`, `Bind`, `BindInUse`,
`Listen`, `Chmod`, `ChmodNothing`; then `Return` and `Leave` are the loop's end and
the removal of the path, and `Crash` may come at any step. A socket that is bound
but does not listen yet refuses connections, which is one of the ways a live
daemon is taken for a stale one.

Two history variables: `raced` (two daemons were claiming at once since all were
down) and `calm` (none has crashed or stopped since one started with all down).

It is checked as the daemons' half of `Lifecycle`, with `OneOwner` (without a race only
one is live and the path is its own) and `SomebodyReachable` (even with races somebody
ends up serving on the path), and proved for any number of daemons. That two starts
which overlap leave two servers, which the test `server.rs:491` is named to exclude, is
a finding.

### Lifecycle

State: `SocketClaim`'s, for the daemons, and once more as `lock`, `claim`, `contested`
and `settled` for the apps and `app.sock` (the instance `Lock`), because
`single_instance.rs` makes the same steps. `stage` is how far an app is with its
daemon, `child` says that `Supervisor.child` is there and with it the write end of the
pipe to its stdin. `job` is what launchd knows of the agent, `cmd` the `yamete` command
under way and `misled` (history) says that it was told of a job that launchd has that it
has not. A child has its app's name among the daemons. The plist itself is left out: no
step of a daemon or of launchd reads it in between.

Actions of the app: `Launch`; `Acquire` (the claim's steps) and `AcquireFails`, which
lets it run without the lock; `Attach`, `NobodyAnswers`, `Spawn`, `SpawnFails`, `Await`
are `ensure_running`, where another daemon may start between the connect and the spawn; `Quit`, `ChildStopped`, `KillChild` are `shutdown`; `Release`;
`AppCrash`. The daemon's: `Claims`, `Returns`, `ParentGone` (the thread that reads
stdin until its end), `Leaves`, `DaemonCrash`. launchd's: `LaunchdStarts` (KeepAlive
unless the exit was a success) and `LaunchdForgets`. The commands': `Begin` and `Gone`
are `bootout_and_wait`, then `Install` (the binary and the file) and `Bootstrap`, or
`Uninstall`; `CommandFails` at any of them; `Restart`. `IsLoaded` is what the commands ask
launchd: it answers "not loaded" when launchctl fails for whatever reason, so `Begin` and
`Gone` may go on with the agent alive, and a bootout in `Begin` may fail unnoticed.

* `lifecycle`: two apps, one with a daemon beside it and one that can only attach, the
  agent, one crash. One crash is what leaves a stale socket or an orphan, and the first
  states have a stale socket too; the theorems hold for any number. Two apps race for
  `app.sock`, and two daemons for theirs. `OneOwner`, `SomebodyReachable`, `OneApp`,
  `QuitStopsChild`, `ChildFollowsApp`, `AgentTakesOver`, and `NothingUnderfoot`: while a
  command works on the files and loads the agent anew, the agent is down, or the command
  was misled. This is the largest run, a million states in about four minutes.

Fairness: daemons run (weak fairness of `Claims` and `Leaves`), the thread that
reads stdin runs (`ParentGone`), and launchd starts what it keeps alive
(`LaunchdStarts`). Nothing makes an app, a user or a command go on, so
`ChildFollowsApp` holds of an app that hangs in its own shutdown too.

### DetectorLoop

State: `watch` and `changed` are the watch channel; `config` is the loop's copy;
`rate` and `clock` are the sensor that is open and the time on its stream;
`warmup` and `last` are the detector's; `test` holds the `TestAction` requests
from the handler's check to the loop's drain; `status` is what `GetStatus`
answers; `shutdown` is a signal, or a parent that has gone.

A turn is `Look` (has_changed), `Reload`, `Reopen` or `OpenFails`, `RunTest`
and `TestsDone`, `Sample` or `Spank`, and `EndQuietly` or `EndWithStatus`. Handlers
(`SetConfig`, `SetEnabled`, `TestAction`, `QueueTest`) and `Signal` interleave with
every step. The detector's arithmetic is a choice whether a sample is a hit; what
is kept is when it may fire at all: not while `warmup` counts down, and not within
`Cooldown` of `last`. `Boot` is the next process
after the loop ended, whose configuration is the one it reads.

History: `current` (the loop's copy has been the published one since this turn
began) and, in each test, `pending` (a change was still to be taken over when the
handler looked) and `steady` (its action has stayed configured since).

* `loop_turns`: one action, two intervals, warmup 1, cooldown 2, four samples per
  stream, two spanks. Two intervals make a reopening happen and a second one undo
  it; four samples hold a warmup, a spank, a cooldown and a second spank.
* `loop_live`: with fairness, on one interval and one sample, since liveness is
  about the hand-over of changes and not about the stream.

Fairness: the thread keeps running (weak fairness of `Loop`). It drains the queue
of tests and the sensor's ring faster than they fill (`TestsDone`, and the end of
the turn), and `STATUS_INTERVAL` passes again and again (strong fairness of
`EndWithStatus`). Nothing is assumed of handlers.

### SensorPump

State: `queue` holds the reports a device has made and its callback has not seen yet,
`last_seq`, `stats` and `ring` are the callback's; `pending` and `pc` the pump's.
`Make` is the device, which may lose reports or make one of the wrong length;
`Malformed`, `Receive`, `Overrun` are the three ways through the callback
(`iokit.rs:247`); `Drain`, `FillAccel`, `FillGyro`, `Emit`, `Drained` are
`Pump::drain`, step by step, because callbacks push between its two looks at the rings;
`Open` and `OpenFails` begin anew. The history variables hold what a stream has really
made (`first`, `upto`), whether it was ever silent for a whole turn of the counter
(`close`), the last two times emitted (`out`), and whether callbacks have run in the
order of their stamps (`punctual`).

* `pump`: a counter modulo 2, rings of 2, one report on its way per device, four
  reports and three time units a stream. The counter wraps in the second report, a gap
  of a whole turn fits, a ring overflows, and the pump can look between any two pushes.
  `Accounted` (received, dropped, overruns against what was made and emitted) and
  `MergedInOrder` (the merge is in order up to one frame).

### Detector and Recording

State of `Detector`: `cfg` (after `Config::effective`), `warmup_remaining`, the two windows
`peak_hold` and `amp_window` as rings that are overwritten in place, `last_fire_t`, and
the detections in `hits`; `trace` is the history of frames. `PushGyro`, `WarmsUp`,
`Silent` and `Fires` are the ways through `push_gyro` and `push_accel`, `Reconfigure`
makes a new detector. A sample is its time and magnitude. Four of the five votes are
floating-point statistics, and how many of them vote is free. The frames come as
`SensorPump` leaves them: each stream in order, the two streams nearly so.

`Recording` says what becomes of that trace: `Recorded` (the recorder), `ToText` and
`FromText` (the fixture's text: label, annotation, provenance and a `Line` for each
frame), `Write` and `FromBytes` (compression), `Merge` and `Replayed`. A line has six
decimals of the time and five of each axis, so what is read is the frame `Rounded`: its
time to a multiple of `Res`, its magnitude, which stands for the axes, to one of `MagRes`.
Labels, keys and values are taken to fit in a line: `from_text` trims it, and a label with
a line break or with blanks around it would not come back. `Taken` counts what the merge has taken
of the accelerometer after each line, and `FromText` what a text said up to each line:
both are recursive functions, so that they can be reasoned about.

* `replay`: warmup 1, windows of 2, two configurations (the shipped gate; one that only
  annotates, at a low sensitivity), five frames within six time units. Five frames hold
  a warmup, a slap, a cooldown and a second slap, and wrap both windows. The other
  statistics give one vote or two; with two a sample of no magnitude can fire, and then the
  held peak of the sample before it is what decides and is reported. Times and
  magnitudes are written in units of 3, so times are rounded up and down and magnitudes up.
  `HitsAreSlaps` compares the hits with a definition over the whole trace,
  `RotationIsRecent` says how old the rotation behind a hit can be while the gyroscope
  keeps pace. `RoundTrip` and `ReplayInterleaves` are evaluated for every trace reached:
  what was recorded reads back to the digits of the file, and replays in the live order if
  that order can be told from the written times.

### Executor

State: `config` (the loop's actions), `disk` and `cache` (files that exist, files that
are decoded), `rotation` and `last_pick`; `todo` is the dispatch under way and `outcome`
what its latest run came to. `Dispatch` and `Test` choose the actions, `RunOther`,
`RunNothing`, `RunOnly`, `RunSequential` and `RunRandom` are `run` on the next one,
`SetConfig` is `normalize`, `validate` and `preload`, and `DiskChanges` is the user, who
may come between any two. `streak` holds the picks one action has made in a row.

* `sounds`: three files of which one does not decode, a folder, lists of one, two and
  all of them, both orders, the older layout, two actions for one spank, invalid
  configurations; six rotations, which is twice round the longest list.
  `PicksFollowOrder`, `SoundsAreLoaded`.

### ActionWorker

State: `channel` and `pending` are the job queue and the list of delayed jobs;
`left` is the time until each job is due; `wait` is what `recv_timeout` has left;
`audio` and `age` are the device and the time since the last sound; `batch` is how
many pending jobs were due at the one look at the clock a turn takes.

Actions: `Send` is `Executor::run`; `Turn`, `RunDue`, `Sleep`, `ReceiveDue`,
`ReceiveLater`, `Timeout` are the loop of `run_worker`; `Finish` is `execute` coming
to its end, whatever time that took. `TimePasses` lets time go by in any state, so a
webhook may take as long as it likes. The history variable `warm` holds the sounds
the device was opened for in advance.

* `actions_jobs`: two jobs at once, delays of up to three units, an idle poll of
  two and a timeout of four, so that a delay outlasts a poll and a device outlives
  a delay. `RunsInTurn`, `WakesInTime`, `DeviceWaitsForSound`, `JobsAreRun`,
  `DeviceIsReleased`.

Fairness: time passes and the worker runs. `execute` ends because the sound plays on
the device's own thread, a command is only spawned, and a webhook has a timeout
(`actions.rs:487`). The channel never disconnects while the daemon lives, so the
worker's `break` is not modelled.

### ScopeSubscription

State: `window` and `scope` are what is on screen; `want` is `want_telemetry` and
`setting` each writer's place in `set_telemetry`, which looks at the section and stores
in two steps; `pc`, `subscribed` and `line` are the subscription thread's; `connected`
is what the app shows. The socket is `peer` (the daemon's end), `asked` (requests on
their way) and `stream` (what the daemon has sent); `topics` is the daemon's
subscription and `half` says that it is in the middle of a frame.

`Show`, `Hide`, `ShowForSecond` and `Section` are the user; `Watch` the thread that
looks at the window every 400 ms; `Connect` to `Retry` are `connect_and_stream` and its
loop; the rest is the daemon, as `EventStream` has it: it reads requests and writes
events in turn. A line is abstracted to its pieces, because a timeout may fall
between any two reads: a frame of telemetry has two, the second of which ends the
line, and a spank has one. `ReadPart` and `ReadLine` are what `read_line` does with
each, `Timeout` is its error in between, which keeps `line`.

* `scope_follow`: two requests and three pieces under way, which holds a frame cut by a
  timeout and followed by another event, and a wish that changes again before the
  daemon has read of the first change. `FramesAreWhole`, `SubscriptionAgrees`,
  `TelemetryComes`, `TelemetryCeases`.

Fairness: the app's threads run (weak fairness), and the daemon takes requests
although it also has events to send (strong fairness of `TakeRequest`, which
`EventStream` gets from `select!`) and completes a frame it has begun. Nothing is
assumed of the user, who pauses only while two requests are unread (`MaxAsked`), nor of
the daemon's life. A connection that the kernel resets while events are unread loses
them; the model lets the app read what is left, which ends the same way.

## 3. What is proved

Every safety property and every action property that a run checks is also a theorem,
for all values of the constants. Each rests on an inductive invariant (`IInv`, `LifeInv`,
`ExecInv`, `DetectorInv`), defined beside the properties in the module it is about and
found with TLC first: the initial states satisfy it, then one step (or lemma) per action
preserves it, then the theorems. The assumptions are the `ASSUME`s of the modules, which
TLC evaluates on every run. Type correctness is part of each invariant and is proved
rather than run.

`ConfigStoreProofs`, for any number of connections, worker threads, bodies and
whichever calls may fail: `TypeCorrect`, `LiveIsAlwaysUsable`,
`OneWriterNeverTears`, `AnsweredChangesSurvive`, and `BrokenIsMovedAside` under the
assumption that the quarantine rename works. The properties alone are not
inductive. `LoneSaveInv` adds how far an undisturbed save has come: its temporary
file is empty, then whole, then synced, then renamed. `OverlapInv` adds that a
handler that is not alone is remembered in `overlap`, which is what lets a torn
text be blamed on two writers, through a rename also one that a power loss brings back
(`WholeInv`). `HandlerInv` ties descriptors to steps.
`MendedInv` says that a live daemon never has a broken file of the user's in place.
`SavedBeforePublished` is the refinement that `config_promise` checks, and needs no
assumption on threads or failures: `Spec => ChangesAreSavedFirst`. The promise's saved
configuration is the one a boot would load (`OnDisk`), its durable ones are those that a
power loss may leave (`Survivors`), and its requests are the handlers' jobs. Then
`RenameTmp` is `Save`, `Send` is `Publish`, and a failed `SetConfig` is `Refuse`; boots,
ends, edits and the directory's write-back are the promise's own; every other step is a
stutter or, beside another request, a `Save` of whatever it leaves. It rests on `IInv`:
what a lone handler is about to publish after `chmod` is what the file holds.

`SubscriptionProofs` of `EventStream`, for any number of clients, capacity and subscriptions:
`TypeCorrect` (queues stay within the channel's capacity), `CountAlwaysExact`,
`UnobservedBuildsNothing`, `EnvelopeStaysLive`. `CountIsExact` is inductive with the
types. `UnobservedBuildsNothing` rests on it: what the loop wants is what was
watched when the iteration began (`WantIsInformed`), because the count it read was
exact.

`SocketClaimProofs`, for any set of daemons: `TypeCorrect`, `OneOwnerHolds`,
`SomebodyReachableHolds`. `ClaimInv` says that without a race the one that claims
has found nobody alive by the time it removes or binds; `ReachInv` says that in a
calm the path is bound or somebody is on the way to binding it.

`LifecycleProofs`, for any apps, bundled or not, and any number of crashes:
`LifecycleIsClaim` shows that `Lifecycle` implements `SocketClaim`, every step of it a
step of the claim or a stutter (`DaemonStep`). So `OneDaemonHolds` and
`DaemonReachableHolds` carry over. `LockInv` is the claim's own invariant for `app.sock`,
by the instance of `SocketClaimProofs` and the one step that is not the claim's
(`AcquireFails`, which marks the lock contested); it gives `OneAppHolds`. `StageInv`
relates the stage of an app to its child: a live app without a child, unless it is about
to stop one, has none that runs; it gives `QuitStopsChildHolds`. `JobInv` says that
what launchd does not know does not run, and that a command at the files was either told so
rightly or misled; it gives `NothingUnderfootHolds`.
`LifeTypeCorrect` are the types.

`SensorPumpProofs`, for any width of the counter, length of the rings and number of
reports: `TypeCorrect`, `AccountedHolds`, `MergedInOrderHolds`. `GapFacts` is the
arithmetic: the gap found from the low bits differs from the real one by whole turns,
and not at all if the real one is shorter than a turn. `Numbered` keeps the reports of a
stream in the order of their numbers, `Streams` in that of their times from the device
through queue, ring and slot to what was emitted. `Merging` is the heart of the merge: a
look at an empty ring says that all that comes later is newer than all there was, as
long as callbacks are punctual; that is what bounds the disorder to one frame.

`DetectorProofs` of `DetectorLoop`, for any warmup, cooldown, intervals, actions and requests:
`TypeCorrect`, `SensorFollows`, `ClockStaysRight`, `KeptTestsAreRun`,
`SpanksStayCurrent` (an action property). `SeenInv` ties the loop's copy to the
watch value when no change is flagged, `CurrentInv` carries that through a turn,
`ClockInv` relates the warmup left to the samples seen, and `TestInv` follows a
test from the handler's check to the drain.

`ActionProofs` of `ActionWorker`, for any jobs, delays, tick, idle poll and timeout:
`TypeCorrect`, `RunsInTurnHolds`, `WakesInTimeHolds`, `DeviceWaits`. `BatchInv` says
that the jobs a turn still has to run are due and at the front; `WarmInv` that only
pending sounds are waited for. `InsertAtElements` is the lemma about the insertion.

`SubscriptionProofs` of `ScopeSubscription`, for sockets of any size: `ScopeTypeCorrect`, `FramesStayWhole`,
`SubscriptionStaysRight`. The pieces of `line` and of `stream` together are what is
framed: a part that is read moves from one to the other (`ReadPartKeeps`), a complete
line is a prefix (`ReadLineKeeps`, `FramedSuffix`), and `HalfInv` tells the daemon's
side what may follow (`FramedAppend`). `PeerInv` says that the thread connects anew
only after the daemon's end is gone, so that nothing of an old connection is left.

`ActionProofs` of `Executor`, for any files, of which any may be broken, any configurations,
valid or not, and any moment at which the disk changes: `ExecTypeCorrect`, `SoundsLoaded`,
`PicksInOrder`. The playlist is folded from folders and files; `PlaylistFacts` says that it
is a list of files that exist and has none twice. `Decoded` says that what may be
played was decoded when the configuration was taken over. `PicksFollowOrder` alone is not
inductive: `StreakInv` adds that a streak ends with the last pick, and a sequential one
where the rotation stands, so that the next pick is the next of the list, around its end
(`NextInTurn`, by the arithmetic of residues).

`DetectorProofs` of `Detector`, for any settings and scale, warmup, magnitudes and lengths
of the two windows: `DetectorTypeCorrect`, `ReportsSlaps`, `RotationStaysRecent`. The code
decides from two rings that are overwritten and a counter; the definition from the whole
trace. `RingHolds` relates the two: the slot `k` places behind the index holds the latest
sample but `k`, or nothing yet. A push keeps that, around the end of the ring (`PushHolds`),
so the ring's maximum is the latest samples' (`RingMax`). `WarmupInv` and `FireInv` do the
same for the warmup and the cooldown. Samples judged before are judged the same after every
later frame, because a frame is only appended (`OldSlaps`). For the age of rotation, a stream that takes steps
of at most one is at most `k` steps old `k` samples before its last (`StepsBack`).

`DetectorProofs` of `Recording`, for traces of any length, any precision of times and of
magnitudes, any labels, annotations and provenance: `RecordingsSurvive`, `ReplaysInOrder`. Both are facts about every
trace and not about steps, so their invariant is the detector's type. The merge takes both streams in full, each in its
order: by induction over the lines, each takes the next frame of one stream (`TakenBounds`,
`MergeFacts`). The parser is a fold over the same lines, and after each it has read exactly
the prefixes that the merge had taken, rounded (`ReadsText`); in front of the frames stand
the label, the annotation and the provenance, in whatever order the map keeps its keys. For the order of a
replay, the frames of a stream keep their places as the trace grows (`SelectedLater`); when the
rounded times tell the order, the merge therefore takes the frames of the trace one by one
(`StreamsInTrace`, `InvReplays`).

`DataLemmas` is what makes these three possible. The library's induction rules take a
predicate, which the provers here cannot instantiate; `SetInduction` and
`IntervalInduction` take the set of numbers that satisfy it instead, and
`RecursiveFunction` derives from them that a function defined by recursion over an interval exists and satisfies
its equation. The largest of finitely many numbers (`LargestNumber`) and residues (`ModAdd`, `ModRest`) are there too.

The theorems without a property of a run beside them state more than the runs ask:
the type theorems, `SensorFollows` (the loop reads only a sensor opened
at the interval its configuration asks for), `EnvelopeStaysLive`, `LifecycleIsClaim`.

Only model-checked: the liveness properties, since fairness and `ENABLED` are out of the
prover's reach. They are `UnobservedGoesQuiet`, `WatcherSeesFrames`, `SpankArrives`
(`events_live`), `ChangeTakesEffect`, `StatusFollows` and `SignalEnds` (`loop_live`), `JobsAreRun` and `DeviceIsReleased`
(`actions_jobs`), `TelemetryComes` and `TelemetryCeases` (`scope_follow`), `ChildFollowsApp` and
`AgentTakesOver` (`lifecycle`). The bounds in the
guards (`MaxTime`, `MaxSpanks`, `MaxMade` and the others) are parameters of the theorems
like any other.

## 4. Findings

PROJECT.json lists each with its line and the sentence it disagrees with. None needs a
run of its own: each is a step, or a short run of steps, of a module, or a line next to
what is modelled, and the properties state what holds in spite of it.

* `ConfigStore`: two handlers share the temporary file, so a kill can leave an empty
  configuration; they may save in one order and publish in the other (`Send`); a
  `SetEnabled` undoes a `SetConfig` that is answered while it saves; the directory is not
  synced, so that an answered change can revert on a power loss; a change that is refused
  because chmod failed is in the file; an unreadable file is not quarantined.
* `SocketClaim`, `Lifecycle`: two daemons that start together both serve; one may refuse
  to start because the socket it wanted to remove has just gone; an app whose claim fails
  runs without the lock; quitting from the tray stops the daemon it says it leaves; `daemon_owned` stays
  true of a child that was refused or has died; the agent is refused and started again
  every ten seconds while the app's child runs; a launchctl that fails is taken for an
  agent that is not loaded, so that its files are touched while it runs; `install --copy`
  from the installed binary deletes it.
* `EventStream`: gyroscope samples can outlive the viewer they were buffered for.
* `DetectorLoop`: a test answered with `Pong` is dropped when a change overtakes it
  (why `KeptTestsRun` speaks of tests that were kept); re-enabling detection restarts the
  warmup that `daemon.rs:261` says it does not need; the rate that is shown divides the
  new sensor's reports by the old sensor's time.
* `SensorPump`: the merge can be out of order by a frame; a malformed report is counted
  twice, once as a gap.
* `Detector`, `Recording`: without a gyroscope, which is said only to disable
  corroboration, the shipped gate refuses every impact; the gyroscope's window is a number of samples and reaches
  further back when samples are lost; the peak that is reported is the one so far; a
  replay restores the order of the times, not the live one.
* `Executor`: one rotation counter and one last pick serve all actions, so that lists are
  neither stepped through nor free of repeats when two actions alternate; the trigger path
  reads folders.
* `ActionWorker`: a job due on arrival overtakes one that came due before; the job queue
  has no bound to drop at; jobs without sound keep an idle device open.
* `main.ts`: an edit made while a push is under way is lost, and one that waits while the
  switch is used.

## 5. What is not modelled

* The web view (`main.ts`). Its one piece of logic with state is the debounced push, and
  the two findings above are what it does: an edit is lost in the interleavings that
  matter. What is left to say of it is true of a single assignment.
* The statistics behind four of the five votes, calibration and the parameter sweeps:
  floating-point filters over long series, out of TLC's reach. `Detector` leaves the
  number of these votes free, so its properties hold of any statistics.
* `iokit.rs` below its callback: run loops, the bytes of a report, the conversion of
  ticks, and what the kernel does with a callback that is under way while the device is
  closed (`iokit.rs:308`, a hazard whose answer is in IOKit and not in this source).
* Audio decoding and mixing, HTTP, process spawning and templates: calls without state
  of ours, of which the models keep that they take time and may fail.
* The command line client (one request, one reply), `service` (it only reads), the
  prompts and reports of the offline tools, the website, packaging and fixtures.

Within what is modelled: `config.rs` by the kinds of configuration that `normalize` and
`validate` tell apart (`ConfigStore`) and by what they do to actions (`Executor`); a
second quarantine in the same second; a channel that disconnects while the daemon lives;
two `yamete` commands at once; the same app started twice under one name while its child
still ends, which a second app stands for.
