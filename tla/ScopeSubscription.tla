--------------------------- MODULE ScopeSubscription ---------------------------
(***************************************************************************)
(* How the app follows the daemon: app daemon.rs.  One thread holds a      *)
(* connection on which it subscribes, and reads a line at a time with a    *)
(* timeout that lets it notice a changed wish.  The wish for telemetry     *)
(* is written by two threads: the main one, when the window is shown or    *)
(* hidden, and one that looks at the window now and then.                  *)
(*                                                                         *)
(* The daemon's side is what EventStream promises: it takes requests in    *)
(* order, and between two events.  A frame of telemetry is large and       *)
(* arrives in two pieces, of which the second ends the line; a spank       *)
(* arrives in one.                                                         *)
(***************************************************************************)
EXTENDS Naturals, Sequences, SequencesExt

CONSTANTS
    MaxAsked,   \* bound: the user rests while the daemon has so many requests to read
    MaxStream   \* bound: pieces in the socket that the app has not read

ASSUME SubscriptionAssumption == MaxAsked \in Nat /\ MaxStream \in Nat

VARIABLES
    window,     \* the window is on screen
    scope,      \* scope_visible: the scope is the section it shows
    want_telemetry, \* the wish
    setting,    \* where each thread is in set_telemetry
    pc,         \* where the subscription's thread is
    connected,  \* what the app shows of the connection
    subscribed, \* what it has last asked for: subscribed_telemetry
    line,       \* what it has read of a line
    up,         \* a daemon listens
    peer,       \* the daemon's end of the connection is open
    asked,      \* requests on the way to the daemon, by their wish for telemetry
    sends,      \* what the daemon sends on this connection
    half,       \* the daemon has sent the first piece of a frame
    stream      \* pieces on the way to the app

screen == <<window, scope>>
wish == <<want_telemetry, setting>>
app == <<pc, connected, subscribed, line>>
socket == <<peer, asked, sends, half, stream>>
scopeVars == <<screen, wish, app, up, socket>>

Threads == {"main", "watch"}

(* set_telemetry: not in it, about to look at the scope, about to store. *)
Out == [step |-> "out", value |-> FALSE]
Settings == {Out} \cup [step : {"load", "store"}, value : BOOLEAN]

ScopeTypeOK ==
    /\ window \in BOOLEAN
    /\ scope \in BOOLEAN
    /\ want_telemetry \in BOOLEAN
    /\ setting \in [Threads -> Settings]
    /\ pc \in {"connect", "subscribe", "check", "read", "ended"}
    /\ connected \in BOOLEAN
    /\ subscribed \in BOOLEAN
    /\ line \in {<<>>, <<"head">>}
    /\ up \in BOOLEAN
    /\ peer \in BOOLEAN
    /\ asked \in Seq(BOOLEAN)
    /\ sends \in {"nothing", "spanks", "all"}
    /\ half \in BOOLEAN
    /\ stream \in Seq({"head", "tail", "spank"})

ScopeInit ==
    /\ window \in BOOLEAN
    /\ scope = TRUE
    /\ want_telemetry = FALSE
    /\ setting = [t \in Threads |-> Out]
    /\ pc = "connect"
    /\ connected = FALSE
    /\ subscribed = FALSE
    /\ line = <<>>
    /\ up \in BOOLEAN
    /\ peer = FALSE
    /\ asked = <<>>
    /\ sends = "nothing"
    /\ half = FALSE
    /\ stream = <<>>

-----------------------------------------------------------------------------
(* What is on screen, and the wish.                                        *)

(* A thread calls set_telemetry; a wish for none needs no look at the scope. *)
Calls(t, value) ==
    /\ setting[t] = Out
    /\ setting' = [setting EXCEPT ![t] = [step |-> IF value THEN "load" ELSE "store",
                                          value |-> value]]

(* The tray, or the window's close button. *)
Show ==
    /\ Len(asked) < MaxAsked
    /\ Calls("main", TRUE)
    /\ window' = TRUE
    /\ UNCHANGED <<scope, want_telemetry, app, up, socket>>

Hide ==
    /\ Len(asked) < MaxAsked
    /\ Calls("main", FALSE)
    /\ window' = FALSE
    /\ UNCHANGED <<scope, want_telemetry, app, up, socket>>

(* A second copy of the app was started: the window comes, and no more. *)
ShowForSecond ==
    /\ Len(asked) < MaxAsked
    /\ window' = TRUE
    /\ UNCHANGED <<scope, wish, app, up, socket>>

(* The web view changes its section: set_scope_visible. *)
Section ==
    /\ Len(asked) < MaxAsked
    /\ setting["main"] = Out
    /\ scope' = ~scope
    /\ UNCHANGED <<window, wish, app, up, socket>>

(* Mutant: the thread only ever puts an end to the wish. *)
WatchOnlyHides ==
    /\ ~window
    /\ Calls("watch", FALSE)
    /\ UNCHANGED <<screen, want_telemetry, app, up, socket>>

(* The thread that watches the window. *)
Watch ==
    /\ Calls("watch", window)
    /\ UNCHANGED <<screen, want_telemetry, app, up, socket>>

(* Mutant: a window is enough. *)
LoadNothing(t) ==
    /\ setting[t].step = "load"
    /\ setting' = [setting EXCEPT ![t] = [step |-> "store", value |-> TRUE]]
    /\ UNCHANGED <<screen, want_telemetry, app, up, socket>>

LoadScope(t) ==
    /\ setting[t].step = "load"
    /\ setting' = [setting EXCEPT ![t] = [step |-> "store", value |-> scope]]
    /\ UNCHANGED <<screen, want_telemetry, app, up, socket>>

StoreWant(t) ==
    /\ setting[t].step = "store"
    /\ want_telemetry' = setting[t].value
    /\ setting' = [setting EXCEPT ![t] = Out]
    /\ UNCHANGED <<screen, app, up, socket>>

-----------------------------------------------------------------------------
(* The subscription's thread.                                              *)

(* connect succeeds: a new socket, and an empty line. *)
OpenConnection ==
    /\ pc = "connect"
    /\ up
    /\ pc' = "subscribe"
    /\ connected' = TRUE
    /\ line' = <<>>
    /\ peer' = TRUE
    /\ asked' = <<>>
    /\ sends' = "nothing"
    /\ half' = FALSE
    /\ stream' = <<>>
    /\ UNCHANGED <<screen, wish, subscribed, up>>

ConnectFails ==
    /\ pc = "connect"
    /\ ~up
    /\ pc' = "ended"
    /\ UNCHANGED <<screen, wish, connected, subscribed, line, up, socket>>

(* Write a Subscribe request, which fails if the daemon has hung up. *)
Ask(wanted) ==
    /\ subscribed' = wanted
    /\ IF peer THEN asked' = Append(asked, wanted) ELSE UNCHANGED asked
    /\ UNCHANGED <<screen, wish, connected, line, up, peer, sends, half, stream>>

FirstSubscribe ==
    /\ pc = "subscribe"
    /\ Ask(want_telemetry)
    /\ pc' = IF peer THEN "check" ELSE "ended"

CheckSame ==
    /\ pc = "check"
    /\ want_telemetry = subscribed
    /\ pc' = "read"
    /\ UNCHANGED <<screen, wish, connected, subscribed, line, up, socket>>

(* Mutant: only the first wish is sent. *)
ResubscribeForgets ==
    /\ pc = "check"
    /\ want_telemetry # subscribed
    /\ subscribed' = want_telemetry
    /\ pc' = "read"
    /\ UNCHANGED <<screen, wish, connected, line, up, socket>>

Resubscribe ==
    /\ pc = "check"
    /\ want_telemetry # subscribed
    /\ Ask(want_telemetry)
    /\ pc' = IF peer THEN "read" ELSE "ended"

(* read_line takes what there is and waits for the rest of the line. *)
ReadPart ==
    /\ pc = "read"
    /\ stream # <<>>
    /\ Head(stream) = "head"
    /\ line' = Append(line, "head")
    /\ stream' = Tail(stream)
    /\ UNCHANGED <<screen, wish, pc, connected, subscribed, up, peer, asked, sends, half>>

(* The line is complete: it is forwarded if it is an event. *)
ReadLine ==
    /\ pc = "read"
    /\ stream # <<>>
    /\ Head(stream) # "head"
    /\ line' = <<>>
    /\ stream' = Tail(stream)
    /\ pc' = "check"
    /\ UNCHANGED <<screen, wish, connected, subscribed, up, peer, asked, sends, half>>

(* Mutant: a timeout starts the line afresh. *)
TimeoutClears ==
    /\ pc = "read"
    /\ stream = <<>>
    /\ peer
    /\ pc' = "check"
    /\ line' = <<>>
    /\ UNCHANGED <<screen, wish, connected, subscribed, up, socket>>

(* Nothing came for a while: back to the wish, keeping what was read. *)
Timeout ==
    /\ pc = "read"
    /\ stream = <<>>
    /\ peer
    /\ pc' = "check"
    /\ UNCHANGED <<screen, wish, connected, subscribed, line, up, socket>>

(* The daemon hung up; what was read of a line is never forwarded. *)
PeerGone ==
    /\ pc = "read"
    /\ stream = <<>>
    /\ ~peer
    /\ pc' = "ended"
    /\ UNCHANGED <<screen, wish, connected, subscribed, line, up, socket>>

(* connect_and_stream has returned: it does so only when the daemon hung up. *)
Retry ==
    /\ pc = "ended"
    /\ pc' = "connect"
    /\ connected' = FALSE
    /\ UNCHANGED <<screen, wish, subscribed, line, up, socket>>

-----------------------------------------------------------------------------
(* The daemon.                                                             *)
TakeRequest ==
    /\ peer
    /\ ~half
    /\ asked # <<>>
    /\ sends' = IF Head(asked) THEN "all" ELSE "spanks"
    /\ asked' = Tail(asked)
    /\ UNCHANGED <<screen, wish, app, up, peer, half, stream>>

Puts(piece) ==
    /\ peer
    /\ Len(stream) < MaxStream
    /\ stream' = Append(stream, piece)
    /\ UNCHANGED <<screen, wish, app, up, peer, asked, sends>>

SendSpank ==
    /\ ~half
    /\ sends # "nothing"
    /\ Puts("spank")
    /\ UNCHANGED half

SendFrame ==
    /\ ~half
    /\ sends = "all"
    /\ Puts("head")
    /\ half' = TRUE

SendRest ==
    /\ half
    /\ Puts("tail")
    /\ half' = FALSE

DaemonStarts ==
    /\ ~up
    /\ up' = TRUE
    /\ UNCHANGED <<screen, wish, app, socket>>

(* It may stop anywhere, in the middle of a frame too. *)
DaemonStops ==
    /\ up
    /\ up' = FALSE
    /\ peer' = FALSE
    /\ asked' = <<>>
    /\ sends' = "nothing"
    /\ half' = FALSE
    /\ UNCHANGED <<screen, wish, app, stream>>

-----------------------------------------------------------------------------
Subscription ==
    \/ OpenConnection
    \/ ConnectFails
    \/ FirstSubscribe
    \/ CheckSame
    \/ Resubscribe
    \/ ReadPart
    \/ ReadLine
    \/ Timeout
    \/ PeerGone
    \/ Retry

User == Show \/ Hide \/ ShowForSecond \/ Section

Daemon ==
    \/ TakeRequest
    \/ SendSpank
    \/ SendFrame
    \/ SendRest
    \/ DaemonStarts
    \/ DaemonStops

ScopeNext ==
    \/ User
    \/ Watch
    \/ \E t \in Threads : LoadScope(t) \/ StoreWant(t)
    \/ Subscription
    \/ Daemon

ScopeSpec == ScopeInit /\ [][ScopeNext]_scopeVars

(* The app's threads run, and the daemon, which takes requests between any   *)
(* two events, gets round to them and completes what it sends.  Nothing is   *)
(* assumed of the user, nor that the daemon stays.                           *)
ScopeFairness ==
    /\ WF_scopeVars(Watch)
    /\ \A t \in Threads : WF_scopeVars(LoadScope(t) \/ StoreWant(t))
    /\ WF_scopeVars(Subscription)
    /\ SF_scopeVars(TakeRequest)
    /\ WF_scopeVars(SendRest)

FairScopeSpec == ScopeSpec /\ ScopeFairness

-----------------------------------------------------------------------------
(* However a frame is cut into pieces and timeouts, what is read between two *)
(* ends of line is one event, and the next one begins where it ended: none   *)
(* is shredded by what a timeout or an earlier connection left behind        *)
(* (app daemon.rs:176-182).                                                  *)
Framed(pieces) ==
    \A i \in 1..Len(pieces) :
        /\ pieces[i] = "tail" => i > 1 /\ pieces[i - 1] = "head"
        /\ pieces[i] = "head" /\ i < Len(pieces) => pieces[i + 1] = "tail"

FramesAreWhole == Framed(line \o stream)

(* What the thread believes to have subscribed to is what the daemon sends,  *)
(* or will when it has taken the requests that are on their way: also after  *)
(* a new connection to a new daemon (app daemon.rs:159-197).                 *)
SubscriptionAgrees ==
    peer /\ pc \in {"check", "read"} =>
        IF asked = <<>> THEN sends = (IF subscribed THEN "all" ELSE "spanks")
        ELSE Last(asked) = subscribed

(* While the scope stays on screen and a daemon up, telemetry comes, though  *)
(* both writers of the wish work from what they saw earlier                  *)
(* (app daemon.rs:67-70, 118-128).                                           *)
TelemetryComes == <>[](up /\ window /\ scope) => <>[](sends = "all")

(* Once the window stays hidden, or the section another one, it ceases       *)
(* (app lib.rs:100-101).                                                     *)
TelemetryCeases == (<>[]~window \/ <>[]~scope) => <>[](sends # "all")

-----------------------------------------------------------------------------
(* The inductive invariant behind the safety properties.                   *)

(* The connection is over when the thread says so, and with it the daemon's  *)
(* part in it.                                                               *)
PeerInv ==
    /\ pc \in {"connect", "ended"} => ~peer
    /\ half => peer

(* The daemon is in the middle of a frame when its first piece came last.    *)
HalfInv ==
    LET pieces == line \o stream
    IN  peer => (half <=> Len(pieces) > 0 /\ pieces[Len(pieces)] = "head")

IInv ==
    /\ ScopeTypeOK
    /\ PeerInv
    /\ FramesAreWhole
    /\ HalfInv
    /\ SubscriptionAgrees

=============================================================================
