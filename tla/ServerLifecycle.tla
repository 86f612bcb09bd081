-------------------------- MODULE ServerLifecycle --------------------------
(***************************************************************************)
(* Remote Control switched on, off and restarted.  StartAsync, StopAsync   *)
(* and RestartAsync are coroutines of the UI thread: they interleave at    *)
(* their awaits, nothing keeps a second one out, and they hand each other  *)
(* the server (_app), its lifetime, its broadcast task and its mDNS        *)
(* responder through fields.  What Kestrel does happens on other threads.  *)
(*                                                                         *)
(* The call with number i builds server i.  Certificates, addresses and    *)
(* status texts are abstracted.                                            *)
(***************************************************************************)
EXTENDS Naturals

CONSTANT MaxCalls   \* bound: calls in a run

Calls == 1..MaxCalls
None == 0

ASSUME LifecycleAssumption == MaxCalls \in Nat \ {0}

VARIABLES
    enabled,    \* RemoteEnabled, the preference
    kind, at,   \* what each call is, and where
    mine,       \* the server a Stop took out of _app
    awaited,    \* the broadcast task it waits for
    made,       \* calls made so far
    app,        \* _app (and _lifetime, set and cleared with it)
    cancelled,  \* servers whose lifetime is cancelled
    port,       \* the server that listens
    broadcast,  \* _broadcastTask
    loops,      \* broadcast loops that run
    mdns,       \* the server the responder was started for
    advertised, \* Address, CurrentPairing and Status: the server they tell of
    exiting,    \* the UI thread sits in Dispose, waiting
    overlooked  \* history: servers a Stop did not see because they were not up yet

calls  == <<kind, at, mine, awaited, made>>
server == <<app, cancelled, port, broadcast, loops, mdns, advertised>>
vars == <<enabled, calls, server, exiting, overlooked>>

-----------------------------------------------------------------------------

Goto(i, place) == at' = [at EXCEPT ![i] = place]

\* The first part of a call, up to its first await, runs in the turn of the UI
\* thread that makes the call; a continuation needs a turn of its own.
MidTurn == \E i \in Calls : at[i] \in {"start", "stop"}
UiFree == ~exiting /\ ~MidTurn
OnUi(i, place) == at[i] = place /\ UiFree

InFlight(i) == at[i] \notin {"none", "done"}
Quiet == \A i \in Calls : ~InFlight(i)

Init ==
    /\ enabled \in BOOLEAN
    /\ kind = [i \in Calls |-> "start"]
    /\ at = [i \in Calls |-> IF i = 1 /\ enabled THEN "start" ELSE "none"]
    /\ made = IF enabled THEN 1 ELSE 0
    /\ mine = [i \in Calls |-> None] /\ awaited = [i \in Calls |-> None]
    /\ app = None /\ cancelled = {} /\ port = None
    /\ broadcast = None /\ loops = {} /\ mdns = None /\ advertised = None
    /\ exiting = FALSE /\ overlooked = {}

Call(k, place) ==
    /\ made < MaxCalls /\ made' = made + 1
    /\ kind' = [kind EXCEPT ![made + 1] = k]
    /\ Goto(made + 1, place)
    /\ UNCHANGED <<mine, awaited, server, overlooked>>

\* The setter of RemoteEnabled; a preference that cannot be saved changes
\* nothing.
SetEnabled ==
    /\ UiFree /\ enabled' = ~enabled
    /\ IF enabled THEN Call("stop", "stop") ELSE Call("start", "start")
    /\ UNCHANGED exiting

\* The command runs one at a time.
RestartServer ==
    /\ UiFree /\ enabled
    /\ \A i \in Calls : kind[i] = "restart" => ~InFlight(i)
    /\ Call("restart", "stop")
    /\ UNCHANGED <<enabled, exiting>>

\* Dispose blocks the UI thread until StopAsync has ended.
Exit ==
    /\ UiFree /\ exiting' = TRUE
    /\ Call("exit", "stop")
    /\ UNCHANGED enabled

-----------------------------------------------------------------------------
(* StartAsync. *)

StartBegins(i) ==
    /\ at[i] = "start"
    /\ Goto(i, IF app # None THEN "done" ELSE "binding")
    /\ UNCHANGED <<enabled, kind, mine, awaited, made, server, exiting, overlooked>>

\* No private address, no certificate, or no port.
StartFails(i) ==
    /\ at[i] = "binding"
    /\ Goto(i, "done")
    /\ UNCHANGED <<enabled, kind, mine, awaited, made, server, exiting, overlooked>>

Binds(i) ==
    /\ at[i] = "binding" /\ port = None
    /\ Goto(i, "bound")
    /\ port' = i
    /\ UNCHANGED <<enabled, kind, mine, awaited, made, app, cancelled, broadcast,
                   loops, mdns, advertised, exiting, overlooked>>

\* The fields are set, and a responder is started unless one runs.
StartPublishes(i) ==
    /\ OnUi(i, "bound") /\ Goto(i, "announcing")
    /\ app' = i
    /\ mdns' \in IF mdns = None THEN {i, None} ELSE {mdns}
    /\ UNCHANGED <<enabled, kind, mine, awaited, made, cancelled, port, broadcast,
                   loops, advertised, exiting, overlooked>>

\* Its lifetime was disposed of by a Stop that has ended meanwhile.
Disposed(i) == \E j \in Calls : mine[j] = i /\ at[j] \notin {"sessions", "stopping",
                                                            "unbound", "join", "leaving"}

\* Address, pairing and status are set; the loop of a cancelled lifetime ends
\* at once, that of a disposed one is never begun.
StartCompletes(i) ==
    /\ OnUi(i, "announcing") /\ Goto(i, "done")
    /\ advertised' = i
    /\ broadcast' = IF Disposed(i) THEN broadcast ELSE i
    /\ loops' = IF i \in cancelled THEN loops ELSE loops \cup {i}
    /\ UNCHANGED <<enabled, kind, mine, awaited, made, app, cancelled, port, mdns,
                   exiting, overlooked>>

Start(i) == StartBegins(i) \/ StartPublishes(i) \/ StartCompletes(i)

-----------------------------------------------------------------------------
(* StopAsync.  Its first part runs when it is called, also under Dispose. *)

AfterStop(i) == IF kind[i] = "restart" THEN "start" ELSE "done"

\* A server that is still on its way up, or comes up in a restart.
ComingUp(i) == at[i] \in {"start", "binding", "bound"}
               \/ (kind[i] = "restart" /\ InFlight(i))

Overlooks(i) == overlooked' = overlooked \cup {j \in Calls \ {i} : ComingUp(j)}

StopFindsNothing(i) ==
    /\ at[i] = "stop" /\ app = None
    /\ Goto(i, AfterStop(i))
    /\ Overlooks(i)
    /\ UNCHANGED <<enabled, kind, mine, awaited, made, server, exiting>>

\* Mutant: _app still refers to the server that is being stopped.
StopTakesAndKeeps(i) ==
    /\ at[i] = "stop" /\ app # None
    /\ Goto(i, "sessions")
    /\ mine' = [mine EXCEPT ![i] = app]
    /\ cancelled' = cancelled \cup {app}
    /\ Overlooks(i)
    /\ UNCHANGED <<enabled, kind, awaited, made, app, port, broadcast, loops,
                   mdns, advertised, exiting>>

\* Mutant: the lifetime is left to the disposal.
StopTakesUncancelled(i) ==
    /\ at[i] = "stop" /\ app # None
    /\ Goto(i, "sessions")
    /\ mine' = [mine EXCEPT ![i] = app] /\ app' = None
    /\ Overlooks(i)
    /\ UNCHANGED <<enabled, kind, awaited, made, cancelled, port, broadcast, loops,
                   mdns, advertised, exiting>>

StopTakes(i) ==
    /\ at[i] = "stop" /\ app # None
    /\ Goto(i, "sessions")
    /\ mine' = [mine EXCEPT ![i] = app] /\ app' = None
    /\ cancelled' = cancelled \cup {app}
    /\ Overlooks(i)
    /\ UNCHANGED <<enabled, kind, awaited, made, port, broadcast, loops, mdns,
                   advertised, exiting>>

\* Mutant: a session that cannot be closed ends the Stop.
StopThrows(i) ==
    /\ at[i] = "sessions" /\ (UiFree \/ kind[i] = "exit")
    /\ Goto(i, "done")
    /\ UNCHANGED <<enabled, kind, mine, awaited, made, server, exiting, overlooked>>

\* WebRTC sessions and sockets are closed; those awaits may need no one.
StopClosesSessions(i) ==
    /\ at[i] = "sessions" /\ (UiFree \/ kind[i] = "exit")
    /\ Goto(i, "stopping")
    /\ UNCHANGED <<enabled, kind, mine, awaited, made, server, exiting, overlooked>>

\* Kestrel gives up the port first, then waits up to two seconds for its
\* connections.
Unbinds(i) ==
    /\ at[i] = "stopping" /\ Goto(i, "unbound")
    /\ port' = IF port = mine[i] THEN None ELSE port
    /\ UNCHANGED <<enabled, kind, mine, awaited, made, app, cancelled, broadcast,
                   loops, mdns, advertised, exiting, overlooked>>

\* The broadcast task is whichever the field holds by now.
StopAwaitsLoop(i) ==
    /\ OnUi(i, "unbound") /\ Goto(i, "join")
    /\ awaited' = [awaited EXCEPT ![i] = broadcast]
    /\ UNCHANGED <<enabled, kind, mine, made, server, exiting, overlooked>>

StopJoinsLoop(i) ==
    /\ OnUi(i, "join") /\ awaited[i] \notin loops
    /\ Goto(i, "leaving")
    /\ broadcast' = None /\ mdns' = None
    /\ UNCHANGED <<enabled, kind, mine, awaited, made, app, cancelled, port, loops,
                   advertised, exiting, overlooked>>

StopCompletes(i) ==
    /\ OnUi(i, "leaving") /\ Goto(i, AfterStop(i))
    /\ advertised' = None
    /\ UNCHANGED <<enabled, kind, mine, awaited, made, app, cancelled, port, broadcast,
                   loops, mdns, exiting, overlooked>>

Stop(i) == \/ StopFindsNothing(i) \/ StopTakes(i) \/ StopClosesSessions(i)
           \/ StopAwaitsLoop(i) \/ StopJoinsLoop(i) \/ StopCompletes(i)

\* A cancelled loop ends, on the UI thread where it was begun.
LoopEnds(i) ==
    /\ i \in loops \cap cancelled /\ ~exiting
    /\ loops' = loops \ {i}
    /\ UNCHANGED <<enabled, calls, app, cancelled, port, broadcast, mdns, advertised,
                   exiting, overlooked>>

-----------------------------------------------------------------------------

Proceeds(i) == Start(i) \/ Stop(i) \/ Unbinds(i) \/ LoopEnds(i) \/ Binds(i) \/ StartFails(i)

Next == SetEnabled \/ RestartServer \/ Exit \/ \E i \in Calls : Proceeds(i)

\* The UI thread runs what is posted to it, Kestrel answers in time.
Fairness == \A i \in Calls :
    WF_vars(Start(i)) /\ WF_vars(Stop(i)) /\ WF_vars(Unbinds(i)) /\ WF_vars(LoopEnds(i))
    /\ WF_vars(Binds(i) \/ StartFails(i))

Spec == Init /\ [][Next]_vars /\ Fairness

-----------------------------------------------------------------------------
(* Properties. *)

SomeServer == Calls \cup {None}

TypeOK ==
    /\ enabled \in BOOLEAN /\ exiting \in BOOLEAN
    /\ made \in 0..MaxCalls
    /\ kind \in [Calls -> {"start", "stop", "restart", "exit"}]
    /\ at \in [Calls -> {"none", "start", "binding", "bound", "announcing", "stop",
                         "sessions", "stopping", "unbound", "join", "leaving", "done"}]
    /\ mine \in [Calls -> SomeServer] /\ awaited \in [Calls -> SomeServer]
    /\ app \in SomeServer /\ port \in SomeServer /\ broadcast \in SomeServer
    /\ mdns \in SomeServer /\ advertised \in SomeServer
    /\ cancelled \subseteq Calls /\ loops \subseteq Calls /\ overlooked \subseteq Calls

Published(i) == at[i] \in {"announcing", "done"}

\* What holds between the calls at every step: a call that has not been made is
\* nowhere; one call at a time has the turn; a bound call has the port; the
\* published server listens, is not cancelled and has its loop once its start
\* is done; a server in a Stop's hand is cancelled and was published.
LifecycleInv ==
    /\ TypeOK
    /\ \A i \in Calls : at[i] = "none" <=> i > made
    /\ \A i, j \in Calls : at[i] \in {"start", "stop"} /\ at[j] \in {"start", "stop"} => i = j
    /\ \A i \in Calls : at[i] = "bound" => port = i
    /\ app # None => /\ Published(app) /\ port = app /\ app \notin cancelled
                     /\ at[app] = "done" => app \in loops
    /\ \A i \in Calls : mine[i] # None => mine[i] \in cancelled
    /\ \A i \in cancelled : Published(i)
    /\ \A i \in Calls : at[i] = "announcing" => app = i \/ i \in cancelled

\* A server that listens can be stopped: the field refers to it, or the call
\* that has it in hand will put it there or is about to stop it.
NoOrphanServer ==
    port # None =>
        \/ app = port
        \/ at[port] = "bound"
        \/ \E j \in Calls : mine[j] = port /\ at[j] \in {"sessions", "stopping"}

\* Never two live broadcast loops, and never one without its server: the
\* phones of a server that is on are told of every change by its loop.
OneLiveLoop ==
    /\ loops \ cancelled \subseteq {app}
    /\ Quiet /\ app # None => port = app /\ app \in loops

\* What makes it so: once the switch is off and its Stop has begun, a server
\* that is up or still comes up is one that this Stop did not see.
SwitchedOff ==
    ~enabled /\ ~exiting =>
        \/ \E i \in Calls : kind[i] = "stop" /\ at[i] = "stop"
        \/ /\ app \in overlooked \cup {None}
           /\ \A i \in Calls : ComingUp(i) => i \in overlooked

\* Off means off, unless the switch was thrown while the server was still on
\* its way up: only then does it come up in spite of the preference.
OffUnlessOverlooked == Quiet /\ ~enabled /\ ~exiting => app \in overlooked \cup {None}

\* A Stop comes to its end, or waits (for the wrong loop) while a server that
\* was started after it runs.
StopEnds ==
    \A i \in Calls : at[i] = "sessions" ~> (at[i] \in {"start", "done"} \/ app # None
                                            \/ exiting)

\* docs/hotkeys-and-tray.md: "The Tray menu offers Show, Mute/Unmute
\* Microphone, Stop All, and Exit."  Leaving the program comes to an end.
ExitEnds == exiting ~> \E i \in Calls : kind[i] = "exit" /\ at[i] = "done"
=============================================================================
