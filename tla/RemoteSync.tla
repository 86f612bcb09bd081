----------------------------- MODULE RemoteSync -----------------------------
(***************************************************************************)
(* How a phone's picture of the desktop is kept up to date: the broadcast  *)
(* loop, the handshake and the message loop of a socket, and the web       *)
(* client's side of it with its timers and reconnections.  Sockets are     *)
(* lost, time out, are closed by the phone and opened anew; what is on its *)
(* way over a socket may or may not still arrive.                          *)
(*                                                                         *)
(* The desktop's state is a version number, raised by every change (the    *)
(* revision of a snapshot is never read by a phone and is left out).       *)
(* Credentials are those of RemoteAccess and taken as valid here.          *)
(* Acknowledgements of commands change nothing anyone reads.               *)
(***************************************************************************)
EXTENDS Integers, Sequences

CONSTANTS
    Phones,
    MaxSockets,   \* bound: sockets opened in a run; the last one of all is not disturbed
    MaxVersion,   \* bound: changes of the desktop's state
    Room          \* bound: messages a socket takes before a send has to wait

Sockets == 1..MaxSockets
Versions == 0..MaxVersion
None == 0
Nothing == -1   \* no snapshot

ASSUME SyncAssumption ==
    /\ MaxSockets \in Nat \ {0} /\ MaxVersion \in Nat /\ Room \in Nat \ {0}

VARIABLES
    \* the desktop
    version,    \* its state
    pending,    \* an item is in _invalidations (bounded to one, the oldest dropped)
    loop,       \* BroadcastLoopAsync: where it is, whom it has yet to tell and what
    \* the sockets, server side
    at,         \* where HandleWebSocketAsync is
    initial,    \* the first snapshot, taken and not yet sent
    \* the sockets
    opened,     \* sockets opened so far
    owner,      \* whose they are
    link,       \* "open", closed by the phone ("closed") or "lost"
    down, up,   \* messages on their way
    \* useRemoteConnection
    attached,   \* sockets whose handlers are set
    sock,       \* socket
    view,       \* connectionState
    shown,      \* snapshot
    retry,      \* reconnectTimer is set
    authTimer,  \* authTimer is set
    \* history
    heard,      \* the newest version that has arrived on the present socket
    source      \* the socket that the snapshot came from, and as which message

desktop == <<version, pending>>
handlers == <<at, initial>>
wires == <<opened, owner, link, down, up>>
client == <<attached, sock, view, shown, retry, authTimer, heard, source>>
vars == <<desktop, loop, handlers, wires, client>>

-----------------------------------------------------------------------------

Idle == [at |-> "waiting", todo |-> {}, snap |-> Nothing]

\* The places in HandleWebSocketAsync at which a socket is in _clients.
Joined == {s \in Sockets : at[s] \in {"ack", "take", "send", "serving", "executed"}}

Hello == [type |-> "hello", version |-> Nothing]
Ack == [type |-> "ack", version |-> Nothing]
First(v) == [type |-> "first", version |-> v]    \* a snapshot, of the handshake
Update(v) == [type |-> "update", version |-> v]  \* ... or of the loop

NoSource == [socket |-> None, type |-> "first"]

Disturbed == opened < MaxSockets

Init ==
    /\ version = 0 /\ pending = TRUE /\ loop = Idle
    /\ at = [s \in Sockets |-> "none"] /\ initial = [s \in Sockets |-> Nothing]
    /\ opened = 0 /\ owner = [s \in Sockets |-> None]
    /\ link = [s \in Sockets |-> "none"]
    /\ down = [s \in Sockets |-> <<>>] /\ up = [s \in Sockets |-> <<>>]
    /\ attached = {} /\ sock = [p \in Phones |-> None]
    /\ view = [p \in Phones |-> "idle"] /\ shown = [p \in Phones |-> Nothing]
    /\ retry = [p \in Phones |-> TRUE] /\ authTimer = [p \in Phones |-> FALSE]
    /\ heard = [p \in Phones |-> Nothing] /\ source = [p \in Phones |-> NoSource]

\* SendAsync: a message is sent, waits for room, or is lost with its socket.
CanSend(s) == link[s] # "open" \/ Len(down[s]) < Room
Send(s, m) == down' = IF link[s] = "open" THEN [down EXCEPT ![s] = Append(@, m)] ELSE down

Invalidate == pending' = TRUE

-----------------------------------------------------------------------------
(* The desktop and the broadcast loop. *)

Change ==
    /\ version < MaxVersion /\ version' = version + 1 /\ Invalidate
    /\ UNCHANGED <<loop, handlers, wires, client>>

LoopWakes ==
    /\ loop.at = "waiting" /\ pending
    /\ pending' = FALSE
    /\ loop' = [loop EXCEPT !.at = "delaying"]
    /\ UNCHANGED <<version, handlers, wires, client>>

\* After 35 ms: the queue is emptied again, and the clients are listed.
LoopListsClients ==
    /\ loop.at = "delaying"
    /\ pending' = FALSE
    /\ loop' = IF Joined = {} THEN Idle ELSE [loop EXCEPT !.at = "taking", !.todo = Joined]
    /\ UNCHANGED <<version, handlers, wires, client>>

\* CreateSnapshotAsync, on the UI thread.
LoopTakesSnapshot ==
    /\ loop.at = "taking"
    /\ loop' = [loop EXCEPT !.at = "sending", !.snap = version]
    /\ UNCHANGED <<desktop, handlers, wires, client>>

LoopTold(s) ==
    loop' = IF loop.todo = {s} THEN Idle ELSE [loop EXCEPT !.todo = @ \ {s}]

\* Mutant: the queue is emptied after the snapshot was taken.
LoopSendsThenDrains(s) ==
    /\ loop.at = "sending" /\ s \in loop.todo /\ CanSend(s)
    /\ LoopTold(s) /\ pending' = FALSE
    /\ Send(s, Update(loop.snap))
    /\ UNCHANGED <<version, handlers, opened, owner, link, up, client>>

\* One after the other; an error of one is swallowed.
LoopSends(s) ==
    /\ loop.at = "sending" /\ s \in loop.todo /\ CanSend(s)
    /\ LoopTold(s)
    /\ Send(s, Update(loop.snap))
    /\ UNCHANGED <<desktop, handlers, opened, owner, link, up, client>>

Loop == LoopWakes \/ LoopListsClients \/ LoopTakesSnapshot \/ \E s \in Sockets : LoopSends(s)

-----------------------------------------------------------------------------
(* HandleWebSocketAsync. *)

HandlerSends(s, m, from, to) ==
    /\ at[s] = from /\ CanSend(s)
    /\ at' = [at EXCEPT ![s] = to]
    /\ Send(s, m)
    /\ UNCHANGED <<desktop, loop, opened, owner, link, up, client>>

Greets(s) == HandlerSends(s, Hello, "hello", "auth") /\ UNCHANGED initial

\* The token is read and found valid, and the socket joins _clients.
Authenticates(s) ==
    /\ at[s] = "auth" /\ up[s] # <<>>
    /\ at' = [at EXCEPT ![s] = "ack"]
    /\ up' = [up EXCEPT ![s] = Tail(@)]
    /\ UNCHANGED <<desktop, loop, initial, opened, owner, link, down, client>>

Acknowledges(s) == HandlerSends(s, Ack, "ack", "take") /\ UNCHANGED initial

TakesInitial(s) ==
    /\ at[s] = "take"
    /\ at' = [at EXCEPT ![s] = "send"]
    /\ initial' = [initial EXCEPT ![s] = version]
    /\ UNCHANGED <<desktop, loop, wires, client>>

SendsInitial(s) ==
    /\ HandlerSends(s, First(initial[s]), "send", "serving")
    /\ initial' = [initial EXCEPT ![s] = Nothing]

\* A command is executed on the UI thread ...
Executes(s) ==
    /\ at[s] = "serving" /\ up[s] # <<>>
    /\ at' = [at EXCEPT ![s] = "executed"]
    /\ up' = [up EXCEPT ![s] = Tail(@)]
    /\ version' = IF version < MaxVersion THEN version + 1 ELSE version
    /\ Invalidate
    /\ UNCHANGED <<loop, initial, opened, owner, link, down, client>>

\* ... and, acknowledged, invalidates once more.
Executed(s) ==
    /\ at[s] = "executed"
    /\ at' = [at EXCEPT ![s] = "serving"]
    /\ Invalidate
    /\ UNCHANGED <<version, loop, initial, wires, client>>

\* The token does not come within ten seconds.
AuthTimesOut(s) ==
    /\ at[s] = "auth" /\ up[s] = <<>> /\ Disturbed
    /\ at' = [at EXCEPT ![s] = "gone"]
    /\ link' = [link EXCEPT ![s] = "lost"]
    /\ UNCHANGED <<desktop, loop, initial, opened, owner, down, up, client>>

\* The handler finds the socket lost, or reads the phone's close frame.
HandlerEnds(s) ==
    /\ at[s] \notin {"none", "gone"}
    /\ \/ link[s] = "lost"
       \/ link[s] = "closed" /\ at[s] \in {"auth", "serving"} /\ up[s] = <<>>
    /\ at' = [at EXCEPT ![s] = "gone"]
    /\ initial' = [initial EXCEPT ![s] = Nothing]
    /\ UNCHANGED <<desktop, loop, wires, client>>

Handler(s) ==
    \/ Greets(s) \/ Authenticates(s) \/ Acknowledges(s) \/ TakesInitial(s) \/ SendsInitial(s)
    \/ Executes(s) \/ Executed(s) \/ HandlerEnds(s)

Lose(s) ==
    /\ link[s] \in {"open", "closed"} /\ Disturbed
    /\ link' = [link EXCEPT ![s] = "lost"]
    /\ UNCHANGED <<desktop, loop, handlers, opened, owner, down, up, client>>

-----------------------------------------------------------------------------
(* useRemoteConnection. *)

\* closeSocket, and the timers it clears: the handlers are taken off, and a
\* closing socket delivers nothing more.
Closing(p) == sock[p] # None /\ link[sock[p]] = "open"

CloseSocket(p, l) ==
    /\ link' = IF Closing(p) THEN [l EXCEPT ![sock[p]] = "closed"] ELSE l
    /\ down' = IF Closing(p) THEN [down EXCEPT ![sock[p]] = <<>>] ELSE down

\* Mutant: the handlers are left on.
DetachedNot(p) == attached

Detached(p) == attached \ {sock[p]}

Opens(p, s) ==
    /\ opened < MaxSockets /\ opened' = s
    /\ owner' = [owner EXCEPT ![s] = p]
    /\ CloseSocket(p, [link EXCEPT ![s] = "open"])
    /\ at' = [at EXCEPT ![s] = "hello"]
    /\ attached' = Detached(p) \cup {s}
    /\ sock' = [sock EXCEPT ![p] = s]
    /\ retry' = [retry EXCEPT ![p] = FALSE] /\ authTimer' = [authTimer EXCEPT ![p] = FALSE]
    /\ heard' = [heard EXCEPT ![p] = Nothing]
    /\ UNCHANGED <<desktop, loop, initial, up, shown, source>>

\* Mutant: the state of the last connection is still displayed.
ConnectsUnseen(p) == Opens(p, opened + 1) /\ UNCHANGED view

\* connect(true).
Connects(p) == Opens(p, opened + 1) /\ view' = [view EXCEPT ![p] = "connecting"]

\* The program starts, or the reconnect timer fires.
TimerFires(p) == retry[p] /\ Connects(p)

\* The page becomes visible, or the browser goes online.
Returns(p) == view[p] # "idle" /\ Connects(p)

\* Mutant: the timer is set and then cleared with the others.
AuthTimerFiresSwapped(p) ==
    /\ authTimer[p] /\ Disturbed
    /\ authTimer' = [authTimer EXCEPT ![p] = FALSE]
    /\ CloseSocket(p, link) /\ attached' = Detached(p)
    /\ sock' = [sock EXCEPT ![p] = None]
    /\ retry' = [retry EXCEPT ![p] = FALSE]
    /\ UNCHANGED <<desktop, loop, handlers, opened, owner, up, view, shown, heard, source>>

\* The ten seconds of authTimer are over.
AuthTimerFires(p) ==
    /\ authTimer[p] /\ Disturbed
    /\ authTimer' = [authTimer EXCEPT ![p] = FALSE]
    /\ CloseSocket(p, link) /\ attached' = Detached(p)
    /\ sock' = [sock EXCEPT ![p] = None]
    /\ retry' = [retry EXCEPT ![p] = TRUE]
    /\ UNCHANGED <<desktop, loop, handlers, opened, owner, up, view, shown, heard, source>>

\* The message at the head of a socket whose handlers are on.
Arrives(s, type) == s \in attached /\ down[s] # <<>> /\ Head(down[s]).type = type

ReceivesHello(s) ==
    LET p == owner[s] IN
    /\ Arrives(s, "hello") /\ sock[p] # None
    /\ down' = [down EXCEPT ![s] = Tail(@)]
    /\ up' = IF link[sock[p]] = "open" THEN [up EXCEPT ![sock[p]] = Append(@, "auth")] ELSE up
    /\ view' = [view EXCEPT ![p] = "authenticating"]
    /\ authTimer' = [authTimer EXCEPT ![p] = TRUE]
    /\ UNCHANGED <<desktop, loop, handlers, opened, owner, link, attached, sock, shown, retry,
                   heard, source>>

ReceivesAck(s) ==
    /\ Arrives(s, "ack")
    /\ down' = [down EXCEPT ![s] = Tail(@)]
    /\ view' = [view EXCEPT ![owner[s]] = "authenticating"]
    /\ UNCHANGED <<desktop, loop, handlers, opened, owner, link, up, attached, sock, shown,
                   retry, authTimer, heard, source>>

\* The snapshot replaces the one shown, whichever is the newer.
ReceivesSnapshot(s) ==
    LET p == owner[s]
        v == Head(down[s]).version IN
    /\ Arrives(s, "first") \/ Arrives(s, "update")
    /\ down' = [down EXCEPT ![s] = Tail(@)]
    /\ shown' = [shown EXCEPT ![p] = v]
    /\ source' = [source EXCEPT ![p] = [socket |-> s, type |-> Head(down[s]).type]]
    /\ heard' = [heard EXCEPT ![p] = IF v > @ THEN v ELSE @]
    /\ view' = [view EXCEPT ![p] = "connected"]
    /\ authTimer' = [authTimer EXCEPT ![p] = FALSE]
    /\ UNCHANGED <<desktop, loop, handlers, opened, owner, link, up, attached, sock, retry>>

\* onclose: whatever was still on its way is dropped; authTimer is left alone.
OnClose(s) ==
    LET p == owner[s] IN
    /\ s \in attached /\ link[s] # "open"
    /\ attached' = attached \ {s}
    /\ down' = [down EXCEPT ![s] = <<>>]
    /\ sock' = IF sock[p] = s THEN [sock EXCEPT ![p] = None] ELSE sock
    /\ view' = [view EXCEPT ![p] = "disconnected"]
    /\ retry' = [retry EXCEPT ![p] = TRUE]
    /\ UNCHANGED <<desktop, loop, handlers, opened, owner, link, up, shown, authTimer, heard,
                   source>>

\* sendCommand, only when connected.
SendsCommand(p) ==
    /\ view[p] = "connected" /\ sock[p] # None /\ link[sock[p]] = "open"
    /\ up[sock[p]] = <<>> /\ version < MaxVersion
    /\ up' = [up EXCEPT ![sock[p]] = Append(@, "command")]
    /\ UNCHANGED <<desktop, loop, handlers, opened, owner, link, down, client>>

Receives(s) == ReceivesHello(s) \/ ReceivesAck(s) \/ ReceivesSnapshot(s) \/ OnClose(s)

-----------------------------------------------------------------------------

Next ==
    \/ Change \/ Loop
    \/ \E s \in Sockets : Handler(s) \/ AuthTimesOut(s) \/ Lose(s) \/ Receives(s)
    \/ \E p \in Phones : TimerFires(p) \/ Returns(p) \/ AuthTimerFires(p) \/ SendsCommand(p)

\* Tasks and timers run when they can, and what is sent is read.
Fairness ==
    /\ WF_vars(Loop)
    /\ \A s \in Sockets : WF_vars(Handler(s)) /\ WF_vars(Receives(s))
    /\ \A p \in Phones : WF_vars(TimerFires(p))

Spec == Init /\ [][Next]_vars /\ Fairness

-----------------------------------------------------------------------------
(* Properties. *)

SomeVersion == Versions \cup {Nothing}
SomeSocket == Sockets \cup {None}
Message == [type : {"hello", "ack", "first", "update"}, version : SomeVersion]

TypeOK ==
    /\ version \in Versions /\ pending \in BOOLEAN
    /\ loop \in [at : {"waiting", "delaying", "taking", "sending"}, todo : SUBSET Sockets,
                 snap : SomeVersion]
    /\ at \in [Sockets -> {"none", "hello", "auth", "ack", "take", "send", "serving",
                           "executed", "gone"}]
    /\ initial \in [Sockets -> SomeVersion]
    /\ opened \in 0..MaxSockets /\ owner \in [Sockets -> Phones \cup {None}]
    /\ link \in [Sockets -> {"none", "open", "closed", "lost"}]
    /\ down \in [Sockets -> Seq(Message)] /\ up \in [Sockets -> Seq({"auth", "command"})]
    /\ attached \subseteq Sockets /\ sock \in [Phones -> SomeSocket]
    /\ view \in [Phones -> {"idle", "connecting", "authenticating", "connected", "disconnected"}]
    /\ shown \in [Phones -> SomeVersion] /\ heard \in [Phones -> SomeVersion]
    /\ retry \in [Phones -> BOOLEAN] /\ authTimer \in [Phones -> BOOLEAN]
    /\ source \in [Phones -> [socket : SomeSocket, type : {"first", "update"}]]

\* A phone that says "Connected" shows what came over the socket it has now,
\* never what is left of an earlier connection.
ConnectedShowsThisSocket ==
    \A p \in Phones : view[p] = "connected" => sock[p] # None /\ source[p].socket = sock[p]

\* A phone without a socket has a timer that will open one, and a phone with
\* one has none that would tear it down: no connection is given up for good and
\* none is replaced again and again.
NeverStranded == \A p \in Phones : sock[p] = None <=> retry[p]

\* Types; only the socket a phone has now can reach its handlers, and only what came
\* over it is shown as "Connected"; no phone is stranded; a snapshot is held by whoever
\* is about to send it, and by nobody else.
SyncInv ==
    /\ TypeOK
    /\ \A s \in attached : sock[owner[s]] = s
    /\ ConnectedShowsThisSocket
    /\ NeverStranded
    /\ \A s \in Sockets : initial[s] # Nothing <=> at[s] = "send"
    /\ loop.at = "sending" => loop.snap # Nothing /\ loop.todo # {}

\* When nothing is under way a phone has had the present state, and shows it
\* unless the snapshot of the handshake arrived after a newer broadcast.
AtRest(s) ==
    /\ ~pending /\ loop.at = "waiting"
    /\ at[s] = "serving" /\ link[s] = "open" /\ down[s] = <<>>

RestIsCurrent ==
    \A p \in Phones : sock[p] # None /\ AtRest(sock[p]) =>
        /\ heard[p] = version
        /\ shown[p] = version \/ source[p].type = "first"

\* Every change reaches every phone, through losses, timeouts and reconnections.
ChangeReachesPhone ==
    \A p \in Phones, v \in Versions : version = v ~> heard[p] >= v

\* docs/remote-control.md: after a reconnection the phone "replaces its local
\* view with the latest full snapshot".
\* It does not hold: README.md, section 4.
ShowsTheLatest ==
    \A p \in Phones, v \in Versions : version = v ~> shown[p] >= v
=============================================================================
