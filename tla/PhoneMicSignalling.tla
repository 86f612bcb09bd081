------------------------- MODULE PhoneMicSignalling -------------------------
(***************************************************************************)
(* How a phone becomes the microphone: useRemotePhoneMicSpike on the phone,*)
(* its offers, answers, stops and route requests on the way over the       *)
(* WebSocket, and the desktop's session at the other end.  The composable  *)
(* is full of awaits (permission, the making of an offer, the gathering of *)
(* candidates, the application of an answer), and the user, the browser    *)
(* and the network act during each of them.                                *)
(*                                                                         *)
(* One phone.  The peer with number p makes at most one offer, and the     *)
(* session made for it has the number p as well.  Candidates are taken as  *)
(* part of the descriptions; sound, statistics and texts are left out.     *)
(* What several phones do to the table of sessions, and the steps of a     *)
(* close, are RemoteMediaSessions; what a session does with its route is   *)
(* PhoneMicRoute.                                                          *)
(***************************************************************************)
EXTENDS Naturals, Sequences

CONSTANTS
    MaxStarts,    \* bound: presses of Enable
    MaxPeers,     \* bound: peers made
    MaxSockets,   \* bound: sockets
    MaxOfBoth,    \* bound: presses of Enable and sockets together
    Room          \* bound: messages on their way to the desktop, and states on their way back

Starts == 1..MaxStarts
Peers == 1..MaxPeers
Sockets == 1..MaxSockets
None == 0

ASSUME SignallingAssumption ==
    /\ MaxStarts \in Nat /\ MaxPeers \in Nat /\ MaxSockets \in Nat \ {0}
    /\ MaxOfBoth \in Nat /\ Room \in Nat

VARIABLES
    \* useRemotePhoneMicSpike
    wants,      \* desiredActive
    start,      \* where each call of start() is
    started,    \* calls made
    stream,     \* stream, by the call that opened it
    live,       \* the streams whose track is live
    phase,      \* phase
    timer,      \* recoveryTimer is set
    peer,       \* peer
    attached,   \* peerAttached
    made,       \* peers made so far
    pc,         \* what has become of each
    offered,    \* peers with a local description
    remote,     \* the session whose answer a peer has applied
    neg,        \* negotiateExistingStream: where it is (negotiateInFlight), and its pc
    applying,   \* an answer that is being applied, and to which peer
    \* the WebSocket
    sock,       \* the phone's socket
    connected,  \* remote.isConnected
    up, down,   \* messages on their way
    \* RemotePhoneMicWebRtcSpikeService
    at,         \* a socket's loop on the desktop
    making,     \* the session for which it awaits AcceptOfferAsync
    entry,      \* the phone's session in the table
    sess,       \* the sessions
    joined,     \* sessions whose peer is connected
    sink,       \* the socket a session sends its events to
    route,      \* sessions whose route is requested
    \* history
    silent,     \* stopped, and not started since
    orphaned,   \* streams another call of start() took the place of
    armed       \* the socket that a session's offer came over; the peers made, and
                \* the socket, when its route was asked for

user == <<wants, start, started, stream, live, timer, silent, orphaned>>
peers == <<peer, attached, made, pc, offered, remote>>
net == <<sock, connected, up, down>>
desk == <<at, making, entry, sess, joined, sink, route, armed>>
vars == <<user, phase, peers, neg, applying, net, desk>>

-----------------------------------------------------------------------------

Idle == [at |-> "idle", pc |-> None]
NotApplying == [peer |-> None, session |-> None]
NotArmed == [offered |-> None, made |-> None, socket |-> None]

Init ==
    /\ wants = FALSE /\ start = [n \in Starts |-> "none"] /\ started = 0
    /\ stream = None /\ live = {} /\ phase = "idle" /\ timer = FALSE
    /\ peer = None /\ attached = FALSE /\ made = 0
    /\ pc = [p \in Peers |-> "none"] /\ offered = {} /\ remote = [p \in Peers |-> None]
    /\ neg = Idle /\ applying = NotApplying
    /\ sock = 1 /\ connected = TRUE
    /\ up = [s \in Sockets |-> <<>>] /\ down = [s \in Sockets |-> <<>>]
    /\ at = [s \in Sockets |-> IF s = 1 THEN "serving" ELSE "none"]
    /\ making = [s \in Sockets |-> None]
    /\ entry = None /\ sess = [p \in Peers |-> "none"]
    /\ joined = {} /\ sink = [p \in Peers |-> None] /\ route = {}
    /\ silent = TRUE /\ orphaned = {} /\ armed = [p \in Peers |-> NotArmed]

\* active, which the buttons look at.
Active == attached /\ phase \in {"negotiating", "connected"}

HasLiveTrack == stream # None /\ stream \in live

\* sendCommand: nothing is queued for a socket to come.
CanSend == ~connected \/ Len(up[sock]) < Room
Send(m) == up' = IF connected THEN [up EXCEPT ![sock] = Append(@, m)] ELSE up

Closed == IF peer = None THEN pc ELSE [pc EXCEPT ![peer] = "closed"]

\* resetPeer(false).
ResetPeer ==
    /\ attached' = FALSE /\ peer' = None /\ pc' = Closed
    /\ UNCHANGED <<made, offered, remote>>

\* resetPeer(true) also stops the tracks of the stream there is.
StopsTracks == live' = live \ {stream} /\ stream' = None

-----------------------------------------------------------------------------
(* negotiateExistingStream. *)

\* Its first part, up to its first await.
Negotiates ==
    /\ made < MaxPeers /\ made' = made + 1
    /\ neg' = [at |-> "offering", pc |-> made + 1]
    /\ peer' = made + 1 /\ attached' = TRUE
    /\ pc' = [Closed EXCEPT ![made + 1] = "new"]
    /\ phase' = "negotiating"
    /\ UNCHANGED <<offered, remote>>

NegFailed ==
    /\ neg' = Idle /\ phase' = "failed" /\ ResetPeer
    /\ UNCHANGED <<user, applying, net, desk>>

\* The offer is made and set, unless the peer has been closed.
NegOffers ==
    /\ neg.at = "offering"
    /\ \/ /\ pc[neg.pc] # "closed"
          /\ offered' = offered \cup {neg.pc}
          /\ neg' = [neg EXCEPT !.at = "gathering"]
          /\ UNCHANGED <<user, phase, peer, attached, made, pc, remote, applying, net, desk>>
       \/ pc[neg.pc] = "closed" /\ NegFailed

\* With its candidates, or after 3.5 seconds, the offer is sent, whatever has
\* become of its peer.
NegSends ==
    /\ neg.at = "gathering" /\ CanSend
    /\ \/ /\ connected /\ Send([type |-> "offer", peer |-> neg.pc])
          /\ neg' = Idle
          /\ UNCHANGED <<user, phase, peers, applying, sock, connected, down, desk>>
       \/ ~connected /\ NegFailed

-----------------------------------------------------------------------------
(* start, stop and the ends of tracks. *)

PressEnable ==
    /\ connected /\ ~Active
    /\ started < MaxStarts /\ started + sock < MaxOfBoth /\ started' = started + 1
    /\ start' = [start EXCEPT ![started + 1] = "info"]
    /\ silent' = FALSE
    /\ UNCHANGED <<wants, stream, live, timer, orphaned, phase, peers, neg, applying, net, desk>>

\* After refreshInfo.
AsksPermission(n) ==
    /\ start[n] = "info" /\ start' = [start EXCEPT ![n] = "asking"]
    /\ wants' = TRUE /\ timer' = FALSE /\ phase' = "requesting"
    /\ ResetPeer /\ StopsTracks
    /\ UNCHANGED <<started, silent, orphaned, neg, applying, net, desk>>

\* Whatever has happened since it was asked for, the stream is taken.
Granted(n) ==
    /\ start[n] = "asking" /\ start' = [start EXCEPT ![n] = "done"]
    /\ stream' = n /\ live' = live \cup {n}
    /\ orphaned' = orphaned \cup ({stream} \ {None})
    /\ IF neg = Idle /\ connected THEN Negotiates ELSE UNCHANGED <<phase, peers, neg>>
    /\ UNCHANGED <<wants, started, timer, silent, applying, net, desk>>

Denied(n) ==
    /\ start[n] = "asking" /\ start' = [start EXCEPT ![n] = "done"]
    /\ wants' = FALSE /\ phase' = "failed"
    /\ ResetPeer /\ StopsTracks
    /\ UNCHANGED <<started, timer, silent, orphaned, neg, applying, net, desk>>

\* The browser ends a track.
TrackEnds(n) ==
    /\ n \in live /\ live' = live \ {n} /\ CanSend
    /\ wants' = FALSE /\ phase' = "stopped"
    /\ Send([type |-> "stop"]) /\ ResetPeer
    /\ UNCHANGED <<start, started, stream, timer, silent, orphaned, neg, applying, sock,
                   connected, down, desk>>

\* Mutant: the tracks are left alone.
PressStopKeeps ==
    /\ Active \/ HasLiveTrack
    /\ CanSend
    /\ wants' = FALSE /\ timer' = FALSE /\ phase' = "stopped"
    /\ Send([type |-> "stop"]) /\ ResetPeer /\ UNCHANGED <<stream, live>>
    /\ silent' = \A n \in Starts : start[n] \in {"none", "done"}
    /\ UNCHANGED <<start, started, orphaned, neg, applying, sock, connected, down, desk>>

PressStop ==
    /\ Active \/ HasLiveTrack
    /\ CanSend
    /\ wants' = FALSE /\ timer' = FALSE /\ phase' = "stopped"
    /\ Send([type |-> "stop"]) /\ ResetPeer /\ StopsTracks
    /\ silent' = \A n \in Starts : start[n] \in {"none", "done"}
    /\ UNCHANGED <<start, started, orphaned, neg, applying, sock, connected, down, desk>>

PressRoute(enabled) ==
    /\ connected /\ CanSend
    /\ enabled => phase = "connected" /\ wants /\ HasLiveTrack
    /\ Send([type |-> "route", enabled |-> enabled, made |-> made])
    /\ UNCHANGED <<user, phase, peers, neg, applying, sock, connected, down, desk>>

-----------------------------------------------------------------------------
(* Recovery. *)

\* scheduleRecovery; a page in the background schedules nothing.
ScheduleRecovery ==
    timer' \in IF wants /\ HasLiveTrack THEN {TRUE, timer} ELSE {timer}

\* The page is shown, gets the focus, or goes online.
PageReturns ==
    /\ ScheduleRecovery
    /\ UNCHANGED <<wants, start, started, stream, live, silent, orphaned, phase, peers, neg,
                   applying, net, desk>>

\* The peer's connectionState is "connected", or "connecting" once it has an answer.
UnderWay(p) == pc[p] = "connected" \/ (pc[p] = "new" /\ remote[p] # None)

RecoverIfPossible ==
    IF /\ wants /\ HasLiveTrack /\ neg = Idle /\ connected
       /\ peer # None => ~UnderWay(peer)
    THEN Negotiates
    ELSE UNCHANGED <<phase, peers, neg>>

TimerFires ==
    /\ timer /\ timer' = FALSE
    /\ RecoverIfPossible
    /\ UNCHANGED <<wants, start, started, stream, live, silent, orphaned, applying, net, desk>>

-----------------------------------------------------------------------------
(* The phone's peer.  A peer that is no longer the present one is closed, and *)
(* its handlers are silent.                                                   *)

\* Both ends have each other's description.
Matched(p) == remote[p] = p /\ sess[p] = "open"

PeerConnects ==
    /\ peer # None /\ pc[peer] \in {"new", "lost"} /\ Matched(peer)
    /\ pc' = [pc EXCEPT ![peer] = "connected"]
    /\ timer' = FALSE /\ phase' = "connected"
    /\ UNCHANGED <<wants, start, started, stream, live, silent, orphaned, peer, attached, made,
                   offered, remote, neg, applying, net, desk>>

\* Disconnected or failed; when its ICE is, the phase is "failed" in any case.
PeerLost ==
    /\ peer # None /\ UnderWay(peer)
    /\ pc' = [pc EXCEPT ![peer] = "lost"] /\ attached' = FALSE
    /\ phase' \in {"failed"} \cup IF wants /\ HasLiveTrack THEN {} ELSE {phase}
    /\ ScheduleRecovery
    /\ UNCHANGED <<wants, start, started, stream, live, silent, orphaned, peer, made, offered,
                   remote, neg, applying, net, desk>>

\* onAnswer: an answer does not say which offer it is for.  With it comes the
\* state "negotiating".
ReceivesAnswer ==
    /\ connected /\ down[sock] # <<>> /\ Head(down[sock]).type = "answer"
    /\ applying = NotApplying
    /\ down' = [down EXCEPT ![sock] = Tail(@)]
    /\ applying' = IF peer = None THEN applying
                   ELSE [peer |-> peer, session |-> Head(down[sock]).session]
    /\ phase' = IF phase = "connected" THEN phase ELSE "negotiating"
    /\ UNCHANGED <<user, peers, neg, sock, connected, up, desk>>

\* setRemoteDescription: a peer that waits for an answer takes any.
AnswerApplied ==
    LET p == applying.peer IN
    /\ p # None /\ applying' = NotApplying
    /\ pc[p] # "closed" /\ p \in offered /\ remote[p] = None
    /\ remote' = [remote EXCEPT ![p] = applying.session]
    /\ UNCHANGED <<user, phase, peer, attached, made, pc, offered, neg, net, desk>>

\* One that does not refuses it, and the present peer is reset, be it the same
\* or not; of a closed one nothing may be heard again.
AnswerRejected ==
    LET p == applying.peer IN
    /\ p # None /\ applying' = NotApplying
    /\ \/ /\ pc[p] = "closed" \/ p \notin offered \/ remote[p] # None
          /\ phase' = "failed" /\ ResetPeer
       \/ pc[p] = "closed" /\ UNCHANGED <<phase, peers>>
    /\ UNCHANGED <<user, neg, net, desk>>

\* onState.  A session that is closed by itself is "failed" here too.
ReceivesState ==
    /\ connected /\ down[sock] # <<>> /\ Head(down[sock]).type = "state"
    /\ down' = [down EXCEPT ![sock] = Tail(@)]
    /\ LET state == Head(down[sock]).state
       IN phase' = IF state = "negotiating" /\ phase = "connected" THEN phase ELSE state
    /\ UNCHANGED <<user, peers, neg, applying, sock, connected, up, desk>>

-----------------------------------------------------------------------------
(* The WebSocket. *)

SocketLost ==
    /\ connected /\ sock < MaxSockets /\ started + sock < MaxOfBoth /\ connected' = FALSE
    /\ down' = [down EXCEPT ![sock] = <<>>]
    /\ UNCHANGED <<user, phase, peers, neg, applying, sock, up, desk>>

\* The watch on isConnected schedules a recovery.
Reconnects ==
    /\ ~connected /\ connected' = TRUE /\ sock' = sock + 1
    /\ at' = [at EXCEPT ![sock + 1] = "rebinding"]
    /\ ScheduleRecovery
    /\ UNCHANGED <<wants, start, started, stream, live, silent, orphaned, phase, peers, neg,
                   applying, up, down, making, entry, sess, joined,
                   sink, route, armed>>

\* The desktop's loop of a lost socket ends; what it has not read is lost.
LoopEnds(s) ==
    /\ at[s] \in {"serving", "rebinding"} /\ making[s] = None /\ (s # sock \/ ~connected)
    /\ at' = [at EXCEPT ![s] = "gone"] /\ up' = [up EXCEPT ![s] = <<>>]
    /\ UNCHANGED <<user, phase, peers, neg, applying, sock, connected, down, making,
                   entry, sess, joined, sink, route, armed>>

-----------------------------------------------------------------------------
(* The desktop. *)

Takes(s, type) == /\ at[s] = "serving" /\ making[s] = None
                  /\ up[s] # <<>> /\ Head(up[s]).type = type
                  /\ up' = [up EXCEPT ![s] = Tail(@)]

\* SendSafelyAsync, to the socket the session is bound to.  Only what may be said
\* without end waits for room.
Heard(p) == connected /\ sink[p] = sock
CanTell(p) == ~Heard(p) \/ Len(down[sock]) < Room
Tell(p, m) == down' = IF Heard(p) THEN [down EXCEPT ![sock] = Append(@, m)] ELSE down

CloseEntry == sess' = IF entry = None THEN sess ELSE [sess EXCEPT ![entry] = "closed"]

phoneSide == <<user, phase, peers, neg, applying, sock, connected>>

\* SendStateAsync, of the session's peer: anything but "connected" and "failed" is
\* "negotiating" to the phone.
State(p) == [type |-> "state", state |-> IF p \in joined THEN "connected" ELSE "negotiating"]

\* RebindClientAsync publishes the state to the new socket, on which nothing is yet.
Rebinds(s) ==
    /\ at[s] = "rebinding" /\ at' = [at EXCEPT ![s] = "serving"]
    /\ IF entry # None /\ sess[entry] = "open"
       THEN /\ sink' = [sink EXCEPT ![entry] = s]
            /\ down' = IF connected /\ s = sock
                       THEN [down EXCEPT ![s] = Append(@, State(entry))] ELSE down
       ELSE UNCHANGED <<sink, down>>
    /\ UNCHANGED <<phoneSide, up, making, entry, sess, joined, route, armed>>

\* Mutant: the route is carried over to the new session.
SessionRouteKept(p) == IF entry \in route THEN route \cup {p} ELSE route

\* A new session's bridge has the Windows microphone.
SessionRoute(p) == route \ {entry}

\* HandleOfferAsync: the old session is closed, the new one entered.
TakesOffer(s) ==
    LET p == Head(up[s]).peer IN
    /\ Takes(s, "offer")
    /\ entry' = p
    /\ sess' = [q \in Peers |-> CASE q = p -> "open" [] q = entry /\ q # p -> "closed"
                                  [] OTHER -> sess[q]]
    /\ sink' = [sink EXCEPT ![p] = s]
    /\ route' = SessionRoute(p)
    /\ making' = [making EXCEPT ![s] = p]
    /\ armed' = [armed EXCEPT ![p].offered = s]
    /\ UNCHANGED <<phoneSide, down, at, joined>>

\* In use by another phone, or not to be made.
RefusesOffer(s) ==
    /\ Takes(s, "offer")
    /\ CloseEntry /\ entry' = None /\ route' = route \ {entry}
    /\ UNCHANGED <<phoneSide, down, at, making, joined, sink, armed>>

\* AcceptOfferAsync: a session that has been closed meanwhile says nothing.
Answers(s) ==
    LET p == making[s] IN
    /\ p # None /\ making' = [making EXCEPT ![s] = None]
    /\ IF sess[p] = "open" THEN Tell(p, [type |-> "answer", session |-> p])
       ELSE UNCHANGED down
    /\ UNCHANGED <<phoneSide, up, at, entry, sess, joined, sink, route, armed>>

\* The phone's entry, whichever it is by now, is closed.
FailsToAnswer(s) ==
    /\ making[s] # None /\ making' = [making EXCEPT ![s] = None]
    /\ CloseEntry /\ entry' = None /\ route' = route \ {entry}
    /\ UNCHANGED <<phoneSide, up, down, at, joined, sink, armed>>

TakesStop(s) ==
    /\ Takes(s, "stop")
    /\ CloseEntry /\ entry' = None /\ route' = route \ {entry}
    /\ UNCHANGED <<phoneSide, down, at, making, joined, sink, armed>>

\* HandleRouteAsync: only a connected session's route is requested; the state is
\* told.
TakesRoute(s) ==
    LET m == Head(up[s])
        heeded == /\ entry # None /\ sess[entry] = "open"
                  /\ m.enabled => entry \in joined
    IN
    /\ Takes(s, "route")
    /\ IF heeded THEN CanTell(entry) /\ Tell(entry, State(entry)) ELSE UNCHANGED down
    /\ route' = CASE heeded /\ m.enabled -> route \cup {entry}
                  [] heeded /\ ~m.enabled -> route \ {entry}
                  [] OTHER -> route
    /\ armed' = IF heeded /\ m.enabled
                THEN [armed EXCEPT ![entry] = [@ EXCEPT !.made = m.made, !.socket = s]]
                ELSE armed
    /\ UNCHANGED <<phoneSide, at, making, entry, sess, joined, sink>>

\* HandleConnectionStateAsync.
SessionConnects(p) ==
    /\ Matched(p) /\ pc[p] \in {"new", "connected"} /\ p \notin joined
    /\ joined' = joined \cup {p}
    /\ Tell(p, [type |-> "state", state |-> "connected"])
    /\ UNCHANGED <<phoneSide, up, at, making, entry, sess, sink, route, armed>>

\* MaybePublishStats, as packets come in, and what its ICE reports before.
Publishes(p) ==
    /\ sess[p] = "open" /\ (p \in joined => pc[p] = "connected") /\ CanTell(p)
    /\ Tell(p, State(p))
    /\ UNCHANGED <<phoneSide, up, desk>>

\* Mutant: a peer that fails is only reported.
SessionCloseNot(p) == UNCHANGED <<sess, route>>

\* The session closes itself; its entry stays.
SessionClose(p) == sess' = [sess EXCEPT ![p] = "closed"] /\ route' = route \ {p}

SessionFails(p) ==
    /\ sess[p] = "open"
    /\ Tell(p, [type |-> "state", state |-> "failed"])
    /\ SessionClose(p)
    /\ UNCHANGED <<phoneSide, up, at, making, entry, joined, sink, armed>>

Serves(s) == \/ Rebinds(s) \/ TakesOffer(s) \/ RefusesOffer(s) \/ Answers(s)
             \/ FailsToAnswer(s) \/ TakesStop(s) \/ TakesRoute(s)

-----------------------------------------------------------------------------

Next ==
    \/ NegOffers \/ NegSends
    \/ PressEnable \/ PressStop
    \/ \E n \in Starts : AsksPermission(n) \/ Granted(n) \/ Denied(n) \/ TrackEnds(n)
    \/ \E enabled \in BOOLEAN : PressRoute(enabled)
    \/ PageReturns \/ TimerFires
    \/ PeerConnects \/ PeerLost \/ ReceivesAnswer \/ AnswerApplied \/ AnswerRejected
    \/ ReceivesState
    \/ SocketLost \/ Reconnects
    \/ \E s \in Sockets : LoopEnds(s) \/ Serves(s)
    \/ \E p \in Peers : SessionConnects(p) \/ Publishes(p) \/ SessionFails(p)

\* The desktop's loops run, what the phone is sent is read, and the desktop's
\* peer notices that the phone's is closed, or was never there to be reached.
Fairness ==
    /\ \A s \in Sockets : WF_vars(Serves(s))
    /\ WF_vars(ReceivesAnswer \/ ReceivesState) /\ WF_vars(AnswerApplied \/ AnswerRejected)
    /\ \A p \in Peers : WF_vars(pc[p] = "closed" /\ SessionFails(p))

Spec == Init /\ [][Next]_vars /\ Fairness

-----------------------------------------------------------------------------
(* Properties. *)

Message ==
    [type : {"offer"}, peer : Peers] \cup [type : {"stop"}]
    \cup [type : {"route"}, enabled : BOOLEAN, made : 0..MaxPeers]
Event == [type : {"answer"}, session : Peers]
         \cup [type : {"state"}, state : {"negotiating", "connected", "failed"}]

TypeOK ==
    /\ wants \in BOOLEAN /\ timer \in BOOLEAN /\ attached \in BOOLEAN
    /\ connected \in BOOLEAN /\ silent \in BOOLEAN
    /\ start \in [Starts -> {"none", "info", "asking", "done"}]
    /\ started \in 0..MaxStarts /\ made \in 0..MaxPeers /\ sock \in Sockets
    /\ stream \in Starts \cup {None} /\ live \subseteq Starts /\ orphaned \subseteq Starts
    /\ phase \in {"idle", "requesting", "negotiating", "connected", "failed", "stopped"}
    /\ peer \in Peers \cup {None}
    /\ pc \in [Peers -> {"none", "new", "connected", "lost", "closed"}]
    /\ offered \subseteq Peers /\ joined \subseteq Peers /\ route \subseteq Peers
    /\ remote \in [Peers -> Peers \cup {None}]
    /\ neg \in [at : {"idle", "offering", "gathering"}, pc : Peers \cup {None}]
    /\ applying \in [peer : Peers \cup {None}, session : Peers \cup {None}]
    /\ up \in [Sockets -> Seq(Message)] /\ down \in [Sockets -> Seq(Event)]
    /\ at \in [Sockets -> {"none", "rebinding", "serving", "gone"}]
    /\ making \in [Sockets -> Peers \cup {None}]
    /\ entry \in Peers \cup {None} /\ sess \in [Peers -> {"none", "open", "closed"}]
    /\ sink \in [Peers -> Sockets \cup {None}]
    /\ armed \in [Peers -> [offered : Sockets \cup {None}, made : 0..MaxPeers,
                           socket : Sockets \cup {None}]]

\* docs/remote-audio.md: "A recreated WebRTC session never silently re-arms the
\* Phone Mic route."  A session's route was asked for after its own offer, unless
\* the request came late, over an earlier socket than the offer.
NeverRearmed ==
    \A p \in route :
        /\ armed[p].socket # None
        /\ armed[p].made >= p \/ armed[p].socket < armed[p].offered

\* Types; every peer but the present one is closed, and the negotiation in
\* flight is that of the newest; the one session that is open is the entry, and
\* only its route is requested.
SignallingInv ==
    /\ TypeOK
    /\ \A p \in Peers : pc[p] \in {"new", "connected", "lost"} => p = peer
    /\ neg.at # "idle" => neg.pc = made
    /\ \A p \in Peers : sess[p] = "open" => p = entry
    /\ route \subseteq {p \in joined : sess[p] = "open"}
    /\ NeverRearmed

\* Once the user has stopped the phone's microphone, and no earlier press of
\* Enable is still waiting for its permission, it stays stopped until the next
\* press: no recovery, answer or event brings a peer back, and no track is live
\* but one that a second press had taken the place of.
StopIsFinal == silent => ~wants /\ peer = None /\ live \subseteq orphaned

\* ... and the desktop lets go of it, even when the stop was not heard, or an
\* offer was sent after it.
StopReleases == silent ~> ~silent \/ \A p \in Peers : sess[p] # "open"
=============================================================================
