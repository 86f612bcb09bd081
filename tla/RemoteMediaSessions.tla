------------------------ MODULE RemoteMediaSessions ------------------------
(***************************************************************************)
(* The tables of WebRTC sessions: RemoteMonitorWebRtcSpikeService, through *)
(* which a phone listens, and RemotePhoneMicWebRtcSpikeService, through    *)
(* which it speaks.  Both are called by the sockets' loops, several of     *)
(* which may belong to one phone; sessions also end by themselves, when    *)
(* their peer fails, and with the server.  A session's close is long: it   *)
(* waits for the session's worker and only then releases what it used.     *)
(*                                                                         *)
(* The two differ in when they look whether they are in use, and in the    *)
(* engine's taps, which listening sessions share and phone microphones do  *)
(* not use (what those do to the engine is PhoneMicRoute).  A run is about *)
(* one of the two.  Events sent to the phone are left out.                 *)
(***************************************************************************)
EXTENDS Integers

CONSTANTS
    Phones,
    Sockets,      \* sockets' loops
    PhoneOf,      \* whose each is
    MaxSessions   \* bound: sessions made in a run

None == 0
Sessions == 1..MaxSessions

ASSUME SessionsAssumption ==
    /\ MaxSessions \in Nat /\ PhoneOf \in [Sockets -> Phones]
    /\ Sockets \cap {"none", "peer", "server"} = {}

VARIABLES
    service,      \* which of the two services this run is about
    table,        \* _sessions
    made,         \* sessions made so far
    owner, kind,  \* the phone that asked for one, and whether it needs the taps
    phase,        \* "open" until _closed is set, "closed" when CloseAsync is through
    worker,       \* the session's _nativeTapTask, _deviceWatchTask or pump of the bridge
    taps,         \* monitor_tap_enabled_ and voice_monitor_tap_enabled_
    at,           \* where a socket's loop is
    wanted,       \* the kind it is offering
    awaits,       \* the session whose close it is waiting for
    server,       \* StopAsync of the server: CloseAllAsync has begun, the sockets are closed
    doomed,       \* what CloseAllAsync took from the table and has yet to close
    \* history, for as long as a session lasts
    closer,       \* who began the close of a session
    overwritten,  \* sessions whose entry another one took over
    beside,       \* sessions beside which another was at work
    late          \* sessions entered after CloseAllAsync had emptied the table

sessions == <<made, owner, kind>>
history == <<closer, overwritten, beside, late>>
vars == <<service, table, sessions, phase, worker, taps, at, wanted, awaits, server, doomed,
          history>>

-----------------------------------------------------------------------------

Open(s) == phase[s] = "open"

\* A session that may yet do something to the taps.
Unfinished(s) == phase[s] \in {"open", "closing"} \/ worker[s] = "starting"

Init ==
    /\ service \in {"monitor", "microphone"}
    /\ table = [p \in Phones |-> None]
    /\ made = 0 /\ owner = [s \in Sessions |-> None] /\ kind = [s \in Sessions |-> "none"]
    /\ phase = [s \in Sessions |-> "none"] /\ worker = [s \in Sessions |-> "none"]
    /\ taps = FALSE
    /\ at = [h \in Sockets |-> "idle"] /\ wanted = [h \in Sockets |-> "none"]
    /\ awaits = [h \in Sockets |-> None]
    /\ server = "on" /\ doomed = {}
    /\ closer = [s \in Sessions |-> "none"]
    /\ overwritten = {} /\ beside = {} /\ late = {}

\* Session s's CloseAsync: only the first caller closes.
Close(s, by) ==
    /\ phase' = IF s # None /\ Open(s) THEN [phase EXCEPT ![s] = "closing"] ELSE phase
    /\ closer' = IF s # None /\ Open(s) THEN [closer EXCEPT ![s] = by] ELSE closer

\* Mutant: the close is not awaited.
AwaitedNot(s) == None

\* The caller waits for what it closes, and not for what others are closing.
Awaited(s) == IF s # None /\ Open(s) THEN s ELSE None

\* Mutant: the entry is removed and its session forgotten.
CloseEntryForgets(h) ==
    /\ table' = [table EXCEPT ![PhoneOf[h]] = None]
    /\ UNCHANGED <<phase, closer, awaits>>

\* CloseAsync of a phone: its entry is removed and its session closed.
CloseEntry(h) ==
    LET s == table[PhoneOf[h]] IN
    /\ table' = [table EXCEPT ![PhoneOf[h]] = None]
    /\ Close(s, h)
    /\ awaits' = [awaits EXCEPT ![h] = Awaited(s)]

Goto(h, from, to) == at[h] = from /\ at' = [at EXCEPT ![h] = to]

\* h waits for no close.
Resumes(h) == awaits[h] = None

-----------------------------------------------------------------------------
(* HandleOfferAsync and StopAsync, on a socket's loop. *)

\* An offer closes the phone's previous session first.
Offers(h) ==
    /\ server # "off" /\ Resumes(h)
    /\ Goto(h, "idle", "check")
    /\ CloseEntry(h)
    /\ UNCHANGED <<service, sessions, worker, taps, wanted, server, doomed, overwritten, beside, late>>

\* Entries of sessions that have closed by themselves count.  The microphone
\* is in use with any entry, the monitor's taps with one that needs them.
InUse(k) ==
    \E p \in Phones : table[p] # None /\ (service = "monitor" => {k, kind[table[p]]} = {"tap"})

Refused(h) ==
    /\ Resumes(h) /\ InUse("tap")
    /\ Goto(h, "check", "idle")
    /\ UNCHANGED <<service, table, sessions, phase, worker, taps, wanted, awaits, server, doomed,
                   history>>

\* The monitor's table is free; it is entered under another lock, later.
FoundFree(h, k) ==
    /\ service = "monitor" /\ Resumes(h) /\ ~InUse(k)
    /\ Goto(h, "check", "enter") /\ wanted' = [wanted EXCEPT ![h] = k]
    /\ UNCHANGED <<service, table, sessions, phase, worker, taps, awaits, server, doomed, history>>

\* The session s is made, beside others unless h has seen to their end.
Makes(h, s) ==
    /\ made < MaxSessions /\ made' = s
    /\ owner' = [owner EXCEPT ![s] = PhoneOf[h]] /\ kind' = [kind EXCEPT ![s] = wanted[h]]
    /\ beside' = beside \cup {t \in Sessions : Open(t)}
                        \cup {t \in {s} : \E o \in Sessions :
                                  Unfinished(o) /\ (closer[o] = h => worker[o] = "starting")}
    /\ wanted' = [wanted EXCEPT ![h] = "none"]

\* The microphone's check and entry are one.
Enters(h) ==
    LET s == made + 1
        p == PhoneOf[h] IN
    /\ Resumes(h)
    /\ IF service = "monitor" THEN Goto(h, "enter", "answer")
                              ELSE ~InUse("plain") /\ Goto(h, "check", "answer")
    /\ Makes(h, s)
    /\ phase' = [phase EXCEPT ![s] = "open"]
    /\ worker' = IF service = "monitor" THEN worker ELSE [worker EXCEPT ![s] = "on"]
    /\ table' = [table EXCEPT ![p] = s]
    /\ overwritten' = overwritten \cup ({table[p]} \ {None})
    /\ late' = IF server = "on" THEN late ELSE late \cup {s}
    /\ UNCHANGED <<service, taps, awaits, server, doomed, closer>>

\* A monitor mix whose levels are invalid is closed before it is entered.
RefusesLevels(h) ==
    LET s == made + 1 IN
    /\ service = "monitor" /\ wanted[h] = "tap"
    /\ Goto(h, "enter", "idle")
    /\ Makes(h, s)
    /\ phase' = [phase EXCEPT ![s] = "closing"] /\ closer' = [closer EXCEPT ![s] = h]
    /\ awaits' = [awaits EXCEPT ![h] = s]
    /\ UNCHANGED <<service, worker, table, taps, server, doomed, overwritten, late>>

Answered(h) ==
    /\ Goto(h, "answer", "idle")
    /\ UNCHANGED <<service, table, sessions, phase, worker, taps, wanted, awaits, server,
                   doomed, history>>

\* Whatever the phone's entry is by now, it is closed.
NegotiationFails(h) ==
    /\ Goto(h, "answer", "idle")
    /\ CloseEntry(h)
    /\ UNCHANGED <<service, sessions, worker, taps, wanted, server, doomed, overwritten, beside,
                   late>>

Stops(h) ==
    /\ server # "off" /\ Resumes(h) /\ table[PhoneOf[h]] # None
    /\ at[h] = "idle"
    /\ CloseEntry(h)
    /\ UNCHANGED <<service, sessions, worker, taps, at, wanted, server, doomed, overwritten,
                   beside, late>>

-----------------------------------------------------------------------------
(* A session by itself. *)

\* The peer has connected, and the phone is being told.
PeerConnects(s) ==
    /\ service = "monitor" /\ Open(s) /\ worker[s] = "none"
    /\ worker' = [worker EXCEPT ![s] = "starting"]
    /\ UNCHANGED <<service, table, sessions, phase, taps, at, wanted, awaits, server, doomed,
                   history>>

\* Whether the session has been closed meanwhile is not asked.
StartsSource(s) ==
    /\ worker[s] = "starting"
    /\ worker' = [worker EXCEPT ![s] = IF Open(s) THEN "on" ELSE "over"]
    /\ taps' = (kind[s] = "tap" \/ taps)
    /\ UNCHANGED <<service, table, sessions, phase, at, wanted, awaits, server, doomed, history>>

\* Before the taps were enabled, or after.
SourceFails(s) ==
    /\ worker[s] = "starting"
    /\ worker' = [worker EXCEPT ![s] = "over"]
    /\ taps' \in {taps, kind[s] # "tap" /\ taps}
    /\ UNCHANGED <<service, table, sessions, phase, at, wanted, awaits, server, doomed, history>>

\* The session closes itself; its entry stays.
PeerFails(s) ==
    /\ Open(s) /\ Close(s, "peer")
    /\ UNCHANGED <<service, table, sessions, worker, taps, at, wanted, awaits, server, doomed,
                   overwritten, beside, late>>

\* A monitor's worker may also fail.
WorkerEnds(s) ==
    /\ worker[s] = "on" /\ (service = "monitor" \/ phase[s] = "closing")
    /\ worker' = [worker EXCEPT ![s] = "over"]
    /\ UNCHANGED <<service, table, sessions, phase, taps, at, wanted, awaits, server, doomed,
                   history>>

\* The rest of CloseAsync: the taps are disabled, whoever uses them.
CloseEnds(s) ==
    /\ phase[s] = "closing" /\ worker[s] # "on"
    /\ phase' = [phase EXCEPT ![s] = "closed"]
    /\ taps' = (service # "monitor" /\ taps)
    /\ awaits' = [h \in Sockets |-> IF awaits[h] = s THEN None ELSE awaits[h]]
    /\ closer' = [closer EXCEPT ![s] = "none"]
    /\ overwritten' = overwritten \ {s} /\ beside' = beside \ {s} /\ late' = late \ {s}
    /\ UNCHANGED <<service, table, sessions, worker, at, wanted, server, doomed>>

-----------------------------------------------------------------------------
(* The server's StopAsync. *)

Entries == {table[p] : p \in Phones} \ {None}

\* Mutant: the table is emptied before it is copied.
StopTakesNone ==
    /\ server = "on" /\ server' = "closing"
    /\ doomed' = {}
    /\ table' = [p \in Phones |-> None]
    /\ UNCHANGED <<service, sessions, phase, worker, taps, at, wanted, awaits, history>>

StopTakesAll ==
    /\ server = "on" /\ server' = "closing"
    /\ doomed' = Entries
    /\ table' = [p \in Phones |-> None]
    /\ UNCHANGED <<service, sessions, phase, worker, taps, at, wanted, awaits, history>>

\* One after the other, each awaited unless it is being closed already.
StopCloses(s) ==
    /\ s \in doomed
    /\ \A o \in Sessions : closer[o] = "server" => phase[o] = "closed"
    /\ doomed' = doomed \ {s}
    /\ Close(s, "server")
    /\ UNCHANGED <<service, table, sessions, worker, taps, at, wanted, awaits, server,
                   overwritten, beside, late>>

\* The sockets are closed; an offer in progress goes on to its end.
StopClosesSockets ==
    /\ server = "closing" /\ doomed = {}
    /\ \A o \in Sessions : closer[o] = "server" => phase[o] = "closed"
    /\ server' = "off"
    /\ UNCHANGED <<service, table, sessions, phase, worker, taps, at, wanted, awaits, doomed,
                   history>>

-----------------------------------------------------------------------------

Next ==
    \/ \E h \in Sockets : \/ Offers(h) \/ Refused(h) \/ Enters(h)
                          \/ \E k \in {"tap", "plain"} : FoundFree(h, k)
                          \/ RefusesLevels(h) \/ Answered(h) \/ NegotiationFails(h) \/ Stops(h)
    \/ \E s \in Sessions : \/ PeerConnects(s) \/ StartsSource(s) \/ SourceFails(s)
                           \/ PeerFails(s) \/ WorkerEnds(s) \/ CloseEnds(s) \/ StopCloses(s)
    \/ StopTakesAll \/ StopClosesSockets

Spec == Init /\ [][Next]_vars

-----------------------------------------------------------------------------
(* Properties. *)

TypeOK ==
    /\ service \in {"monitor", "microphone"}
    /\ made \in 0..MaxSessions
    /\ table \in [Phones -> Sessions \cup {None}]
    /\ owner \in [Sessions -> Phones \cup {None}]
    /\ kind \in [Sessions -> {"none", "tap", "plain"}]
    /\ phase \in [Sessions -> {"none", "open", "closing", "closed"}]
    /\ worker \in [Sessions -> {"none", "starting", "on", "over"}]
    /\ taps \in BOOLEAN
    /\ at \in [Sockets -> {"idle", "check", "enter", "answer"}]
    /\ wanted \in [Sockets -> {"none", "tap", "plain"}]
    /\ awaits \in [Sockets -> Sessions \cup {None}]
    /\ server \in {"on", "closing", "off"} /\ doomed \subseteq Sessions
    /\ closer \in [Sessions -> Sockets \cup {"none", "peer", "server"}]
    /\ overwritten \subseteq Sessions /\ beside \subseteq Sessions /\ late \subseteq Sessions

\* Nothing is known of a session before it is made; from then on it is a phone's.
Unmade ==
    \A s \in Sessions :
        /\ s <= made => owner[s] \in Phones
        /\ s > made =>
               /\ phase[s] = "none" /\ worker[s] = "none" /\ closer[s] = "none"
               /\ s \notin doomed \cup overwritten \cup beside \cup late
               /\ \A p \in Phones : table[p] # s

EntriesAreOwn == \A p \in Phones : table[p] # None => owner[table[p]] = p

\* Somebody can still close every open session: it has its phone's entry, or the
\* server is about to close it, unless a second socket of the same phone has
\* entered another session over it.
Reachable ==
    \A s \in Sessions : Open(s) => s \in {table[owner[s]]} \cup doomed \cup overwritten

\* One phone speaks at a time; the sessions the server is closing speak to their end.
OneSpeaks ==
    service = "microphone" => \A s, t \in Sessions \ doomed : Open(s) /\ Open(t) => s = t

\* ... because there is one entry, which is never overwritten.
OneEntry ==
    service = "microphone" =>
        /\ \A p, q \in Phones : table[p] # None /\ table[q] # None => p = q
        /\ overwritten = {}
        /\ \A h \in Sockets : at[h] # "enter" /\ wanted[h] = "none"
        /\ \A s \in Sessions : kind[s] = "none"

\* What is still open while the server stops.
Stopping ==
    /\ server # "closing" => doomed = {}
    /\ server # "on" => \A s \in Sessions : Open(s) => s \in late \cup doomed \cup overwritten

\* A loop waits for the close that it has begun, and for nothing else.
Waiting ==
    /\ \A s \in Sessions : Open(s) => closer[s] = "none"
    /\ \A h \in Sockets, s \in Sessions :
           phase[s] = "closing" /\ closer[s] = h => awaits[h] = s
    /\ \A h \in Sockets : at[h] \in {"enter", "answer"} => Resumes(h)

\* A session beside which no other was at work has still none beside it.
StillAlone ==
    \A s, t \in Sessions : Open(s) /\ s \notin beside /\ t # s => ~Unfinished(t)

\* The inductive invariant: every open session can be closed, one phone speaks,
\* and what keeps it so.
SessionsInv ==
    /\ TypeOK /\ Unmade
    /\ EntriesAreOwn /\ Reachable
    /\ OneSpeaks /\ OneEntry
    /\ Stopping /\ Waiting /\ StillAlone

\* A phone that listens to the mix.
Listens(s) == Open(s) /\ kind[s] = "tap" /\ worker[s] = "on"

\* A phone that listens alone has the taps, whatever its earlier sessions did:
\* one that is replaced is through with them before the next one starts.
AloneHasTaps == \A s \in Sessions : Listens(s) /\ s \notin beside => taps

\* When the server is off no session is open, but one whose offer was being
\* answered after the others had been closed, or that had lost its entry.
OnlyLateOnesOutlive ==
    server = "off" => \A s \in Sessions : Open(s) => s \in late \cup overwritten

\* The service refuses a second listener because the tap "supports one Remote
\* Monitor listener at a time": the one it has keeps it for as long as it listens.
\* It does not hold: README.md, section 4.
ListenerKeepsTaps == \A s \in Sessions : Listens(s) => taps
=============================================================================
