---------------------- MODULE RemoteMediaSessionsProofs ----------------------
(***************************************************************************)
(* What holds of the tables of sessions for any phones, any number of      *)
(* sockets of each and any number of sessions.                             *)
(***************************************************************************)
EXTENDS RemoteMediaSessions, TLAPS

USE SessionsAssumption
USE DEF sessions, history, None, Sessions

\* One phone speaks because there is one entry, and it is the open session's.
LEMMA SpeaksByEntry ==
  ASSUME TypeOK', Unmade', EntriesAreOwn', Reachable', OneEntry'
  PROVE  OneSpeaks'
<1> SUFFICES ASSUME service' = "microphone", NEW s \in Sessions \ doomed',
                    NEW t \in Sessions \ doomed', Open(s)', Open(t)'
             PROVE  s = t
  BY DEF OneSpeaks
<1>1. owner'[s] \in Phones /\ owner'[t] \in Phones
  BY DEF Open, Unmade, TypeOK
<1>2. table'[owner'[s]] = s /\ table'[owner'[t]] = t
  BY <1>1 DEF Reachable, OneEntry
<1> QED
  BY <1>1, <1>2 DEF OneEntry

LEMMA InitInv == Init => SessionsInv /\ AloneHasTaps
<1> SUFFICES ASSUME Init PROVE SessionsInv /\ AloneHasTaps
  OBVIOUS
<1>1. TypeOK
  <2>1. /\ table \in [Phones -> Sessions \cup {None}]
        /\ owner \in [Sessions -> Phones \cup {None}]
        /\ kind \in [Sessions -> {"none", "tap", "plain"}]
        /\ phase \in [Sessions -> {"none", "open", "closing", "closed"}]
        /\ worker \in [Sessions -> {"none", "starting", "on", "over"}]
    BY DEF Init
  <2>2. /\ at \in [Sockets -> {"idle", "check", "enter", "answer"}]
        /\ wanted \in [Sockets -> {"none", "tap", "plain"}]
        /\ awaits \in [Sockets -> Sessions \cup {None}]
        /\ closer \in [Sessions -> Sockets \cup {"none", "peer", "server"}]
    BY DEF Init
  <2>3. service \in {"monitor", "microphone"} /\ server \in {"on", "closing", "off"}
    BY DEF Init
  <2>4. taps \in BOOLEAN
    BY DEF Init
  <2>5. made \in 0..MaxSessions
    BY DEF Init
  <2>6. /\ doomed \subseteq Sessions /\ overwritten \subseteq Sessions
        /\ beside \subseteq Sessions /\ late \subseteq Sessions
    BY DEF Init
  <2> QED
    BY <2>1, <2>2, <2>3, <2>4, <2>5, <2>6 DEF TypeOK
<1>2. Unmade /\ EntriesAreOwn /\ Reachable
  BY DEF Init, Unmade, EntriesAreOwn, Reachable, Open
<1>3. OneSpeaks /\ OneEntry /\ Stopping
  BY DEF Init, OneSpeaks, OneEntry, Stopping, Open
<1>4. Waiting /\ StillAlone /\ AloneHasTaps
  BY DEF Init, Waiting, StillAlone, AloneHasTaps, Listens, Open, Unfinished
<1> QED
  BY <1>1, <1>2, <1>3, <1>4 DEF SessionsInv

-----------------------------------------------------------------------------
(* What a phone's close does. *)

LEMMA CloseEntryInv ==
  ASSUME SessionsInv, NEW h \in Sockets, Resumes(h), CloseEntry(h),
         at' \in [Sockets -> {"idle", "check", "enter", "answer"}],
         at'[h] \in {"idle", "check"},
         \A g \in Sockets \ {h} : at'[g] = at[g],
         UNCHANGED <<service, sessions, worker, taps, wanted, server, doomed, overwritten, beside,
                     late>>
  PROVE  SessionsInv'
<1>1. TypeOK'
  BY DEF SessionsInv, TypeOK, CloseEntry, Close, Awaited
<1>2. Unmade'
  BY DEF SessionsInv, TypeOK, Unmade, CloseEntry, Close, Open
<1>3. EntriesAreOwn'
  BY DEF SessionsInv, TypeOK, EntriesAreOwn, CloseEntry, Close, Open
<1>4. Reachable'
  BY DEF SessionsInv, TypeOK, EntriesAreOwn, Reachable, Unmade, CloseEntry, Close, Open
<1>5. OneEntry'
  BY DEF SessionsInv, TypeOK, OneEntry, CloseEntry, Close, Open
<1>6. Stopping'
  BY DEF SessionsInv, TypeOK, Stopping, CloseEntry, Close, Open
<1>7. Waiting'
  BY DEF SessionsInv, TypeOK, Waiting, CloseEntry, Close, Open, Awaited, Resumes
<1>8. StillAlone'
  BY DEF SessionsInv, TypeOK, StillAlone, CloseEntry, Close, Open, Unfinished
<1>9. OneSpeaks'
  BY <1>1, <1>2, <1>3, <1>4, <1>5, SpeaksByEntry
<1> QED
  BY <1>1, <1>2, <1>3, <1>4, <1>5, <1>6, <1>7, <1>8, <1>9 DEF SessionsInv
(* The steps of a session's life. *)

\* A session is entered.
LEMMA EntersInv ==
  ASSUME SessionsInv, NEW h \in Sockets, Enters(h)
  PROVE  SessionsInv'
<1>1. TypeOK'
  <2>1. made + 1 \in Sessions /\ made' = made + 1
    BY DEF SessionsInv, TypeOK, Enters, Makes
  <2>2. beside' \subseteq Sessions
    BY <2>1 DEF SessionsInv, TypeOK, Enters, Makes
  <2>3. kind' \in [Sessions -> {"none", "tap", "plain"}]
        /\ owner' \in [Sessions -> Phones \cup {None}]
    BY <2>1 DEF SessionsInv, TypeOK, Enters, Makes
  <2>4. /\ worker' \in [Sessions -> {"none", "starting", "on", "over"}]
        /\ table' \in [Phones -> Sessions \cup {None}]
        /\ phase' \in [Sessions -> {"none", "open", "closing", "closed"}]
    BY <2>1 DEF SessionsInv, TypeOK, Enters
  <2>5. overwritten' \subseteq Sessions /\ late' \subseteq Sessions
    BY <2>1 DEF SessionsInv, TypeOK, Enters
  <2>6. /\ at' \in [Sockets -> {"idle", "check", "enter", "answer"}]
        /\ wanted' \in [Sockets -> {"none", "tap", "plain"}]
    BY DEF SessionsInv, TypeOK, Enters, Makes, Goto
  <2> QED
    BY <2>1, <2>2, <2>3, <2>4, <2>5, <2>6 DEF SessionsInv, TypeOK, Enters
<1>2. Unmade'
  BY DEF SessionsInv, TypeOK, Unmade, Open, Enters, Makes, Goto, InUse, Resumes
<1>3. EntriesAreOwn'
  BY DEF SessionsInv, TypeOK, Unmade, EntriesAreOwn, Open, Enters, Makes, Goto, InUse, Resumes
<1>4. Reachable'
  BY DEF SessionsInv, TypeOK, Unmade, EntriesAreOwn, Reachable, Open, Enters, Makes, Goto, InUse, Resumes
<1>5. OneEntry'
  <2> SUFFICES ASSUME service' = "microphone" PROVE OneEntry'
    BY DEF OneEntry
  <2>1. service = "microphone" /\ \A p \in Phones : table[p] = None
    BY DEF Enters, InUse
  <2>2. OneEntry
    BY DEF SessionsInv
  <2>0. overwritten = {} /\ table[PhoneOf[h]] = None
    BY <2>1, <2>2 DEF OneEntry
  <2>3. overwritten' = {} /\ \A p \in Phones : table'[p] # None => p = PhoneOf[h]
    <3>1. overwritten' = {}
      BY <2>0 DEF Enters
    <3>2. \A p \in Phones : table'[p] # None => p = PhoneOf[h]
      BY <2>1 DEF SessionsInv, TypeOK, Enters
    <3> QED
      BY <3>1, <3>2
  <2>4. /\ \A g \in Sockets : at'[g] # "enter" /\ wanted'[g] = "none"
        /\ \A s \in Sessions : kind'[s] = "none"
    BY <2>1, <2>2 DEF SessionsInv, TypeOK, OneEntry, Enters, Makes, Goto
  <2> QED
    BY <2>3, <2>4 DEF OneEntry
<1>6. Stopping'
  BY DEF SessionsInv, TypeOK, Unmade, Reachable, Stopping, Open, Enters, Makes, Goto, InUse, Resumes
<1>7. Waiting'
  BY DEF SessionsInv, TypeOK, Unmade, Waiting, Resumes, Open, Enters, Makes, Goto, InUse, Resumes
<1>8. StillAlone'
  BY DEF SessionsInv, TypeOK, Unmade, Waiting, StillAlone, Unfinished, Resumes, Open, Enters, Makes, Goto, InUse, Resumes
<1>9. OneSpeaks'
  BY <1>1, <1>2, <1>3, <1>4, <1>5, SpeaksByEntry
<1> QED
  BY <1>1, <1>2, <1>3, <1>4, <1>5, <1>6, <1>7, <1>8, <1>9 DEF SessionsInv

\* A session is closed before it is entered.
LEMMA RefusesLevelsInv ==
  ASSUME SessionsInv, NEW h \in Sockets, RefusesLevels(h)
  PROVE  SessionsInv'
<1>1. TypeOK'
  <2>1. made + 1 \in Sessions /\ made' = made + 1
    BY DEF SessionsInv, TypeOK, RefusesLevels, Makes
  <2>2. beside' \subseteq Sessions
    BY <2>1 DEF SessionsInv, TypeOK, RefusesLevels, Makes
  <2>3. kind' \in [Sessions -> {"none", "tap", "plain"}]
        /\ owner' \in [Sessions -> Phones \cup {None}]
    BY <2>1 DEF SessionsInv, TypeOK, RefusesLevels, Makes
  <2> QED
    BY <2>1, <2>2, <2>3 DEF SessionsInv, TypeOK, RefusesLevels, Makes, Goto
<1>2. Unmade'
  BY DEF SessionsInv, TypeOK, Unmade, Open, RefusesLevels, Makes, Goto, InUse
<1>3. EntriesAreOwn'
  BY DEF SessionsInv, TypeOK, Unmade, EntriesAreOwn, Open, RefusesLevels, Makes, Goto, InUse
<1>4. Reachable'
  BY DEF SessionsInv, TypeOK, Unmade, EntriesAreOwn, Reachable, Open, RefusesLevels, Makes, Goto, InUse
<1>5. OneEntry'
  BY DEF SessionsInv, TypeOK, OneEntry, Open, RefusesLevels, Makes, Goto, InUse
<1>6. Stopping'
  BY DEF SessionsInv, TypeOK, Unmade, Reachable, Stopping, Open, RefusesLevels, Makes, Goto, InUse
<1>7. Waiting'
  BY DEF SessionsInv, TypeOK, Unmade, Waiting, Resumes, Open, RefusesLevels, Makes, Goto, InUse
<1>8. StillAlone'
  BY DEF SessionsInv, TypeOK, Unmade, Waiting, StillAlone, Unfinished, Resumes, Open, RefusesLevels, Makes, Goto, InUse
<1>9. OneSpeaks'
  BY <1>1, <1>2, <1>3, <1>4, <1>5, SpeaksByEntry
<1> QED
  BY <1>1, <1>2, <1>3, <1>4, <1>5, <1>6, <1>7, <1>8, <1>9 DEF SessionsInv

\* A session closes itself, and keeps its entry.
LEMMA PeerFailsInv ==
  ASSUME SessionsInv, NEW s \in Sessions, PeerFails(s)
  PROVE  SessionsInv'
<1>1. TypeOK'
  BY DEF SessionsInv, TypeOK, PeerFails, Close
<1>2. Unmade'
  BY DEF SessionsInv, TypeOK, Unmade, Open, PeerFails, Close
<1>3. EntriesAreOwn'
  BY DEF SessionsInv, TypeOK, Unmade, EntriesAreOwn, Open, PeerFails, Close
<1>4. Reachable'
  BY DEF SessionsInv, TypeOK, Unmade, EntriesAreOwn, Reachable, Open, PeerFails, Close
<1>5. OneEntry'
  BY DEF SessionsInv, TypeOK, OneEntry, Open, PeerFails, Close
<1>6. Stopping'
  BY DEF SessionsInv, TypeOK, Unmade, Reachable, Stopping, Open, PeerFails, Close
<1>7. Waiting'
  BY DEF SessionsInv, TypeOK, Unmade, Waiting, Resumes, Open, PeerFails, Close
<1>8. StillAlone'
  BY DEF SessionsInv, TypeOK, Unmade, Waiting, StillAlone, Unfinished, Resumes, Open, PeerFails, Close
<1>9. OneSpeaks'
  BY <1>1, <1>2, <1>3, <1>4, <1>5, SpeaksByEntry
<1> QED
  BY <1>1, <1>2, <1>3, <1>4, <1>5, <1>6, <1>7, <1>8, <1>9 DEF SessionsInv

\* A close comes to its end.
LEMMA CloseEndsInv ==
  ASSUME SessionsInv, NEW s \in Sessions, CloseEnds(s)
  PROVE  SessionsInv'
<1>1. TypeOK'
  BY DEF SessionsInv, TypeOK, CloseEnds
<1>2. Unmade'
  BY DEF SessionsInv, TypeOK, Unmade, Open, CloseEnds
<1>3. EntriesAreOwn'
  BY DEF SessionsInv, TypeOK, Unmade, EntriesAreOwn, Open, CloseEnds
<1>4. Reachable'
  BY DEF SessionsInv, TypeOK, Unmade, EntriesAreOwn, Reachable, Open, CloseEnds
<1>5. OneEntry'
  BY DEF SessionsInv, TypeOK, OneEntry, Open, CloseEnds
<1>6. Stopping'
  BY DEF SessionsInv, TypeOK, Unmade, Reachable, Stopping, Open, CloseEnds
<1>7. Waiting'
  BY DEF SessionsInv, TypeOK, Unmade, Waiting, Resumes, Open, CloseEnds
<1>8. StillAlone'
  BY DEF SessionsInv, TypeOK, Unmade, Waiting, StillAlone, Unfinished, Resumes, Open, CloseEnds
<1>9. OneSpeaks'
  BY <1>1, <1>2, <1>3, <1>4, <1>5, SpeaksByEntry
<1> QED
  BY <1>1, <1>2, <1>3, <1>4, <1>5, <1>6, <1>7, <1>8, <1>9 DEF SessionsInv

\* The server closes one of those it took.
LEMMA StopClosesInv ==
  ASSUME SessionsInv, NEW s \in Sessions, StopCloses(s)
  PROVE  SessionsInv'
<1>1. TypeOK'
  BY DEF SessionsInv, TypeOK, StopCloses, Close
<1>2. Unmade'
  BY DEF SessionsInv, TypeOK, Unmade, Open, StopCloses, Close
<1>3. EntriesAreOwn'
  BY DEF SessionsInv, TypeOK, Unmade, EntriesAreOwn, Open, StopCloses, Close
<1>4. Reachable'
  BY DEF SessionsInv, TypeOK, Unmade, EntriesAreOwn, Reachable, Open, StopCloses, Close
<1>5. OneEntry'
  BY DEF SessionsInv, TypeOK, OneEntry, Open, StopCloses, Close
<1>6. Stopping'
  BY DEF SessionsInv, TypeOK, Unmade, Reachable, Stopping, Open, StopCloses, Close
<1>7. Waiting'
  BY DEF SessionsInv, TypeOK, Unmade, Waiting, Resumes, Open, StopCloses, Close
<1>8. StillAlone'
  BY DEF SessionsInv, TypeOK, Unmade, Waiting, StillAlone, Unfinished, Resumes, Open, StopCloses, Close
<1>9. OneSpeaks'
  BY <1>1, <1>2, <1>3, <1>4, <1>5, SpeaksByEntry
<1> QED
  BY <1>1, <1>2, <1>3, <1>4, <1>5, <1>6, <1>7, <1>8, <1>9 DEF SessionsInv

\* The server takes what is in the table.
LEMMA StopTakesAllInv ==
  ASSUME SessionsInv, StopTakesAll
  PROVE  SessionsInv'
<1>1. TypeOK'
  BY DEF SessionsInv, TypeOK, StopTakesAll, Entries
<1>2. Unmade'
  BY DEF SessionsInv, TypeOK, Unmade, Open, StopTakesAll, Entries
<1>3. EntriesAreOwn'
  BY DEF SessionsInv, TypeOK, Unmade, EntriesAreOwn, Open, StopTakesAll, Entries
<1>4. Reachable'
  BY DEF SessionsInv, TypeOK, Unmade, EntriesAreOwn, Reachable, Stopping, Open, StopTakesAll, Entries
<1>5. OneEntry'
  BY DEF SessionsInv, TypeOK, OneEntry, Open, StopTakesAll, Entries
<1>6. Stopping'
  BY DEF SessionsInv, TypeOK, Unmade, Reachable, Stopping, Open, StopTakesAll, Entries
<1>7. Waiting'
  BY DEF SessionsInv, TypeOK, Unmade, Waiting, Resumes, Open, StopTakesAll, Entries
<1>8. StillAlone'
  BY DEF SessionsInv, TypeOK, Unmade, Waiting, StillAlone, Unfinished, Resumes, Open, StopTakesAll, Entries
<1>9. OneSpeaks'
  BY <1>1, <1>2, <1>3, <1>4, <1>5, SpeaksByEntry
<1> QED
  BY <1>1, <1>2, <1>3, <1>4, <1>5, <1>6, <1>7, <1>8, <1>9 DEF SessionsInv

\* The steps that neither make nor close a session.
LEMMA OtherInv ==
  ASSUME SessionsInv,
         \/ \E h \in Sockets : \/ Refused(h) \/ Answered(h)
                               \/ \E k \in {"tap", "plain"} : FoundFree(h, k)
         \/ \E s \in Sessions : \/ PeerConnects(s) \/ StartsSource(s) \/ SourceFails(s)
                                \/ WorkerEnds(s)
         \/ StopClosesSockets
         \/ UNCHANGED vars
  PROVE  SessionsInv'
<1>1. ASSUME NEW h \in Sockets, Refused(h) \/ Answered(h)
      PROVE  SessionsInv'
  <2>1. at' \in [Sockets -> {"idle", "check", "enter", "answer"}]
        /\ at'[h] = "idle" /\ \A g \in Sockets \ {h} : at'[g] = at[g]
    BY <1>1 DEF Refused, Answered, Goto, SessionsInv, TypeOK
  <2>2. UNCHANGED <<service, table, sessions, phase, worker, taps, wanted, awaits, server, doomed,
                   history>>
    BY <1>1 DEF Refused, Answered
  <2> QED
    BY <2>1, <2>2 DEF SessionsInv, TypeOK, Unmade, EntriesAreOwn, Reachable, OneSpeaks,
       OneEntry, Stopping, Waiting, StillAlone, Open, Unfinished, Resumes
<1>2. ASSUME NEW h \in Sockets, NEW k \in {"tap", "plain"}, FoundFree(h, k)
      PROVE  SessionsInv'
  BY <1>2 DEF FoundFree, Goto, SessionsInv, TypeOK, Unmade, EntriesAreOwn, Reachable, OneSpeaks,
     OneEntry, Stopping, Waiting, StillAlone, Open, Unfinished, Resumes
<1>3. ASSUME NEW s \in Sessions,
             PeerConnects(s) \/ StartsSource(s) \/ SourceFails(s) \/ WorkerEnds(s)
      PROVE  SessionsInv'
  <2>0. TypeOK /\ Unmade
    BY DEF SessionsInv
  <2>3. taps' \in BOOLEAN
    BY <1>3, <2>0 DEF PeerConnects, StartsSource, SourceFails, WorkerEnds, TypeOK
  <2>4. PICK w \in {"starting", "on", "over"} :
           worker' = [worker EXCEPT ![s] = w] /\ (w = "starting" => Open(s))
           /\ (Open(s) \/ worker[s] # "none")
    BY <1>3 DEF PeerConnects, StartsSource, SourceFails, WorkerEnds
  <2>1. /\ worker' \in [Sessions -> {"none", "starting", "on", "over"}]
        /\ \A t \in Sessions : worker'[t] = "starting" => worker[t] = "starting" \/ Open(t)
        /\ \A t \in Sessions : t > made => worker'[t] = "none"
    BY <2>0, <2>4 DEF TypeOK, Unmade, Open
  <2>2. UNCHANGED <<service, table, sessions, phase, at, wanted, awaits, server, doomed, history>>
    BY <1>3 DEF PeerConnects, StartsSource, SourceFails, WorkerEnds
  <2> QED
    BY <2>1, <2>2, <2>3 DEF SessionsInv, TypeOK, Unmade, EntriesAreOwn, Reachable, OneSpeaks,
       OneEntry, Stopping, Waiting, StillAlone, Open, Unfinished, Resumes
<1>4. CASE StopClosesSockets
  BY <1>4 DEF StopClosesSockets, SessionsInv, TypeOK, Unmade, EntriesAreOwn, Reachable, OneSpeaks,
     OneEntry, Stopping, Waiting, StillAlone, Open, Unfinished, Resumes
<1>5. CASE UNCHANGED vars
  BY <1>5 DEF vars, SessionsInv, TypeOK, Unmade, EntriesAreOwn, Reachable, OneSpeaks,
     OneEntry, Stopping, Waiting, StillAlone, Open, Unfinished, Resumes
<1> QED
  BY <1>1, <1>2, <1>3, <1>4, <1>5

LEMMA StepInv == SessionsInv /\ [Next]_vars => SessionsInv'
<1> SUFFICES ASSUME SessionsInv, [Next]_vars PROVE SessionsInv'
  OBVIOUS
<1>1. ASSUME NEW h \in Sockets, Offers(h) \/ NegotiationFails(h) \/ Stops(h)
      PROVE  SessionsInv'
  <2>1. Resumes(h) /\ CloseEntry(h)
        /\ UNCHANGED <<service, sessions, worker, taps, wanted, server, doomed, overwritten,
                       beside, late>>
    BY <1>1 DEF Offers, NegotiationFails, Stops, Goto, SessionsInv, Waiting
  <2>2. at' \in [Sockets -> {"idle", "check", "enter", "answer"}]
        /\ at'[h] \in {"idle", "check"} /\ \A g \in Sockets \ {h} : at'[g] = at[g]
    BY <1>1 DEF Offers, NegotiationFails, Stops, Goto, SessionsInv, TypeOK
  <2> QED
    BY <2>1, <2>2, CloseEntryInv
<1> QED
  BY <1>1, EntersInv, RefusesLevelsInv, PeerFailsInv, CloseEndsInv, StopClosesInv, StopTakesAllInv,
     OtherInv DEF Next

-----------------------------------------------------------------------------
(* The taps. *)

\* What disables the taps, or is about to, is no other session than one that
\* has none beside it.
LEMMA TapsStep == SessionsInv /\ AloneHasTaps /\ [Next]_vars => AloneHasTaps'
<1> SUFFICES ASSUME SessionsInv, AloneHasTaps, [Next]_vars,
                    NEW s \in Sessions, Listens(s)', s \notin beside'
             PROVE  taps'
  BY DEF AloneHasTaps
<1>1. CASE Listens(s) /\ s \notin beside
  <2>1. taps /\ \A t \in Sessions \ {s} : ~Unfinished(t)
    BY <1>1 DEF AloneHasTaps, SessionsInv, StillAlone, Listens
  <2>2. service = "monitor"
    BY <1>1 DEF SessionsInv, TypeOK, OneEntry, Listens
  <2>3. ASSUME NEW t \in Sessions, CloseEnds(t) PROVE FALSE
    BY <2>1, <2>3, <1>1 DEF CloseEnds, Unfinished, Listens, Open
  <2>4. ASSUME NEW t \in Sessions, StartsSource(t) PROVE taps'
    BY <2>1, <2>4 DEF StartsSource
  <2>5. ASSUME NEW t \in Sessions, SourceFails(t) PROVE FALSE
    BY <2>1, <2>5, <1>1 DEF SourceFails, Unfinished, Listens
  <2> QED
    BY <2>1, <2>3, <2>4, <2>5 DEF Next, vars, Offers, Refused, Enters, FoundFree, RefusesLevels,
       Answered, NegotiationFails, Stops, PeerConnects, PeerFails, WorkerEnds, StopCloses,
       StopTakesAll, StopClosesSockets
<1>2. CASE ~(Listens(s) /\ s \notin beside)
  <2>1. service' = "monitor" /\ phase'[s] = "open" /\ kind'[s] = "tap" /\ worker'[s] = "on"
    BY StepInv DEF SessionsInv, TypeOK, OneEntry, Listens, Open
  <2>2. ASSUME NEW h \in Sockets, Enters(h) \/ RefusesLevels(h) PROVE FALSE
    <3>1. service' = service /\ worker' = worker
      BY <2>1, <2>2 DEF Enters, RefusesLevels
    <3>2. s # made + 1
      BY <2>1, <3>1 DEF SessionsInv, TypeOK, Unmade
    <3>3. phase'[s] = phase[s] /\ kind'[s] = kind[s] /\ (s \in beside => s \in beside')
      BY <2>2, <3>2 DEF Enters, RefusesLevels, Makes, SessionsInv, TypeOK
    <3> QED
      BY <1>2, <2>1, <3>1, <3>3 DEF Listens, Open
  <2>3. ASSUME NEW t \in Sessions, StartsSource(t) PROVE taps'
    BY <1>2, <2>1, <2>3 DEF StartsSource, Listens, Open, SessionsInv, TypeOK
  <2>4. ASSUME NEW t \in Sessions, CloseEnds(t) PROVE FALSE
    BY <1>2, <2>1, <2>4 DEF CloseEnds, Listens, Open, SessionsInv, TypeOK
  <2>5. ASSUME NEW h \in Sockets, Offers(h) \/ NegotiationFails(h) \/ Stops(h) PROVE FALSE
    BY <1>2, <2>1, <2>5 DEF Offers, NegotiationFails, Stops, CloseEntry, Close, Listens, Open,
       SessionsInv, TypeOK
  <2>6. ASSUME NEW t \in Sessions, PeerConnects(t) \/ SourceFails(t) \/ PeerFails(t)
                                   \/ WorkerEnds(t) \/ StopCloses(t)
        PROVE  FALSE
    BY <1>2, <2>1, <2>6 DEF PeerConnects, SourceFails, PeerFails, WorkerEnds, StopCloses, Close,
       Listens, Open, SessionsInv, TypeOK
  <2> QED
    BY <1>2, <2>1, <2>2, <2>3, <2>4, <2>5, <2>6 DEF Next, vars, Refused, FoundFree, Answered,
       StopTakesAll, StopClosesSockets, Listens, Open
<1> QED
  BY <1>1, <1>2

-----------------------------------------------------------------------------

\* However the sockets' loops, the sessions' ends and the server's stop interleave,
\* every open session has somebody who can close it, and one phone speaks.
THEOREM SessionsHold == Spec => []SessionsInv
BY InitInv, StepInv, PTL DEF Spec

\* A session that was alone when it was made keeps its taps for as long as it
\* listens: CloseAsync of the one it replaces is awaited before it is made.
THEOREM TapsHold == Spec => []AloneHasTaps
BY InitInv, StepInv, TapsStep, PTL DEF Spec

\* When the server is off no session is open but those that came after
\* CloseAllAsync had emptied the table, or had lost their entry.
THEOREM Outlive == Spec => []OnlyLateOnesOutlive
<1>1. SessionsInv => OnlyLateOnesOutlive
  BY DEF SessionsInv, Stopping, OnlyLateOnesOutlive
<1> QED
  BY <1>1, SessionsHold, PTL
=============================================================================
