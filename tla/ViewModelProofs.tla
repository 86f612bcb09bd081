-------------------------- MODULE ViewModelProofs --------------------------
(***************************************************************************)
(* MainViewModel keeps two lives at once, the remote server's and the      *)
(* engine's; they share the UI thread and no state, and so are two         *)
(* specifications.                                                         *)
(*                                                                         *)
(* The server, however many calls are made and in whatever order they      *)
(* interleave: the calls share the field _app; the key facts are that the  *)
(* port lets one server come up at a time, and that what a Stop takes out  *)
(* of the field is cancelled in the same turn.                             *)
(*                                                                         *)
(* The engine, for any number of user commands in flight, any microphones  *)
(* and any policy that picks among them: a Stop All taken while nothing    *)
(* else was in flight is final, and an engine shown live is never          *)
(* force-muted.                                                            *)
(***************************************************************************)
EXTENDS ServerLifecycle, EngineRecovery, TLAPS

-----------------------------------------------------------------------------
(* The server. *)

USE LifecycleAssumption

LEMMA InitInv == Init => LifecycleInv
<1> SUFFICES ASSUME Init PROVE LifecycleInv
  OBVIOUS
<1>1. 1 \in Calls /\ made \in 0..MaxCalls
  BY DEF Init, Calls
<1>2. at \in [Calls -> {"none", "start"}]
  BY DEF Init
<1>3. TypeOK
  BY <1>1, <1>2 DEF Init, TypeOK, SomeServer, None
<1> QED
  BY <1>1, <1>2, <1>3 DEF Init, LifecycleInv, None, Calls

\* A new call is the next number, and the only one that has the turn.
LEMMA CallInv ==
  ASSUME LifecycleInv, NEW k \in {"start", "stop", "restart", "exit"},
         NEW place \in {"start", "stop"}, UiFree, Call(k, place),
         enabled' \in BOOLEAN, exiting' \in BOOLEAN
  PROVE  LifecycleInv'
<1>1. made + 1 \in Calls /\ at[made + 1] = "none" /\ made' = made + 1
  BY DEF LifecycleInv, TypeOK, Call, Calls
<1>2. at' = [at EXCEPT ![made + 1] = place] /\ UNCHANGED server /\ UNCHANGED mine
  BY DEF Call, Goto
<1>3. TypeOK'
  BY <1>1, <1>2 DEF LifecycleInv, TypeOK, Call, server, Calls
<1>4. \A i \in Calls : at'[i] = "none" <=> i > made'
  BY <1>1, <1>2 DEF LifecycleInv, TypeOK, Calls
<1>5. \A i, j \in Calls :
         at'[i] \in {"start", "stop"} /\ at'[j] \in {"start", "stop"} => i = j
  BY <1>1, <1>2 DEF LifecycleInv, TypeOK, UiFree, MidTurn
<1>6. \A i \in Calls : i # made + 1 => at'[i] = at[i]
  BY <1>1, <1>2 DEF LifecycleInv, TypeOK
<1>7. at'[made + 1] = place
  BY <1>1, <1>2 DEF LifecycleInv, TypeOK
<1>8. \A i \in Calls : Published(i) => Published(i)'
  BY <1>1, <1>6 DEF Published
<1> QED
  BY <1>1, <1>2, <1>3, <1>4, <1>5, <1>6, <1>7, <1>8 DEF LifecycleInv, TypeOK, server,
     SomeServer, Calls, None

LEMMA StartInv ==
  ASSUME LifecycleInv, NEW i \in Calls, Start(i) \/ Binds(i) \/ StartFails(i)
  PROVE  LifecycleInv'
<1>1. CASE StartBegins(i)
  BY <1>1 DEF LifecycleInv, TypeOK, StartBegins, Goto, server, Published, None, Calls, SomeServer
<1>2. CASE StartFails(i)
  BY <1>2 DEF LifecycleInv, TypeOK, StartFails, Goto, server, Published, None, Calls, SomeServer
<1>3. CASE Binds(i)
  BY <1>3 DEF LifecycleInv, TypeOK, Binds, Goto, server, Published, None, Calls, SomeServer
<1>4. CASE StartPublishes(i)
  BY <1>4 DEF LifecycleInv, TypeOK, StartPublishes, OnUi, Goto, Published, None, Calls, SomeServer
<1>5. CASE StartCompletes(i)
  BY <1>5 DEF LifecycleInv, TypeOK, StartCompletes, OnUi, Goto, Published, None, Calls, SomeServer
<1> QED
  BY <1>1, <1>2, <1>3, <1>4, <1>5 DEF Start

LEMMA StopInv ==
  ASSUME LifecycleInv, NEW i \in Calls, Stop(i) \/ Unbinds(i) \/ LoopEnds(i)
  PROVE  LifecycleInv'
<1>1. CASE StopFindsNothing(i)
  <2>1. overlooked' \subseteq Calls
    BY <1>1 DEF StopFindsNothing, Overlooks, LifecycleInv, TypeOK
  <2>2. at' = [at EXCEPT ![i] = AfterStop(i)] /\ at[i] = "stop"
        /\ UNCHANGED <<enabled, kind, mine, awaited, made, server, exiting>>
    BY <1>1 DEF StopFindsNothing, Goto
  <2> QED
    BY <2>1, <2>2 DEF LifecycleInv, TypeOK, AfterStop, server, Published, None, Calls, SomeServer
<1>2. CASE StopTakes(i)
  <2>1. at' = [at EXCEPT ![i] = "sessions"] /\ mine' = [mine EXCEPT ![i] = app]
        /\ app \in Calls /\ app' = None /\ cancelled' = cancelled \cup {app}
        /\ UNCHANGED <<kind, enabled, awaited, made, port, broadcast, loops, mdns,
                       advertised, exiting>>
    BY <1>2 DEF StopTakes, Goto, LifecycleInv, TypeOK, SomeServer
  <2>2. overlooked' \subseteq Calls
    BY <1>2 DEF StopTakes, Overlooks, LifecycleInv, TypeOK
  <2>21. TypeOK'
    BY <2>1, <2>2 DEF LifecycleInv, TypeOK, SomeServer
  <2>3. \A j \in Calls : Published(j) => Published(j)'
    BY <1>2, <2>1 DEF StopTakes, Published, LifecycleInv, TypeOK
  <2>4. \A j \in Calls : j # i => at'[j] = at[j] /\ mine'[j] = mine[j]
    BY <2>1 DEF LifecycleInv, TypeOK
  <2>5. at[i] = "stop" /\ at'[i] = "sessions" /\ mine'[i] = app
    BY <1>2, <2>1 DEF StopTakes, LifecycleInv, TypeOK
  <2> QED
    BY <2>1, <2>21, <2>3, <2>4, <2>5 DEF LifecycleInv, None, TypeOK, Calls, Published
<1>3. CASE StopClosesSessions(i)
  <2>1. at' = [at EXCEPT ![i] = "stopping"] /\ at[i] = "sessions"
        /\ UNCHANGED <<enabled, kind, mine, awaited, made, server, exiting, overlooked>>
    BY <1>3 DEF StopClosesSessions, Goto
  <2>2. at'[i] = "stopping" /\ \A j \in Calls : j # i => at'[j] = at[j]
    BY <2>1 DEF LifecycleInv, TypeOK
  <2>3. TypeOK'
    BY <2>1 DEF LifecycleInv, TypeOK, server
  <2>4. ~Published(i) /\ \A j \in Calls : Published(j)' <=> Published(j)
    BY <2>1, <2>2 DEF Published
  <2>5. app # None => app \in Calls
    BY DEF LifecycleInv, TypeOK, SomeServer
  <2> QED
    <3>1. UNCHANGED <<mine, made, app, cancelled, port, loops>>
      BY <2>1 DEF server
    <3>2. app # None => Published(app)' /\ (at'[app] = "done" <=> at[app] = "done")
      BY <2>2, <2>4, <2>5, <3>1 DEF LifecycleInv
    <3>3. \A j \in cancelled : Published(j)'
      BY <2>4 DEF LifecycleInv, TypeOK
    <3>4. \A j \in Calls :
         /\ at'[j] = "none" <=> at[j] = "none"
         /\ at'[j] \in {"start", "stop"} <=> at[j] \in {"start", "stop"}
         /\ at'[j] = "bound" <=> at[j] = "bound"
         /\ at'[j] = "announcing" <=> at[j] = "announcing"
      <4> TAKE j \in Calls
      <4>1. CASE j = i
        BY <4>1, <2>1, <2>2
      <4>2. CASE j # i
        BY <4>2, <2>2
      <4> QED
        BY <4>1, <4>2
    <3>5. \A k \in Calls : at'[k] = "none" <=> k > made'
      BY <3>1, <3>4 DEF LifecycleInv
    <3>6. \A j, k \in Calls :
             at'[j] \in {"start", "stop"} /\ at'[k] \in {"start", "stop"} => j = k
      BY <3>4 DEF LifecycleInv
    <3>7. \A j \in Calls :
         /\ at'[j] = "bound" => port' = j
         /\ at'[j] = "announcing" => app' = j \/ j \in cancelled'
         /\ mine'[j] # None => mine'[j] \in cancelled'
      BY <3>1, <3>4 DEF LifecycleInv
    <3>8. app' # None =>
             /\ Published(app)' /\ port' = app' /\ app' \notin cancelled'
             /\ at'[app'] = "done" => app' \in loops'
      BY <3>1, <3>2 DEF LifecycleInv
    <3> QED
      BY <2>3, <3>1, <3>3, <3>5, <3>6, <3>7, <3>8 DEF LifecycleInv, Published
<1>4. CASE Unbinds(i)
  BY <1>4 DEF LifecycleInv, TypeOK, Unbinds, Goto, Published, None, Calls, SomeServer
<1>5. CASE StopAwaitsLoop(i)
  BY <1>5 DEF LifecycleInv, TypeOK, StopAwaitsLoop, OnUi, Goto, server, Published, None,
              Calls, SomeServer
<1>6. CASE StopJoinsLoop(i)
  BY <1>6 DEF LifecycleInv, TypeOK, StopJoinsLoop, OnUi, Goto, Published, None, Calls, SomeServer
<1>7. CASE StopCompletes(i)
  BY <1>7 DEF LifecycleInv, TypeOK, StopCompletes, AfterStop, OnUi, UiFree, MidTurn, Goto,
              Published, None, Calls, SomeServer
<1>8. CASE LoopEnds(i)
  BY <1>8 DEF LifecycleInv, TypeOK, LoopEnds, calls, Published, None, Calls, SomeServer
<1> QED
  BY <1>1, <1>2, <1>3, <1>4, <1>5, <1>6, <1>7, <1>8 DEF Stop

LEMMA StepInv == LifecycleInv /\ [Next]_vars => LifecycleInv'
<1> SUFFICES ASSUME LifecycleInv, [Next]_vars PROVE LifecycleInv'
  OBVIOUS
<1>1. CASE SetEnabled
  <2>1. CASE enabled
    BY <1>1, <2>1, CallInv DEF SetEnabled, LifecycleInv, TypeOK
  <2>2. CASE ~enabled
    BY <1>1, <2>2, CallInv DEF SetEnabled, LifecycleInv, TypeOK
  <2> QED
    BY <2>1, <2>2
<1>2. CASE RestartServer
  BY <1>2, CallInv DEF RestartServer, LifecycleInv, TypeOK
<1>3. CASE Exit
  BY <1>3, CallInv DEF Exit, LifecycleInv, TypeOK
<1>4. CASE \E i \in Calls : Proceeds(i)
  BY <1>4, StartInv, StopInv DEF Proceeds
<1>5. CASE UNCHANGED vars
  BY <1>5 DEF vars, calls, server, LifecycleInv, TypeOK, Published
<1> QED
  BY <1>1, <1>2, <1>3, <1>4, <1>5 DEF Next

\* The inductive invariant of StartAsync, StopAsync and RestartAsync.
THEOREM Lifecycle == Spec => []LifecycleInv
  BY InitInv, StepInv, PTL DEF Spec

-----------------------------------------------------------------------------
(* A server that listens can be stopped. *)

LEMMA OrphanStep == LifecycleInv /\ NoOrphanServer /\ [Next]_vars => NoOrphanServer'
<1> SUFFICES ASSUME LifecycleInv, NoOrphanServer, [Next]_vars PROVE NoOrphanServer'
  OBVIOUS
<1> USE DEF None
<1>1. CASE SetEnabled \/ RestartServer \/ Exit
  <2>1. made + 1 \in Calls /\ at[made + 1] = "none"
    BY <1>1 DEF SetEnabled, RestartServer, Exit, Call, LifecycleInv, TypeOK, Calls
  <2>2. UNCHANGED <<app, port, mine>>
    BY <1>1 DEF SetEnabled, RestartServer, Exit, Call, server
  <2>3. \A i \in Calls : i # made + 1 => at'[i] = at[i]
    BY <1>1, <2>1 DEF SetEnabled, RestartServer, Exit, Call, Goto, LifecycleInv, TypeOK
  <2> QED
    BY <2>1, <2>2, <2>3 DEF NoOrphanServer, LifecycleInv, TypeOK, SomeServer
<1>2. ASSUME NEW i \in Calls, Start(i) \/ Binds(i) \/ StartFails(i)
      PROVE  NoOrphanServer'
  <2>1. CASE StartBegins(i) \/ StartFails(i) \/ StartCompletes(i)
    BY <2>1 DEF StartBegins, StartFails, StartCompletes, OnUi, Goto, server, NoOrphanServer,
                LifecycleInv, TypeOK, SomeServer
  <2>2. CASE Binds(i)
    BY <2>2 DEF Binds, Goto, NoOrphanServer, LifecycleInv, TypeOK, SomeServer
  <2>3. CASE StartPublishes(i)
    BY <2>3 DEF StartPublishes, OnUi, NoOrphanServer, LifecycleInv
  <2> QED
    BY <1>2, <2>1, <2>2, <2>3 DEF Start
<1>3. ASSUME NEW i \in Calls, Stop(i) \/ Unbinds(i) \/ LoopEnds(i)
      PROVE  NoOrphanServer'
  <2>1. CASE StopFindsNothing(i)
    BY <2>1 DEF StopFindsNothing, AfterStop, Goto, server, NoOrphanServer,
                LifecycleInv, TypeOK, SomeServer
  <2>2. CASE StopTakes(i)
    BY <2>2 DEF StopTakes, Goto, NoOrphanServer, LifecycleInv, TypeOK, SomeServer
  <2>3. CASE StopClosesSessions(i)
    BY <2>3 DEF StopClosesSessions, Goto, server, NoOrphanServer,
                LifecycleInv, TypeOK, SomeServer
  <2>4. CASE Unbinds(i)
    BY <2>4 DEF Unbinds, Goto, NoOrphanServer, LifecycleInv, TypeOK, SomeServer
  <2>5. CASE StopAwaitsLoop(i) \/ StopJoinsLoop(i) \/ StopCompletes(i)
    BY <2>5 DEF StopAwaitsLoop, StopJoinsLoop, StopCompletes, AfterStop, OnUi, Goto, server,
                NoOrphanServer, LifecycleInv, TypeOK, SomeServer
  <2>6. CASE LoopEnds(i)
    BY <2>6 DEF LoopEnds, calls, NoOrphanServer
  <2> QED
    BY <1>3, <2>1, <2>2, <2>3, <2>4, <2>5, <2>6 DEF Stop
<1>4. CASE UNCHANGED vars
  BY <1>4 DEF vars, calls, server, NoOrphanServer
<1> QED
  BY <1>1, <1>2, <1>3, <1>4 DEF Next, Proceeds

\* Whatever calls interleave, a server that listens is in the field, is about
\* to be put there by the StartAsync that bound it, or is in the hand of a
\* StopAsync that is about to unbind it.
THEOREM NoOrphan == Spec => []NoOrphanServer
<1>1. Init => NoOrphanServer
  BY DEF Init, NoOrphanServer
<1> QED
  BY <1>1, OrphanStep, Lifecycle, PTL DEF Spec

-----------------------------------------------------------------------------
(* One live broadcast loop. *)

LiveLoop == loops \ cancelled \subseteq {app}

LEMMA LoopStep == LifecycleInv /\ LiveLoop /\ [Next]_vars => LiveLoop'
<1> SUFFICES ASSUME LifecycleInv, LiveLoop, [Next]_vars PROVE LiveLoop'
  OBVIOUS
<1> USE DEF None
<1>1. CASE SetEnabled \/ RestartServer \/ Exit
  BY <1>1 DEF SetEnabled, RestartServer, Exit, Call, server, LiveLoop
<1>2. ASSUME NEW i \in Calls, Start(i) \/ Binds(i) \/ StartFails(i)
      PROVE  LiveLoop'
  <2>1. CASE StartBegins(i) \/ StartFails(i) \/ Binds(i)
    BY <2>1 DEF StartBegins, StartFails, Binds, server, LiveLoop
  <2>2. CASE StartPublishes(i)
    <3>1. app = None
      BY <2>2 DEF StartPublishes, OnUi, LifecycleInv, Published
    <3>2. loops \ cancelled = {}
      BY <3>1 DEF LiveLoop, LifecycleInv, TypeOK, Calls
    <3> QED
      BY <2>2, <3>2 DEF StartPublishes, LiveLoop
  <2>3. CASE StartCompletes(i)
    BY <2>3 DEF StartCompletes, OnUi, LiveLoop, LifecycleInv
  <2> QED
    BY <1>2, <2>1, <2>2, <2>3 DEF Start
<1>3. ASSUME NEW i \in Calls, Stop(i) \/ Unbinds(i) \/ LoopEnds(i)
      PROVE  LiveLoop'
  BY <1>3 DEF Stop, StopFindsNothing, StopTakes, StopClosesSessions, Unbinds, StopAwaitsLoop,
              StopJoinsLoop, StopCompletes, LoopEnds, server, LiveLoop
<1>4. CASE UNCHANGED vars
  BY <1>4 DEF vars, server, LiveLoop
<1> QED
  BY <1>1, <1>2, <1>3, <1>4 DEF Next, Proceeds

\* However Stops and Starts overlap, at most one broadcast loop runs for good,
\* and when all calls have ended a server that is on has its loop.
THEOREM OneLoop == Spec => []OneLiveLoop
<1>1. Init => LiveLoop
  BY DEF Init, LiveLoop
<1>2. LifecycleInv /\ LiveLoop => OneLiveLoop
  <2> SUFFICES ASSUME LifecycleInv, LiveLoop, Quiet, app # None
               PROVE  port = app /\ app \in loops
    BY DEF OneLiveLoop, LiveLoop
  <2> QED
    BY DEF LifecycleInv, TypeOK, SomeServer, Quiet, InFlight, Published
<1> QED
  BY <1>1, <1>2, LoopStep, Lifecycle, PTL DEF Spec

-----------------------------------------------------------------------------
(* Off means off. *)

LEMMA OffStep == LifecycleInv /\ SwitchedOff /\ [Next]_vars => SwitchedOff'
<1> SUFFICES ASSUME LifecycleInv, SwitchedOff, [Next]_vars, ~enabled', ~exiting'
             PROVE  \/ \E i \in Calls : kind'[i] = "stop" /\ at'[i] = "stop"
                    \/ /\ app' \in overlooked' \cup {None}
                       /\ \A i \in Calls : ComingUp(i)' => i \in overlooked'
  BY DEF SwitchedOff, None
<1> USE DEF None
<1>1. CASE SetEnabled
  <2>1. Call("stop", "stop")
    BY <1>1 DEF SetEnabled, LifecycleInv, TypeOK
  <2>2. made + 1 \in Calls
    BY <2>1 DEF Call, LifecycleInv, TypeOK, Calls
  <2>3. kind'[made + 1] = "stop" /\ at'[made + 1] = "stop"
    BY <2>1, <2>2 DEF Call, Goto, LifecycleInv, TypeOK
  <2> QED
    BY <2>2, <2>3
<1>2. CASE RestartServer \/ Exit
  BY <1>2 DEF RestartServer, Exit
<1>3. ASSUME NEW i \in Calls, Proceeds(i)
      PROVE  \/ \E j \in Calls : kind'[j] = "stop" /\ at'[j] = "stop"
             \/ /\ app' \in overlooked' \cup {None}
                /\ \A j \in Calls : ComingUp(j)' => j \in overlooked'
  <2>0. ~enabled /\ ~exiting /\ kind' = kind
    BY <1>3 DEF Proceeds, Start, Stop, StartBegins, StartFails, Binds, StartPublishes,
       StartCompletes, StopFindsNothing, StopTakes, StopClosesSessions, Unbinds,
       StopAwaitsLoop, StopJoinsLoop, StopCompletes, LoopEnds, calls
  <2>1. CASE StopFindsNothing(i) \/ StopTakes(i)
    <3>1. app' = None /\ overlooked' = overlooked \cup {j \in Calls \ {i} : ComingUp(j)}
      BY <2>1 DEF StopFindsNothing, StopTakes, Overlooks, server
    <3>2. \A j \in Calls \ {i} : at'[j] = at[j]
      BY <2>1 DEF StopFindsNothing, StopTakes, Goto, LifecycleInv, TypeOK
    <3>3. \A j \in Calls \ {i} : ComingUp(j)' => j \in overlooked'
      BY <2>0, <3>1, <3>2 DEF ComingUp, InFlight
    <3>4. CASE kind[i] = "stop"
      <4>1. at'[i] \in {"done", "sessions"}
        BY <2>1, <3>4 DEF StopFindsNothing, StopTakes, AfterStop, Goto, LifecycleInv, TypeOK
      <4>2. ~ComingUp(i)'
        BY <2>0, <3>4, <4>1 DEF ComingUp
      <4> QED
        BY <3>1, <3>3, <4>2
    <3>5. CASE kind[i] # "stop"
      <4>1. at[i] = "stop"
        BY <2>1 DEF StopFindsNothing, StopTakes
      <4>2. ~\E j \in Calls : kind[j] = "stop" /\ at[j] = "stop"
        BY <3>5, <4>1 DEF LifecycleInv
      <4>3. ComingUp(i) => i \in overlooked
        BY <2>0, <4>2 DEF SwitchedOff
      <4>4. ComingUp(i)' => ComingUp(i)
        BY <2>0, <2>1, <4>1 DEF ComingUp, InFlight, StopFindsNothing, StopTakes, AfterStop,
           Goto, LifecycleInv, TypeOK
      <4> QED
        BY <3>1, <3>3, <4>3, <4>4
    <3> QED
      BY <3>4, <3>5
  <2>2. CASE ~(StopFindsNothing(i) \/ StopTakes(i))
    <3>1. overlooked' = overlooked
      BY <1>3, <2>2 DEF Proceeds, Start, Stop, StartBegins, StartFails, Binds, StartPublishes,
         StartCompletes, StopClosesSessions, Unbinds, StopAwaitsLoop, StopJoinsLoop,
         StopCompletes, LoopEnds
    <3>2. app' = app \/ (app' = i /\ at[i] = "bound")
      BY <1>3, <2>2 DEF Proceeds, Start, Stop, StartBegins, StartFails, Binds, StartPublishes,
         StartCompletes, StopClosesSessions, Unbinds, StopAwaitsLoop, StopJoinsLoop,
         StopCompletes, LoopEnds, OnUi, server
    <3>3. \A j \in Calls \ {i} : at'[j] = at[j]
      BY <1>3, <2>2 DEF Proceeds, Start, Stop, StartBegins, StartFails, Binds, StartPublishes,
         StartCompletes, StopClosesSessions, Unbinds, StopAwaitsLoop, StopJoinsLoop,
         StopCompletes, LoopEnds, calls, Goto, LifecycleInv, TypeOK
    <3>4. at[i] # "stop" \/ at'[i] = at[i]
      BY <1>3, <2>2 DEF Proceeds, Start, Stop, StartBegins, StartFails, Binds, StartPublishes,
         StartCompletes, StopClosesSessions, Unbinds, StopAwaitsLoop, StopJoinsLoop,
         StopCompletes, LoopEnds, OnUi, calls
    <3>5. ComingUp(i)' => ComingUp(i)
      BY <1>3, <2>0, <2>2 DEF Proceeds, Start, Stop, StartBegins, StartFails, Binds,
         StartPublishes, StartCompletes, StopClosesSessions, Unbinds, StopAwaitsLoop,
         StopJoinsLoop, StopCompletes, LoopEnds, OnUi, AfterStop, ComingUp, InFlight, calls,
         Goto, LifecycleInv, TypeOK
    <3>6. CASE \E j \in Calls : kind[j] = "stop" /\ at[j] = "stop"
      BY <2>0, <3>3, <3>4, <3>6
    <3>7. CASE ~\E j \in Calls : kind[j] = "stop" /\ at[j] = "stop"
      <4>1. app \in overlooked \cup {None} /\ \A j \in Calls : ComingUp(j) => j \in overlooked
        BY <2>0, <3>7 DEF SwitchedOff
      <4>2. \A j \in Calls : ComingUp(j)' => ComingUp(j)
        BY <2>0, <3>3, <3>5 DEF ComingUp, InFlight
      <4>3. app' \in overlooked \cup {None}
        BY <3>2, <4>1 DEF ComingUp
      <4> QED
        BY <3>1, <4>1, <4>2, <4>3
    <3> QED
      BY <3>6, <3>7
  <2> QED
    BY <2>1, <2>2
<1>4. CASE UNCHANGED vars
  BY <1>4 DEF vars, calls, server, SwitchedOff, ComingUp, InFlight
<1> QED
  BY <1>1, <1>2, <1>3, <1>4 DEF Next

\* With the switch off and no call under way the only server that can be on is
\* one that was coming up when a Stop began: StopAsync sees _app alone.
THEOREM OffMeansOff == Spec => []OffUnlessOverlooked
<1>1. Init => SwitchedOff
  BY DEF Init, SwitchedOff, ComingUp, InFlight
<1>2. SwitchedOff => OffUnlessOverlooked
  BY DEF SwitchedOff, OffUnlessOverlooked, Quiet, InFlight
<1> QED
  BY <1>1, <1>2, OffStep, Lifecycle, PTL DEF Spec

-----------------------------------------------------------------------------
(* The engine. *)

\* The initial state satisfies the invariant.
LEMMA EngineInitInv == EngineInit => RecoveryInv
  BY DEF EngineInit, RecoveryInv, EngineTypeOK, CommandPlaces,
         NeverShownLiveMuted, CleanStopLeavesNothing

USE DEF RecoveryInv, EngineTypeOK, CommandPlaces, NeverShownLiveMuted,
        CleanStopLeavesNothing, native, locals, flags

\* The user's commands, from the click to the end of the handler.
LEMMA EngineCommand ==
  ASSUME RecoveryInv, NEW c \in Commands,
         BeginStart(c) \/ BeginStop(c) \/ Command(c)
  PROVE  RecoveryInv'
  <1>1. CASE BeginStart(c) BY <1>1 DEF BeginStart, MayBegin
  <1>2. CASE PoolStarts(c) BY <1>2 DEF PoolStarts, NativeStart
  <1>3. CASE EndStart(c) BY <1>3 DEF EndStart
  <1>4. CASE EndRefusedStart(c) BY <1>4 DEF EndRefusedStart
  <1>5. CASE BeginStop(c)
    BY <1>5 DEF BeginStop, MayBegin, NothingInFlight
  <1>6. CASE PoolStops(c) BY <1>6 DEF PoolStops, NativeStop
  <1>7. CASE EndStop(c) BY <1>7 DEF EndStop
  <1> QED BY <1>1, <1>2, <1>3, <1>4, <1>5, <1>6, <1>7 DEF Command

\* A choice of microphone.
LEMMA EngineChoice == ASSUME RecoveryInv, ChooseInput PROVE RecoveryInv'
  BY DEF ChooseInput

\* The meter tick, the retry delay and the recovery.
LEMMA EngineRecovers ==
  ASSUME RecoveryInv, Tick \/ RetryFallsDue \/ Recovery
  PROVE  RecoveryInv'
  <1>1. CASE TickNoticesDeath BY <1>1 DEF TickNoticesDeath, Launch
  <1>2. CASE TickRetries BY <1>2 DEF TickRetries, Launch
  <1>3. CASE RetryFallsDue BY <1>3 DEF RetryFallsDue
  <1>4. CASE RecoveryStops BY <1>4 DEF RecoveryStops, NativeStop
  <1>5. CASE RecoveryEnumerates BY <1>5 DEF RecoveryEnumerates
  <1>6. CASE RecoverySelects BY <1>6 DEF RecoverySelects
  <1>7. CASE RecoveryStarts BY <1>7 DEF RecoveryStarts, NativeStart
  <1>8. CASE RecoveryFails BY <1>8 DEF RecoveryFails
  <1>9. CASE RecoverySucceeds BY <1>9 DEF RecoverySucceeds
  <1>10. CASE RecoveryThrows BY <1>10 DEF RecoveryThrows
  <1> QED
    BY <1>1, <1>2, <1>3, <1>4, <1>5, <1>6, <1>7, <1>8, <1>9, <1>10 DEF Tick, Recovery

\* Streams fail and microphones come and go.
LEMMA EngineDevices ==
  ASSUME RecoveryInv,
         StreamDies \/ StreamFails \/ Plug \/ Unplug
  PROVE  RecoveryInv'
  BY DEF StreamDies, StreamFails, Plug, Unplug

\* The invariant holds in every reachable state.
THEOREM EngineInvariance == EngineSpec => []RecoveryInv
  <1>1. ASSUME RecoveryInv, [EngineNext]_engineVars PROVE RecoveryInv'
    <2>1. CASE EngineNext
      BY <1>1, <2>1, EngineCommand, EngineChoice, EngineRecovers, EngineDevices
      DEF EngineNext
    <2>2. CASE UNCHANGED engineVars BY <1>1, <2>2 DEF engineVars
    <2> QED BY <1>1, <2>1, <2>2
  <1> QED BY <1>1, EngineInitInv, PTL DEF EngineSpec

\* A Stop All taken while nothing was in flight is final: no tick, retry or
\* recovery brings the engine back.
THEOREM CleanStop == EngineSpec => []CleanStopIsFinal
  <1>1. RecoveryInv => CleanStopIsFinal
    BY DEF CleanStopIsFinal, NothingInFlight
  <1> QED BY <1>1, EngineInvariance, PTL

\* An engine the view model shows as live is never left force-muted.
THEOREM NotMuted == EngineSpec => []NeverShownLiveMuted
  BY EngineInvariance, PTL
=============================================================================
