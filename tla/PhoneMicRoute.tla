--------------------------- MODULE PhoneMicRoute ---------------------------
(***************************************************************************)
(* How GrassiBoard's microphone is moved to the phone and back.  Three     *)
(* managed threads - the control socket's loop, the closing of the WebRTC  *)
(* session and the bridge's 10 ms pump - share unsynchronised flags and    *)
(* steer the native source selector, which the WASAPI worker adopts at its *)
(* next render block.  The engine may be stopped, restarted or fail at any *)
(* point.                                                                  *)
(*                                                                         *)
(* Audio is counted in blocks of OutputBlockFrames.  The one-frame drift   *)
(* corrections and the diagnostics are abstracted.                         *)
(***************************************************************************)
EXTENDS Integers

CONSTANTS
    StartupBlocks,    \* StartupJitterFrames: managed reserve of a cold start
    ReserveBlocks,    \* ManagedReserveFrames: what a refill leaves behind
    PrebufferBlocks,  \* NativePrebufferFrames = NativeTargetFillFrames
    JitterCapacity,   \* JitterCapacityFrames
    RingCapacity,     \* the native ring
    MaxRefill,        \* MaxNativeRefillBlocksPerTick
    EngineMayStop,    \* may the engine stop, fail and restart?
    SessionMayClose   \* may the peer fail or the client stop the session?

ASSUME RouteAssumption ==
    /\ StartupBlocks \in Nat /\ ReserveBlocks \in Nat
    /\ JitterCapacity \in Nat /\ RingCapacity \in Nat
    /\ PrebufferBlocks \in Nat \ {0} /\ MaxRefill \in Nat \ {0}
    /\ EngineMayStop \in BOOLEAN /\ SessionMayClose \in BOOLEAN

VARIABLES
    \* RemotePhoneMicPcmBridge
    routeRequested, routeEnabled, switchPending, started,
    pendingExpired,   \* a second has passed since _switchPendingSinceTick
    cancelled,        \* _cts
    jitter,           \* _fillFrames
    pc,               \* where the pump, the socket loop and the closing are
    seen,             \* the pump's last GetRemoteInputStatistics
    routed,           \* the pump's local routed
    refilled,         \* its refillBlocks
    \* WasapiEngine
    running, requestedMode, activeMode,
    ring,             \* fill of the remote input ring
    workerMode,       \* workerInputSourceMode, the worker's own copy of the mode
    worker, control,  \* where the worker is, and the holder of control_mutex_
    \* history
    besideReset       \* what went on beside the bridge's reset of the ring: a push,
                      \* a read; "unpublished" if its check missed the worker's copy

bridgeFlags == <<routeRequested, routeEnabled, switchPending, started>>
pumpLocals  == <<seen, routed, refilled>>
modes       == <<requestedMode, activeMode>>
engine      == <<running, modes, ring, workerMode, worker, control>>
vars == <<bridgeFlags, pendingExpired, cancelled, jitter, pc, pumpLocals,
          engine, besideReset>>

-----------------------------------------------------------------------------

Modes == {"windows", "remote"}
Threads == {"pump", "socket", "closing"}

Lesser(a, b) == IF a <= b THEN a ELSE b

\* History: an operation on the ring begins while the bridge may be resetting it.
Begins(op) == besideReset' = IF pc["socket"] = "enableStore" THEN besideReset \cup {op}
                                                            ELSE besideReset

\* Thread p moves on to place.
Goto(p, place) == pc' = [pc EXCEPT ![p] = place]
At(p, place) == pc[p] = place

\* Where a thread is when it does nothing.
Resting == [pump |-> "wait", socket |-> "idle", closing |-> "open"]
\* Where it goes after the four steps of a return to Windows.
AfterReturn == [pump |-> "wait", socket |-> "idle", closing |-> "cancel"]

Init ==
    /\ routeRequested = FALSE /\ routeEnabled = FALSE
    /\ switchPending = FALSE /\ started = FALSE
    /\ pendingExpired = TRUE /\ cancelled = FALSE
    /\ jitter = 0
    /\ pc = Resting
    /\ seen = [requested |-> "windows", active |-> "windows", fill |-> 0]
    /\ routed = FALSE /\ refilled = 0
    /\ running = FALSE
    /\ requestedMode = "windows" /\ activeMode = "windows"
    /\ ring = 0
    /\ workerMode = "windows" /\ worker = "none" /\ control = "idle"
    /\ besideReset = {}

-----------------------------------------------------------------------------
(* SetRouteEnabled(false) and FailSafeRouteToWindows write the same things   *)
(* in the same order, in whichever thread they run.                          *)

ReturnClearsRequest(p) ==
    /\ At(p, "return") /\ Goto(p, "returnFlags")
    /\ routeRequested' = FALSE
    /\ UNCHANGED <<routeEnabled, switchPending, started, pendingExpired, cancelled,
                   jitter, pumpLocals, engine, besideReset>>

ReturnClearsFlags(p) ==
    /\ At(p, "returnFlags") /\ Goto(p, "returnMode")
    /\ routeEnabled' = FALSE /\ switchPending' = FALSE /\ started' = FALSE
    /\ UNCHANGED <<routeRequested, pendingExpired, cancelled, jitter, pumpLocals,
                   engine, besideReset>>

ReturnSetsWindows(p) ==
    /\ At(p, "returnMode") /\ Goto(p, "returnBuffer")
    /\ requestedMode' = "windows"
    /\ UNCHANGED <<bridgeFlags, pendingExpired, cancelled, jitter, pumpLocals,
                   running, activeMode, ring, workerMode, worker, control, besideReset>>

ReturnResetsBuffer(p) ==
    /\ At(p, "returnBuffer") /\ Goto(p, AfterReturn[p])
    /\ jitter' = 0 /\ started' = FALSE
    /\ UNCHANGED <<routeRequested, routeEnabled, switchPending, pendingExpired,
                   cancelled, pumpLocals, engine, besideReset>>

\* Mutant: the selector first, the request last.
ReturnSelectorFirst(p) ==
    \/ /\ At(p, "return") /\ Goto(p, "returnFlags")
       /\ requestedMode' = "windows"
       /\ UNCHANGED <<bridgeFlags, pendingExpired, cancelled, jitter, pumpLocals,
                      running, activeMode, ring, workerMode, worker, control, besideReset>>
    \/ ReturnClearsFlags(p)
    \/ /\ At(p, "returnMode") /\ Goto(p, "returnBuffer")
       /\ routeRequested' = FALSE
       /\ UNCHANGED <<routeEnabled, switchPending, started, pendingExpired, cancelled,
                      jitter, pumpLocals, engine, besideReset>>
    \/ ReturnResetsBuffer(p)

Return(p) == \/ ReturnClearsRequest(p) \/ ReturnClearsFlags(p)
             \/ ReturnSetsWindows(p) \/ ReturnResetsBuffer(p)

-----------------------------------------------------------------------------
(* SetRouteEnabled(true), on the loop of the control socket. *)

SocketGoes(place) ==
    /\ Goto("socket", place)
    /\ UNCHANGED <<bridgeFlags, pendingExpired, cancelled, jitter, pumpLocals,
                   engine, besideReset>>

BeginReturn == At("socket", "idle") /\ SocketGoes("return")

\* The session is still connected and no route is requested yet.
BeginEnable ==
    /\ At("socket", "idle") /\ At("closing", "open")
    /\ ~routeRequested
    /\ SocketGoes("enableRunning")

EnableChecksRunning ==
    /\ At("socket", "enableRunning")
    /\ SocketGoes(IF running THEN "enableModes" ELSE "idle")

\* The worker has loaded Remote and not yet stored it as the active mode.
Unpublished == workerMode = "remote" /\ activeMode = "windows"

SocketGoesPast(check) ==
    /\ Goto("socket", IF check THEN "enableBuffer" ELSE "idle")
    /\ besideReset' = IF check /\ Unpublished THEN {"unpublished"} ELSE {}
    /\ UNCHANGED <<bridgeFlags, pendingExpired, cancelled, jitter, pumpLocals, engine>>

\* Mutant: trusts the requested mode alone.
EnableChecksRequestedMode ==
    At("socket", "enableModes") /\ SocketGoesPast(requestedMode = "windows")

EnableChecksModes ==
    /\ At("socket", "enableModes")
    /\ SocketGoesPast(requestedMode = "windows" /\ activeMode = "windows")

EnableResetsBuffer ==
    /\ At("socket", "enableBuffer") /\ Goto("socket", "enableReset")
    /\ jitter' = 0 /\ started' = FALSE
    /\ UNCHANGED <<routeRequested, routeEnabled, switchPending, pendingExpired,
                   cancelled, pumpLocals, engine, besideReset>>

\* The native Reset is a load and a store, see RemoteInputBuffer: what is pushed
\* in between stays, even if the engine has reset the ring since.
EnableBeginsReset ==
    /\ At("socket", "enableReset") /\ Goto("socket", "enableStore")
    /\ besideReset' = besideReset \cup (IF At("pump", "push") THEN {"push"} ELSE {})
                                  \cup (IF worker = "reading" THEN {"read"} ELSE {})
    /\ UNCHANGED <<bridgeFlags, pendingExpired, cancelled, jitter, pumpLocals, engine>>

EnableEndsReset ==
    /\ At("socket", "enableStore") /\ Goto("socket", "enableFlags")
    /\ ring' \in IF "push" \in besideReset THEN 0..RingCapacity ELSE {0}
    /\ besideReset' = {}
    /\ UNCHANGED <<bridgeFlags, pendingExpired, cancelled, jitter, pumpLocals,
                   running, modes, workerMode, worker, control>>

EnableClearsFlags ==
    /\ At("socket", "enableFlags") /\ Goto("socket", "enableRequest")
    /\ routeEnabled' = FALSE /\ switchPending' = FALSE
    /\ UNCHANGED <<routeRequested, started, pendingExpired, cancelled, jitter,
                   pumpLocals, engine, besideReset>>

EnableRequests ==
    /\ At("socket", "enableRequest") /\ Goto("socket", "idle")
    /\ routeRequested' = TRUE
    /\ UNCHANGED <<routeEnabled, switchPending, started, pendingExpired, cancelled,
                   jitter, pumpLocals, engine, besideReset>>

Enable == \/ EnableChecksRunning \/ EnableChecksModes \/ EnableResetsBuffer
          \/ EnableBeginsReset \/ EnableEndsReset \/ EnableClearsFlags
          \/ EnableRequests

-----------------------------------------------------------------------------
(* DisposeAsync: return to Windows, cancel the pump, wait for it. *)

BeginClose ==
    /\ SessionMayClose
    /\ At("closing", "open") /\ Goto("closing", "return")
    /\ UNCHANGED <<bridgeFlags, pendingExpired, cancelled, jitter, pumpLocals,
                   engine, besideReset>>

CloseCancelsPump ==
    /\ At("closing", "cancel") /\ Goto("closing", "join")
    /\ cancelled' = TRUE
    /\ UNCHANGED <<bridgeFlags, pendingExpired, jitter, pumpLocals, engine,
                   besideReset>>

CloseJoinsPump ==
    /\ At("closing", "join") /\ At("pump", "ended") /\ Goto("closing", "closed")
    /\ UNCHANGED <<bridgeFlags, pendingExpired, cancelled, jitter, pumpLocals,
                   engine, besideReset>>

-----------------------------------------------------------------------------
(* One tick of the pump. *)

PumpGoes(place) ==
    /\ Goto("pump", place)
    /\ UNCHANGED <<bridgeFlags, pendingExpired, cancelled, jitter, pumpLocals,
                   engine, besideReset>>

\* What a tick has seen and done is its own.
NothingSeen == [requested |-> "windows", active |-> "windows", fill |-> 0]
TickEnds == seen' = NothingSeen /\ routed' = FALSE /\ refilled' = 0

PumpTicks ==
    /\ At("pump", "wait") /\ ~cancelled
    /\ routeRequested
    /\ PumpGoes("running")

PumpEnds == At("pump", "wait") /\ cancelled /\ PumpGoes("ended")

\* GetRemoteInputStatistics.
Snapshot == seen' = [requested |-> requestedMode, active |-> activeMode, fill |-> ring]

PumpReadsRunning ==
    /\ At("pump", "running")
    /\ PumpGoes(IF running THEN "modes" ELSE "return")

PumpReadsModes ==
    /\ At("pump", "modes") /\ Goto("pump", "decide")
    /\ Snapshot
    /\ UNCHANGED <<bridgeFlags, pendingExpired, cancelled, jitter, routed, refilled,
                   engine, besideReset>>

\* Mutant: a pending switch is awaited without a limit.
VerdictWithoutTimeout ==
    CASE routeEnabled ->
            IF seen.active = "remote" THEN "fill" ELSE "return"
      [] ~routeEnabled /\ switchPending ->
            IF seen.active = "remote" THEN "confirm" ELSE "wait"
      [] OTHER ->
            IF seen.requested = "windows" /\ seen.active = "windows" THEN "fill"
            ELSE "return"

\* What the flags and the native selector, taken together, call for.
Verdict ==
    CASE routeEnabled ->
            IF seen.active = "remote" THEN "fill" ELSE "return"
      [] ~routeEnabled /\ switchPending ->
            IF seen.active = "remote" THEN "confirm"
            ELSE IF pendingExpired THEN "return" ELSE "wait"
      [] OTHER ->
            IF seen.requested = "windows" /\ seen.active = "windows" THEN "fill"
            ELSE "return"

PumpDecides ==
    /\ At("pump", "decide") /\ Goto("pump", Verdict)
    /\ IF Verdict \in {"wait", "return"}
       THEN TickEnds
       ELSE routed' = routeEnabled /\ refilled' = 0 /\ UNCHANGED seen
    /\ switchPending' = (switchPending /\ Verdict # "confirm")
    /\ UNCHANGED <<routeRequested, routeEnabled, started, pendingExpired, cancelled,
                   jitter, engine, besideReset>>

PumpConfirmsRoute ==
    /\ At("pump", "confirm") /\ Goto("pump", "fill")
    /\ routeEnabled' = TRUE
    /\ routed' = TRUE
    /\ UNCHANGED <<routeRequested, switchPending, started, pendingExpired, cancelled,
                   jitter, seen, refilled, engine, besideReset>>

PumpChecksStart ==
    /\ At("pump", "fill")
    /\ started' = (started \/ jitter >= StartupBlocks)
    /\ IF started' THEN Goto("pump", "refill") /\ UNCHANGED pumpLocals
                   ELSE Goto("pump", "wait") /\ TickEnds
    /\ UNCHANGED <<routeRequested, routeEnabled, switchPending, pendingExpired,
                   cancelled, jitter, engine, besideReset>>

PumpChecksRefill ==
    /\ At("pump", "refill")
    /\ PumpGoes(IF /\ seen.fill < PrebufferBlocks /\ refilled < MaxRefill
                   /\ jitter >= ReserveBlocks + 1
                THEN "take" ELSE "recheck")

\* The managed buffer may have been reset since its fill was checked.
PumpTakesBlock ==
    /\ At("pump", "take")
    /\ IF jitter > 0
       THEN /\ Goto("pump", "push") /\ jitter' = jitter - 1
            /\ Begins("push")
            /\ UNCHANGED started
       ELSE /\ Goto("pump", "recheck") /\ started' = FALSE
            /\ UNCHANGED <<jitter, besideReset>>
    /\ UNCHANGED <<routeRequested, routeEnabled, switchPending, pendingExpired,
                   cancelled, pumpLocals, engine>>

PumpPushesBlock ==
    /\ At("pump", "push")
    /\ IF ring < RingCapacity
       THEN /\ ring' = ring + 1 /\ refilled' = refilled + 1
            /\ Goto("pump", "refresh")
       ELSE Goto("pump", "recheck") /\ UNCHANGED <<ring, refilled>>
    /\ UNCHANGED <<bridgeFlags, pendingExpired, cancelled, jitter, seen, routed,
                   running, modes, workerMode, worker, control, besideReset>>

PumpRefreshes ==
    /\ At("pump", "refresh") /\ Goto("pump", "refill")
    /\ Snapshot
    /\ UNCHANGED <<bridgeFlags, pendingExpired, cancelled, jitter, routed, refilled,
                   engine, besideReset>>

PumpRechecks ==
    /\ At("pump", "recheck")
    /\ Goto("pump", IF routeRequested /\ ~routed /\ seen.fill >= PrebufferBlocks
                    THEN "switch" ELSE "wait")
    /\ TickEnds
    /\ UNCHANGED <<bridgeFlags, pendingExpired, cancelled, jitter, engine, besideReset>>

PumpSwitches ==
    /\ At("pump", "switch") /\ Goto("pump", "switched")
    /\ requestedMode' = "remote"
    /\ UNCHANGED <<bridgeFlags, pendingExpired, cancelled, jitter, pumpLocals,
                   running, activeMode, ring, workerMode, worker, control, besideReset>>

\* Mutant: the switch is always left pending.
PumpIgnoresReturn == At("pump", "switched") /\ PumpGoes("pend")

\* A concurrent Return wins over the pending switch.
PumpChecksRequest ==
    /\ At("pump", "switched")
    /\ PumpGoes(IF routeRequested THEN "pend" ELSE "undo")

PumpPends ==
    /\ At("pump", "pend") /\ Goto("pump", "wait")
    /\ pendingExpired' = FALSE
    /\ switchPending' = TRUE
    /\ UNCHANGED <<routeRequested, routeEnabled, started, cancelled, jitter,
                   pumpLocals, engine, besideReset>>

\* Mutant: the switch is forgotten, not undone.
PumpForgets == At("pump", "undo") /\ PumpGoes("undoFlags")

PumpUndoes ==
    /\ At("pump", "undo") /\ Goto("pump", "undoFlags")
    /\ requestedMode' = "windows"
    /\ UNCHANGED <<bridgeFlags, pendingExpired, cancelled, jitter, pumpLocals,
                   running, activeMode, ring, workerMode, worker, control, besideReset>>

PumpUndoesFlags ==
    /\ At("pump", "undoFlags") /\ Goto("pump", "wait")
    /\ switchPending' = FALSE /\ routeEnabled' = FALSE
    /\ UNCHANGED <<routeRequested, started, pendingExpired, cancelled, jitter,
                   pumpLocals, engine, besideReset>>

Pump == \/ PumpTicks \/ PumpEnds \/ PumpReadsRunning \/ PumpReadsModes
        \/ PumpDecides \/ PumpConfirmsRoute \/ PumpChecksStart \/ PumpChecksRefill
        \/ PumpTakesBlock \/ PumpPushesBlock \/ PumpRefreshes \/ PumpRechecks
        \/ PumpSwitches \/ PumpChecksRequest \/ PumpPends \/ PumpUndoes
        \/ PumpUndoesFlags

-----------------------------------------------------------------------------
(* What arrives from outside: decoded audio (a full buffer drops its oldest  *)
(* block) and the passing of time.                                           *)

PushDecoded ==
    /\ jitter < JitterCapacity
    /\ jitter' = jitter + 1
    /\ UNCHANGED <<bridgeFlags, pendingExpired, cancelled, pc, pumpLocals, engine,
                   besideReset>>

SecondPasses ==
    /\ ~pendingExpired
    /\ pendingExpired' = TRUE
    /\ UNCHANGED <<bridgeFlags, cancelled, jitter, pc, pumpLocals, engine,
                   besideReset>>

-----------------------------------------------------------------------------
(* WasapiEngine: Start and Stop under control_mutex_, and the worker. *)

bridge == <<bridgeFlags, pendingExpired, cancelled, jitter, pc, pumpLocals>>

\* A worker that ended by itself is still joinable: Start refuses it.
BeginStart ==
    /\ control = "idle" /\ worker = "none" /\ ~running
    /\ requestedMode' = "windows" /\ activeMode' = "windows" /\ ring' = 0
    /\ control' = "starting" /\ worker' = "init"
    /\ UNCHANGED <<bridge, running, workerMode, besideReset>>

StartFails ==
    /\ worker = "init" /\ control = "starting"
    /\ worker' = "none" /\ control' = "idle"
    /\ UNCHANGED <<bridge, running, modes, ring, workerMode, besideReset>>

StartSucceeds ==
    /\ worker = "init" /\ control = "starting"
    /\ running' = TRUE
    /\ worker' = "entering" /\ control' = "idle"
    /\ UNCHANGED <<bridge, modes, ring, workerMode, besideReset>>

\* The worker takes a copy of the requested mode and then publishes it: other
\* threads act in between.
WorkerLoadsMode ==
    /\ worker = "entering" /\ worker' = "entered"
    /\ workerMode' = requestedMode
    /\ UNCHANGED <<bridge, running, modes, ring, control, besideReset>>

WorkerEntersLoop ==
    /\ worker = "entered" /\ worker' = "loop"
    /\ activeMode' = workerMode
    /\ UNCHANGED <<bridge, running, requestedMode, ring, workerMode, control, besideReset>>

\* The block is read from the ring if the worker's copy is the phone; the read
\* counts as begun with the step before it, the earliest it can.
BeginsBlock == IF workerMode' = "remote" THEN worker' = "reading" /\ Begins("read")
                                         ELSE worker' = "loop" /\ UNCHANGED besideReset

\* A render block compares the requested mode with the worker's copy.
RenderKeepsMode ==
    /\ worker = "loop" /\ requestedMode = workerMode
    /\ UNCHANGED workerMode
    /\ BeginsBlock
    /\ UNCHANGED <<bridge, running, modes, ring, control>>

RenderLoadsMode ==
    /\ worker = "loop" /\ worker' = "adopting"
    /\ requestedMode # workerMode
    /\ workerMode' = requestedMode
    /\ UNCHANGED <<bridge, running, modes, ring, control, besideReset>>

RenderAdoptsMode ==
    /\ worker = "adopting"
    /\ activeMode' = workerMode
    /\ UNCHANGED workerMode
    /\ BeginsBlock
    /\ UNCHANGED <<bridge, running, requestedMode, ring, control>>

RenderEnds ==
    /\ worker = "reading" /\ worker' = "loop"
    /\ ring' = ring - Lesser(ring, 1)
    /\ UNCHANGED <<bridge, running, modes, workerMode, control, besideReset>>

\* The device fails, or the stop event is signalled; the worker's copy is gone.
WorkerLeavesLoop ==
    /\ worker = "loop" /\ worker' = "leaving"
    /\ control = "stopping" \/ EngineMayStop
    /\ running' = FALSE
    /\ workerMode' = "windows"
    /\ UNCHANGED <<bridge, modes, ring, control, besideReset>>

WorkerRestoresModes ==
    /\ worker = "leaving" /\ worker' = "resetting"
    /\ requestedMode' = "windows" /\ activeMode' = "windows"
    /\ UNCHANGED <<bridge, running, ring, workerMode, control, besideReset>>

WorkerEnds ==
    /\ worker = "resetting" /\ worker' = "ended"
    /\ ring' = 0
    /\ UNCHANGED <<bridge, running, modes, workerMode, control, besideReset>>

BeginStop ==
    /\ EngineMayStop
    /\ control = "idle" /\ worker # "none"
    /\ control' = "stopping"
    /\ UNCHANGED <<bridge, running, modes, ring, workerMode, worker, besideReset>>

StopJoins ==
    /\ control = "stopping" /\ worker = "ended"
    /\ worker' = "none" /\ control' = "idle"
    /\ running' = FALSE
    /\ UNCHANGED <<bridge, modes, ring, workerMode, besideReset>>

WorkerSteps == \/ WorkerLoadsMode \/ WorkerEntersLoop
               \/ RenderKeepsMode \/ RenderLoadsMode \/ RenderAdoptsMode \/ RenderEnds
               \/ WorkerRestoresModes \/ WorkerEnds

Stopping == (control = "stopping" /\ WorkerLeavesLoop) \/ StopJoins

Starting == StartFails \/ StartSucceeds

Engine == \/ WorkerSteps \/ WorkerLeavesLoop \/ StopJoins \/ Starting
          \/ BeginStart \/ BeginStop

-----------------------------------------------------------------------------

Next == \/ \E p \in Threads : Return(p)
        \/ BeginReturn \/ BeginEnable \/ Enable
        \/ BeginClose \/ CloseCancelsPump \/ CloseJoinsPump
        \/ Pump
        \/ PushDecoded \/ SecondPasses
        \/ Engine

\* An operation that has begun finishes, the pump's timer ticks, time passes,
\* the render thread is scheduled, and a signalled stop is seen.  Nothing is
\* promised about beginning an operation.
Fairness ==
    /\ \A p \in Threads : WF_vars(Return(p))
    /\ WF_vars(Enable)
    /\ WF_vars(CloseCancelsPump) /\ WF_vars(CloseJoinsPump)
    /\ WF_vars(Pump)
    /\ WF_vars(SecondPasses)
    /\ WF_vars(WorkerSteps) /\ WF_vars(Stopping) /\ WF_vars(Starting)

Spec == Init /\ [][Next]_vars

FairSpec == Spec /\ Fairness

\* The phone's RTP packets keep arriving.
PhoneSends == WF_vars(PushDecoded)
TalkingSpec == FairSpec /\ PhoneSends

-----------------------------------------------------------------------------
(* Properties. *)

\* The places of the threads.
Returning == {"return", "returnFlags", "returnMode", "returnBuffer"}
PumpPlaces == {"wait", "ended", "running", "modes", "decide", "confirm", "fill",
               "refill", "take", "push", "refresh", "recheck", "switch",
               "switched", "pend", "undo", "undoFlags"} \cup Returning
SocketPlaces == {"idle", "enableRunning", "enableModes", "enableBuffer", "enableReset",
                 "enableStore", "enableFlags", "enableRequest"} \cup Returning
ClosingPlaces == {"open", "cancel", "join", "closed"} \cup Returning

PlacesOK == /\ DOMAIN pc = Threads
            /\ pc["pump"] \in PumpPlaces
            /\ pc["socket"] \in SocketPlaces
            /\ pc["closing"] \in ClosingPlaces

FlagsOK == /\ routeRequested \in BOOLEAN /\ routeEnabled \in BOOLEAN
           /\ switchPending \in BOOLEAN /\ started \in BOOLEAN
           /\ pendingExpired \in BOOLEAN /\ cancelled \in BOOLEAN
           /\ routed \in BOOLEAN /\ running \in BOOLEAN
           /\ besideReset \subseteq {"push", "read", "unpublished"}

FillsOK == /\ jitter \in 0..JitterCapacity
           /\ ring \in 0..RingCapacity
           /\ refilled \in 0..MaxRefill

EngineOK == /\ requestedMode \in Modes /\ activeMode \in Modes
            /\ seen \in [requested : Modes, active : Modes, fill : 0..RingCapacity]
            /\ workerMode \in Modes
            /\ worker \in {"none", "init", "entering", "entered", "loop", "adopting",
                           "reading", "leaving", "resetting", "ended"}
            /\ control \in {"idle", "starting", "stopping"}

\* Every flag, mode, fill and place is one the code has.
TypeOK == PlacesOK /\ FlagsOK /\ FillsOK /\ EngineOK

\* No thread is inside a route operation.
Quiet == /\ pc["pump"] \in {"wait", "ended"} /\ pc["socket"] = "idle"
         /\ pc["closing"] \in {"open", "closed"}

\* "A concurrent Return/Stop wins over the pending switch": whenever nobody
\* is inside a route operation and no route is requested, the native selector
\* asks for the Windows microphone - whatever the pump, the socket loop, the
\* closing session and a failing engine did in between.
ReturnedMeansWindows == Quiet /\ ~routeRequested => requestedMode = "windows"

\* "Reset only while the realtime consumer is still on Windows Mic": a reset of
\* the bridge never has a push of a stale pump tick and a read of the render
\* thread beside it, together or one after the other - unless its check of the
\* modes came while the worker had loaded Remote and not yet published it.
CheckedResetNotBesideBoth ==
    {"push", "read"} \subseteq besideReset => "unpublished" \in besideReset

\* The comment without the exception.  It does not hold: README.md, section 4.
ResetNotBesideBoth == ~({"push", "read"} \subseteq besideReset)

\* The selector is on the phone only on behalf of a request, or while some
\* thread is still to put it back.
ModeAccounted ==
    requestedMode = "remote" =>
        \/ routeRequested
        \/ pc["pump"] \in {"switched", "undo"}
        \/ \E p \in Threads : pc[p] \in {"returnFlags", "returnMode"}

\* A refill never pushes more blocks than one tick may.
RefillBounded == pc["pump"] \in {"take", "push"} => refilled < MaxRefill

Enabling == {"enableRunning", "enableModes", "enableBuffer", "enableReset",
             "enableStore", "enableFlags", "enableRequest"}
ModesChecked == {"enableBuffer", "enableReset", "enableStore"}

\* Where a pump cannot push before a new tick.
PastSwitch == {"switched", "pend", "undo", "undoFlags", "wait", "ended"} \cup Returning

\* Nobody else requests the route while the socket loop is about to.
EnablesUnrequested == pc["socket"] \in Enabling => ~routeRequested

\* The worker's copy is published except between its load and its store, and
\* the ring is read only with the phone as the published source.
CopyPublished ==
    /\ worker \in {"loop", "reading"} => activeMode = workerMode
    /\ worker = "reading" => workerMode = "remote"

\* If the phone becomes the source after the socket loop saw the Windows
\* microphone everywhere, the pump's late switch did it, and the pump will not push.
LateSwitchSettles ==
    (pc["socket"] \in ModesChecked /\ "remote" \in {requestedMode, activeMode, workerMode}) =>
        pc["pump"] \in PastSwitch \/ "unpublished" \in besideReset

\* What a checked reset has beside it tells on which side of its switch the pump is.
BesideResetSettles ==
    /\ CheckedResetNotBesideBoth
    /\ besideReset \cap {"push", "read"} # {} => pc["socket"] = "enableStore"
    /\ "unpublished" \in besideReset => pc["socket"] \in ModesChecked
    /\ "unpublished" \notin besideReset =>
          /\ "push" \in besideReset =>
                /\ requestedMode = "windows" /\ activeMode = "windows"
                /\ workerMode = "windows"
                /\ pc["pump"] # "switch"
          /\ "read" \in besideReset => pc["pump"] \in PastSwitch

\* The inductive invariant behind ReturnedMeansWindows and
\* CheckedResetNotBesideBoth.
RouteInv == /\ TypeOK /\ ModeAccounted /\ RefillBounded
            /\ EnablesUnrequested /\ CopyPublished /\ LateSwitchSettles
            /\ BesideResetSettles

\* A route that stays unrequested ends, for good, on the Windows microphone.
ReturnWins == []<>routeRequested \/ <>[](activeMode = "windows")

\* While the phone keeps sending, a requested route goes live or is dropped:
\* it never hangs half armed in an open session, whatever the engine does short
\* of restarting for ever (each restart empties the native prebuffer).
GoesLiveOrDrops ==
    \/ []<>(worker = "init")
    \/ routeRequested ~> (activeMode = "remote" \/ ~routeRequested \/ cancelled)

\* docs/remote-audio.md: "session close ... fail[s] safely back to Windows
\* Mic": once the bridge is disposed and the socket loop is idle, the selector
\* is back.
\* It does not hold: README.md, section 4.
ClosedMeansWindows ==
    (pc["closing"] = "closed" /\ pc["socket"] = "idle") => requestedMode = "windows"
=============================================================================
