--------------------------- MODULE EngineRecovery ---------------------------
(***************************************************************************)
(* Who starts and stops the audio engine.  The view model's handlers run   *)
(* on the UI thread, each atomic up to its next await: the Start/Stop      *)
(* button and its remote twins, Stop All, the 100 ms meter tick that       *)
(* notices a dead stream, and the automatic recovery it launches.  Every   *)
(* native call they await runs on the thread pool, one at a time under the *)
(* engine's control mutex, and the rest of the handler runs some time      *)
(* after it returned.                                                      *)
(*                                                                         *)
(* Output devices are taken to be present; status texts are left out.      *)
(* The names that every module has bear the engine's, as the view model    *)
(* keeps the remote server's life as well (ServerLifecycle,                *)
(* ViewModelProofs).                                                       *)
(***************************************************************************)
EXTENDS Integers, Sequences, SequencesExt

CONSTANTS
    Enumeration,  \* the microphones, in the order Windows lists them
    Preference,   \* and in the order in which Windows makes them the default
    Broken,       \* those that are listed but never start
    Commands,     \* user commands that may be in flight together
    NoInput       \* no microphone

ASSUME RecoveryAssumption ==
    /\ IsInjective(Enumeration) /\ IsInjective(Preference)
    /\ Range(Enumeration) = Range(Preference)
    /\ Broken \subseteq Range(Enumeration)
    /\ NoInput \notin Range(Enumeration)

VARIABLES
    present,     \* the microphones plugged in
    worker,      \* the engine's worker: "none", "live", or "dead" and not joined
    device,      \* the microphone the engine was started with
    isRunning, isBusy, armed, inProgress, forcedMute,
    retryDue,    \* _nextRecoveryAttemptUtc has passed
    failed,      \* _failedInputDeviceId
    selected,    \* SelectedInput
    command,     \* where each user command is
    recovery,    \* where the recovery is
    found,       \* its local: the microphones it enumerated
    candidate,   \* its local: recoveredInput
    stopped      \* history: a Stop All the view model took, not revoked since
                 \* ("clean": nothing else was in flight; "busy": something was)

native == <<worker, device>>
locals == <<found, candidate>>
flags == <<isRunning, isBusy, armed, inProgress, forcedMute, retryDue, failed>>
engineVars ==
    <<present, native, flags, selected, command, recovery, locals, stopped>>

Inputs == Range(Enumeration)

EngineInit ==
    /\ present \in SUBSET Inputs
    /\ worker = "none" /\ device = NoInput
    /\ isRunning = FALSE /\ isBusy = FALSE /\ armed = FALSE
    /\ inProgress = FALSE /\ forcedMute = FALSE /\ retryDue = TRUE
    /\ failed = NoInput /\ selected \in Inputs
    /\ command = [c \in Commands |-> "idle"]
    /\ recovery = "idle" /\ found = {} /\ candidate = NoInput
    /\ stopped = "no"

NothingInFlight == recovery = "idle" /\ \A c \in Commands : command[c] = "idle"

-----------------------------------------------------------------------------
(* The native engine, entered by one pool thread at a time. *)

\* A worker that died by itself must be joined by a Stop first.
Starts(d) == worker = "none" /\ d \in present \ Broken

\* WasapiEngine::Start returned, with or without success, to a place.
NativeStart(d) ==
    IF Starts(d) THEN worker' = "live" /\ device' = d ELSE UNCHANGED native

NativeStop == worker' = "none" /\ UNCHANGED device

StreamDies ==
    /\ worker = "live" /\ device \notin present
    /\ worker' = "dead"
    /\ UNCHANGED <<present, device, flags, selected, command, recovery, locals, stopped>>

StreamFails ==
    /\ worker = "live" /\ device \in present
    /\ worker' = "dead"
    /\ UNCHANGED <<present, device, flags, selected, command, recovery, locals, stopped>>

Unplug == \E d \in present :
    /\ present' = present \ {d}
    /\ UNCHANGED <<native, flags, selected, command, recovery, locals, stopped>>

Plug == \E d \in Inputs \ present :
    /\ present' = present \cup {d}
    /\ UNCHANGED <<native, flags, selected, command, recovery, locals, stopped>>

-----------------------------------------------------------------------------
(* StartStopAsync and StopAllAsync. *)

\* The routing page, open only while the engine is stopped and nothing runs.
ChooseInput ==
    /\ ~isRunning /\ ~isBusy
    /\ selected' \in present
    /\ UNCHANGED <<present, native, flags, command, recovery, locals, stopped>>

\* A command that comes while the view model is busy is dropped, a Stop All
\* among them.
MayBegin(c) == command[c] = "idle" /\ ~isBusy

BeginStart(c) ==
    /\ MayBegin(c) /\ ~isRunning
    /\ selected # NoInput
    /\ isBusy' = TRUE
    /\ command' = [command EXCEPT ![c] = "starting"]
    /\ stopped' = "no"
    /\ UNCHANGED <<present, native, isRunning, armed, inProgress, forcedMute, retryDue,
                   failed, selected, recovery, locals>>

\* The lambda reads SelectedInput when the pool runs it.
PoolStarts(c) ==
    /\ command[c] = "starting"
    /\ NativeStart(selected)
    /\ command' = [command EXCEPT ![c] = IF Starts(selected) THEN "started" ELSE "refused"]
    /\ UNCHANGED <<present, flags, selected, recovery, locals, stopped>>

\* Mutant: leaves the recovery's mute.
EndStartMuted(c) ==
    /\ command[c] = "started"
    /\ command' = [command EXCEPT ![c] = "idle"]
    /\ isRunning' = TRUE /\ failed' = NoInput /\ armed' = TRUE /\ isBusy' = FALSE
    /\ UNCHANGED <<present, native, inProgress, forcedMute, retryDue, selected, recovery,
                   locals, stopped>>

EndStart(c) ==
    /\ command[c] = "started"
    /\ command' = [command EXCEPT ![c] = "idle"]
    /\ isRunning' = TRUE /\ forcedMute' = FALSE /\ failed' = NoInput
    /\ armed' = TRUE /\ isBusy' = FALSE
    /\ UNCHANGED <<present, native, inProgress, retryDue, selected, recovery, locals, stopped>>

\* Mutant: an early return that leaves the view model busy.
EndRefusedStartBusy(c) ==
    /\ command[c] = "refused"
    /\ command' = [command EXCEPT ![c] = "idle"]
    /\ UNCHANGED <<present, native, flags, selected, recovery, locals, stopped>>

EndRefusedStart(c) ==
    /\ command[c] = "refused"
    /\ command' = [command EXCEPT ![c] = "idle"]
    /\ isBusy' = FALSE
    /\ UNCHANGED <<present, native, isRunning, armed, inProgress, forcedMute, retryDue,
                   failed, selected, recovery, locals, stopped>>

\* Mutant: the recovery stays armed.
BeginStopArmed(c) ==
    /\ MayBegin(c)
    /\ isBusy' = TRUE
    /\ command' = [command EXCEPT ![c] = "stopping"]
    /\ stopped' = IF NothingInFlight THEN "clean" ELSE "busy"
    /\ UNCHANGED <<present, native, isRunning, armed, inProgress, forcedMute, retryDue,
                   failed, selected, recovery, locals>>

\* Stop All, or the button while it says Stop.
BeginStop(c) ==
    /\ MayBegin(c)
    /\ isBusy' = TRUE /\ armed' = FALSE
    /\ command' = [command EXCEPT ![c] = "stopping"]
    /\ stopped' = IF NothingInFlight THEN "clean" ELSE "busy"
    /\ UNCHANGED <<present, native, isRunning, inProgress, forcedMute, retryDue, failed,
                   selected, recovery, locals>>

PoolStops(c) ==
    /\ command[c] = "stopping"
    /\ NativeStop
    /\ command' = [command EXCEPT ![c] = "stopped"]
    /\ UNCHANGED <<present, flags, selected, recovery, locals, stopped>>

EndStop(c) ==
    /\ command[c] = "stopped"
    /\ command' = [command EXCEPT ![c] = "idle"]
    /\ isRunning' = FALSE /\ isBusy' = FALSE
    /\ UNCHANGED <<present, native, armed, inProgress, forcedMute, retryDue, failed,
                   selected, recovery, locals, stopped>>

Command(c) == \/ PoolStarts(c) \/ EndStart(c) \/ EndRefusedStart(c)
              \/ PoolStops(c) \/ EndStop(c)

-----------------------------------------------------------------------------
(* OnMeterTick and RecoverAudioRouteAsync. *)

\* The first lines of the recovery, run by the tick.
Launch == /\ inProgress' = TRUE /\ isBusy' = TRUE
          /\ recovery' = "stopping"

TickNoticesDeath ==
    /\ isRunning /\ worker # "live"
    /\ isRunning' = FALSE
    /\ failed' = IF armed THEN selected ELSE failed
    /\ IF armed /\ ~inProgress THEN Launch ELSE UNCHANGED <<inProgress, isBusy, recovery>>
    /\ UNCHANGED <<present, native, armed, forcedMute, retryDue, selected, command,
                   locals, stopped>>

TickRetries ==
    /\ ~isRunning /\ armed /\ ~inProgress /\ retryDue
    /\ Launch
    /\ UNCHANGED <<present, native, isRunning, armed, forcedMute, retryDue, failed,
                   selected, command, locals, stopped>>

RetryFallsDue ==
    /\ ~retryDue /\ retryDue' = TRUE
    /\ UNCHANGED <<present, native, isRunning, isBusy, armed, inProgress, forcedMute,
                   failed, selected, command, recovery, locals, stopped>>

RecoveryStops ==
    /\ recovery = "stopping" /\ recovery' = "enumerating"
    /\ NativeStop
    /\ UNCHANGED <<present, flags, selected, command, locals, stopped>>

\* The list is asked for twice, for its length and for itself: if the first call
\* fails the list is empty.
RecoveryEnumerates ==
    /\ recovery = "enumerating" /\ recovery' = "enumerated"
    /\ found' \in {present, {}}
    /\ UNCHANGED <<present, native, flags, selected, command, candidate, stopped>>

\* If the second fails, it may have grown since the first, the recovery throws:
\* it tries again later, and remembers no microphone for it.
RecoveryThrows ==
    /\ recovery = "enumerating" /\ recovery' = "idle"
    /\ forcedMute' = TRUE /\ isRunning' = FALSE /\ retryDue' = FALSE
    /\ isBusy' = FALSE /\ inProgress' = FALSE
    /\ UNCHANGED <<present, native, armed, failed, selected, command, locals, stopped>>

\* The first element of a list that lies in a set.
FirstOf(list, set) ==
    LET hits == SelectSeq(list, LAMBDA d : d \in set)
    IN  IF hits = <<>> THEN NoInput ELSE Head(hits)

\* DeviceRecoveryPolicy: the default unless it is the one that failed, then
\* any other, and the failed one as the last resort.
SelectNextInput(devices, bad) ==
    LET default == FirstOf(Preference, devices)
        other   == FirstOf(Enumeration, devices \ {bad})
    IN  IF default # bad THEN default
        ELSE IF other # NoInput THEN other
        ELSE default

RecoverySelects ==
    /\ recovery = "enumerated"
    /\ selected' = SelectNextInput(found, failed)
    /\ candidate' = selected'
    /\ found' = {}
    /\ IF selected' = NoInput
       THEN /\ forcedMute' = TRUE /\ isRunning' = FALSE /\ retryDue' = FALSE
            /\ isBusy' = FALSE /\ inProgress' = FALSE
            /\ recovery' = "idle"
       ELSE /\ recovery' = "starting"
            /\ UNCHANGED <<forcedMute, isRunning, retryDue, isBusy, inProgress>>
    /\ UNCHANGED <<present, native, armed, failed, command, stopped>>

RecoveryStarts ==
    /\ recovery = "starting"
    /\ NativeStart(candidate)
    /\ recovery' = IF Starts(candidate) THEN "started" ELSE "refused"
    /\ UNCHANGED <<present, flags, selected, command, locals, stopped>>

\* Mutants: the failed microphone is not remembered, or the recovery not ended.
RecoveryForgets ==
    /\ recovery = "refused" /\ recovery' = "idle"
    /\ forcedMute' = TRUE /\ isRunning' = FALSE /\ retryDue' = FALSE
    /\ isBusy' = FALSE /\ inProgress' = FALSE
    /\ candidate' = NoInput
    /\ UNCHANGED <<present, native, armed, failed, selected, command, found, stopped>>

RecoveryStaysInProgress ==
    /\ recovery = "refused" /\ recovery' = "idle"
    /\ forcedMute' = TRUE /\ isRunning' = FALSE
    /\ failed' = candidate /\ retryDue' = FALSE
    /\ isBusy' = FALSE
    /\ candidate' = NoInput
    /\ UNCHANGED <<present, native, armed, inProgress, selected, command, found, stopped>>

RecoveryFails ==
    /\ recovery = "refused" /\ recovery' = "idle"
    /\ forcedMute' = TRUE /\ isRunning' = FALSE
    /\ failed' = candidate /\ retryDue' = FALSE
    /\ isBusy' = FALSE /\ inProgress' = FALSE
    /\ candidate' = NoInput
    /\ UNCHANGED <<present, native, armed, selected, command, found, stopped>>

RecoverySucceeds ==
    /\ recovery = "started" /\ recovery' = "idle"
    /\ forcedMute' = FALSE /\ isRunning' = TRUE
    /\ failed' = NoInput /\ retryDue' = TRUE
    /\ isBusy' = FALSE /\ inProgress' = FALSE
    /\ candidate' = NoInput
    /\ UNCHANGED <<present, native, armed, selected, command, found, stopped>>

Recovery == \/ RecoveryStops \/ RecoveryEnumerates \/ RecoverySelects
            \/ RecoveryStarts \/ RecoveryFails \/ RecoverySucceeds
            \/ RecoveryThrows

Tick == TickNoticesDeath \/ TickRetries

-----------------------------------------------------------------------------

EngineNext ==
    \/ \E c \in Commands : BeginStart(c) \/ BeginStop(c) \/ Command(c)
    \/ ChooseInput
    \/ Tick \/ RetryFallsDue \/ Recovery
    \/ StreamDies \/ StreamFails \/ Plug \/ Unplug

EngineSpec == EngineInit /\ [][EngineNext]_engineVars

\* The dispatcher and the pool run what was posted, the timer ticks, time
\* passes, and a stream whose microphone is gone fails.  The user, the plugs
\* and other failures of a stream are under no obligation.
FairSpec ==
    /\ EngineSpec
    /\ \A c \in Commands : WF_engineVars(Command(c))
    /\ WF_engineVars(Tick) /\ WF_engineVars(RetryFallsDue) /\ WF_engineVars(Recovery)
    /\ WF_engineVars(StreamDies)

-----------------------------------------------------------------------------
(* Properties. *)

CommandPlaces == {"idle", "starting", "started", "refused", "stopping", "stopped"}

\* Every flag and place is one the code has, and no microphone is imagined.
EngineTypeOK ==
    /\ isRunning \in BOOLEAN /\ isBusy \in BOOLEAN /\ armed \in BOOLEAN
    /\ inProgress \in BOOLEAN /\ forcedMute \in BOOLEAN /\ retryDue \in BOOLEAN
    /\ worker \in {"none", "live", "dead"}
    /\ command \in [Commands -> CommandPlaces]
    /\ recovery \in {"idle", "stopping", "enumerating", "enumerated", "starting",
                     "started", "refused"}
    /\ stopped \in {"no", "clean", "busy"}
    /\ present \subseteq Inputs /\ found \subseteq Inputs

\* The microphone is never left force-muted while the view model shows a live
\* engine, whichever of a start and a recovery finishes last.
NeverShownLiveMuted == isRunning => ~forcedMute

\* A Stop All taken while nothing else was in flight is final: no tick, retry
\* or recovery brings the engine back until the user starts it.
CleanStopIsFinal == stopped = "clean" /\ NothingInFlight => worker # "live"

\* Why: such a stop leaves nothing behind that could start the engine, and the
\* engine lives on only until the pool runs the stop.
CleanStopLeavesNothing ==
    stopped = "clean" =>
        /\ ~armed /\ recovery = "idle"
        /\ \A c \in Commands : command[c] \in {"idle", "stopping", "stopped"}
        /\ worker = "live" => \E c \in Commands : command[c] = "stopping"

\* The inductive invariant behind the two.
RecoveryInv == /\ EngineTypeOK /\ NeverShownLiveMuted /\ CleanStopLeavesNothing
               /\ inProgress <=> recovery # "idle"

\* The view model is never left busy: Start and Stop All are not locked out.
NeverWedged == isBusy ~> ~isBusy

\* The enumeration fails, in either of its ways.
EnumerationFails ==
    recovery = "enumerating" /\ recovery' # "enumerating" /\ found' # present

\* The policy remembers one failure: with the default microphone and the first
\* other one both broken it tries the two in turn and comes to no third.
Starved == LET default == FirstOf(Preference, present)
           IN  {default, FirstOf(Enumeration, present \ {default})} \subseteq Broken

\* docs/recovery.md: "Reconnecting a usable microphone permits automatic
\* recovery": while the recovery is armed and what is plugged in stays, some of
\* it usable, the engine comes back, however often it fails and whatever failed
\* before - unless the policy starves it.
RecoversUnlessStarved ==
    \/ []<>(worker = "live")
    \/ []<>~armed
    \/ []<>(present \subseteq Broken) \/ []<>Starved
    \/ []<><<present' # present>>_present
    \/ []<><<EnumerationFails>>_engineVars

\* The document without the exception.  It does not hold: README.md, section 4.
Recovers ==
    \/ []<>(worker = "live")
    \/ []<>~armed
    \/ []<>(present \subseteq Broken)
    \/ []<><<present' # present>>_present
    \/ []<><<EnumerationFails>>_engineVars

\* README.md: "Global Stop All stops Pads, Media, and the engine": also when
\* the view model took it beside a start or a recovery in flight.
\* It does not hold: README.md, section 4.
TakenStopIsFinal ==
    stopped \in {"clean", "busy"} /\ NothingInFlight => worker # "live"
=============================================================================
