----------------------------- MODULE Soundboard -----------------------------
(***************************************************************************)
(* The Sound Pads: the view model's handlers on the UI thread queue        *)
(* commands, the engine's worker thread drains them before every frame and *)
(* mixes the voices they started.  The queue is a ring of QueueSlots       *)
(* entries between those two threads; neither takes a lock.                *)
(*                                                                         *)
(* Commands are numbered in the order the queue accepts them.  A sample, a *)
(* volume and the place of a voice in its array are left out, and so is    *)
(* what a pad shows: a voice is the Play command that started it.          *)
(***************************************************************************)
EXTENDS Integers, FiniteSets

CONSTANTS
    Pads,         \* the Sound Pads (their native keys)
    Looping,      \* the pads that loop
    Layered,      \* the pads whose RestartOnPress is off
    QueueSlots,   \* CommandCapacity
    MaxVoices,
    LoadedAtStart, \* the pads whose clip is loaded when the board opens
    MaxCommands,  \* bound on the number of commands ever accepted
    MaxRuns,      \* bound on the number of times the engine is opened
    MaxLoads      \* bound on the presses of a pad in one run that await its load

ASSUME SoundboardAssumption ==
    /\ Looping \subseteq Pads /\ Layered \subseteq Pads /\ LoadedAtStart \subseteq Pads
    /\ QueueSlots \in Nat /\ QueueSlots >= 2
    /\ MaxVoices \in Nat /\ MaxCommands \in Nat
    /\ MaxRuns \in Nat /\ MaxLoads \in Nat

VARIABLES
    slots,       \* commands_
    cmdRead,     \* command_read_
    cmdWrite,    \* command_write_
    voices,      \* voices_: the Play commands that are sounding
    voiceCount,  \* active_voice_count_
    worker,      \* the render thread: "off", "opening", "idle", "draining", "closing"
    drainAt,     \* its read
    drainTo,     \* its write
    ui,          \* the UI thread: "idle", or "storing" a command not yet published
    busy,        \* IsBusy: "no", or "starting", "started", "refused", "stopping" an engine
    isRunning,
    loaded,      \* the pads whose clip is loaded
    loading,     \* presses that await their load, counted per pad and run they came in

    \* History.
    accepted,    \* commands accepted by the queue
    taken,       \* commands the worker applied or dropped
    freed,       \* commands whose slot was given back
    target,      \* commands accepted when the worker last read command_write_
    applied,     \* the number of the command applied last
    openedAt,    \* commands accepted when the worker last opened
    stops,       \* per pad, the number of its latest accepted stop
    run          \* times the worker was opened

queue   == <<slots, cmdRead, cmdWrite>>
mixer   == <<voices, voiceCount>>
render  == <<worker, drainAt, drainTo>>
model   == <<busy, isRunning, loaded, loading>>
counted == <<taken, freed, target, applied, openedAt>>
history == <<counted, accepted, stops, run>>
vars    == <<queue, mixer, render, ui, model, history>>

-----------------------------------------------------------------------------

Indices == 0..(QueueSlots - 1)
NextIndex(i) == (i + 1) % QueueSlots

NoPad   == "every pad"

Numbers == -1..MaxCommands

\* A Play remembers the run its press came in, and whether it awaited a load.
Commands == [kind : {"stopAll"}, pad : {NoPad}, number : Numbers]
       \cup [kind : {"stop"}, pad : Pads, number : Numbers]
       \cup [kind : {"play"}, pad : Pads, number : Numbers, run : Nat, awaited : BOOLEAN]

StopAllCommand(n) == [kind |-> "stopAll", pad |-> NoPad, number |-> n]
StopCommand(p, n) == [kind |-> "stop", pad |-> p, number |-> n]
PlayCommand(p, n, r, awaited) ==
    [kind |-> "play", pad |-> p, number |-> n, run |-> r, awaited |-> awaited]

Init ==
    /\ slots = [i \in Indices |-> StopAllCommand(-1)]
    /\ cmdRead = 0 /\ cmdWrite = 0
    /\ voices = {} /\ voiceCount = 0
    /\ worker = "off" /\ drainAt = 0 /\ drainTo = 0
    /\ ui = "idle" /\ busy = "no" /\ isRunning = FALSE
    /\ loaded = LoadedAtStart
    /\ loading = [q \in Pads \X (0..MaxRuns) |-> 0]
    /\ accepted = 0 /\ taken = 0 /\ freed = 0 /\ target = 0
    /\ applied = <<>> /\ openedAt = 0
    /\ stops = [p \in Pads |-> -1] /\ run = 0

-----------------------------------------------------------------------------
(* Enqueue, on the UI thread: test, store, publish. *)

\* Mutant: the queue is never found full.
RoomAlways == TRUE

Room == NextIndex(cmdWrite) # cmdRead

StoreCommand(c) ==
    /\ ui = "idle" /\ Room /\ accepted < MaxCommands
    /\ slots' = [slots EXCEPT ![cmdWrite] = c]
    /\ ui' = "storing"

\* The queue is full: the command is lost, whatever the handler does next.
Refused == ui = "idle" /\ ~Room /\ UNCHANGED <<slots, ui>>

Queue(c) == StoreCommand(c) \/ Refused

\* The pads a command silences when it is applied.
Silences(c, p) == \/ c.kind = "stopAll"
                  \/ c.pad = p /\ (c.kind = "stop" \/ p \notin Layered)

PublishCommand ==
    /\ ui = "storing" /\ ui' = "idle"
    /\ cmdWrite' = NextIndex(cmdWrite)
    /\ accepted' = accepted + 1
    /\ stops' = [p \in Pads |-> IF Silences(slots[cmdWrite], p) THEN accepted ELSE stops[p]]
    /\ UNCHANGED <<slots, cmdRead, mixer, render, model, counted, run>>

-----------------------------------------------------------------------------
(* The view model's handlers; each runs to its end or to its await. *)

PressLoaded(p) ==
    /\ isRunning /\ p \in loaded
    /\ Queue(PlayCommand(p, accepted, run, FALSE))
    /\ UNCHANGED <<cmdRead, cmdWrite, mixer, render, model, history>>

\* PlayPadAsync awaits the decoding of a pad that is not loaded.  A pad may be
\* pressed again, by a hotkey or a phone, while it loads.
PressUnloaded(p) ==
    /\ ui = "idle" /\ isRunning /\ p \notin loaded
    /\ loading[<<p, run>>] < MaxLoads
    /\ loading' = [loading EXCEPT ![<<p, run>>] = @ + 1]
    /\ UNCHANGED <<queue, mixer, render, ui, busy, isRunning, loaded, history>>

\* A load that was awaited by a press of run r comes back.
LoadReturns(p, r) ==
    /\ loading[<<p, r>>] > 0
    /\ loading' = [loading EXCEPT ![<<p, r>>] = @ - 1]

\* After the await the handler plays without looking at IsRunning again.
LoadSucceeds(p, r) ==
    /\ LoadReturns(p, r)
    /\ loaded' = loaded \cup {p}
    /\ Queue(PlayCommand(p, accepted, r, TRUE))
    /\ UNCHANGED <<cmdRead, cmdWrite, mixer, render, busy, isRunning, history>>

\* A failed load leaves IsLoaded as another press's load has set it.
LoadFails(p, r) ==
    /\ LoadReturns(p, r)
    /\ IF p \in loaded THEN Queue(PlayCommand(p, accepted, r, TRUE))
                       ELSE ui = "idle" /\ UNCHANGED <<slots, ui>>
    /\ UNCHANGED <<cmdRead, cmdWrite, mixer, render, busy, isRunning, loaded, history>>

StopPad(p) ==
    /\ Queue(StopCommand(p, accepted))
    /\ UNCHANGED <<cmdRead, cmdWrite, mixer, render, model, history>>

\* StopAllAsync and the Stop branch of StartStopAsync, up to their await.
StopAll ==
    /\ busy = "no" /\ busy' = "stopping"
    /\ Queue(StopAllCommand(accepted))
    /\ UNCHANGED <<cmdRead, cmdWrite, mixer, render, isRunning, loaded, loading, history>>

\* The button, its remote twins, or the recovery; never with a worker alive.
StartEngine ==
    /\ ui = "idle" /\ busy = "no" /\ ~isRunning /\ worker = "off" /\ run < MaxRuns
    /\ busy' = "starting"
    /\ UNCHANGED <<queue, mixer, render, ui, isRunning, loaded, loading, history>>

EndStart ==
    /\ ui = "idle" /\ busy = "started"
    /\ busy' = "no" /\ isRunning' = TRUE
    /\ UNCHANGED <<queue, mixer, render, ui, loaded, loading, history>>

EndRefusedStart ==
    /\ ui = "idle" /\ busy = "refused"
    /\ busy' = "no"
    /\ UNCHANGED <<queue, mixer, render, ui, isRunning, loaded, loading, history>>

EndStop ==
    /\ ui = "idle" /\ busy = "stopping" /\ worker = "off"
    /\ busy' = "no" /\ isRunning' = FALSE
    /\ UNCHANGED <<queue, mixer, render, ui, loaded, loading, history>>

\* OnMeterTick finds running_ clear: the stream died, or a Stop is under way.
TickNoticesDeath ==
    /\ isRunning /\ worker \in {"closing", "off"} /\ isRunning' = FALSE
    /\ Queue(StopAllCommand(accepted))
    /\ UNCHANGED <<cmdRead, cmdWrite, mixer, render, busy, loaded, loading, history>>

Handler == \/ StopAll \/ StartEngine \/ EndStart \/ EndRefusedStart \/ EndStop
           \/ TickNoticesDeath
           \/ \E p \in Pads : PressLoaded(p) \/ PressUnloaded(p) \/ StopPad(p)
           \/ \E p \in Pads, r \in 0..MaxRuns : LoadSucceeds(p, r) \/ LoadFails(p, r)

-----------------------------------------------------------------------------
(* The engine: ResetPlayback when it starts and when its worker ends, and   *)
(* MixFrame on the worker in between.                                      *)

BeginReset ==
    /\ voices' = {}
    /\ drainTo' = cmdWrite /\ target' = accepted
    /\ UNCHANGED <<queue, voiceCount, drainAt, ui, model, taken, freed, applied, accepted,
                   stops>>

\* Mutant: only the voices are reset.
EndResetKeepsQueue ==
    /\ voiceCount' = 0
    /\ UNCHANGED <<queue, voices, drainAt, drainTo, ui, isRunning, loaded, loading, history>>

EndReset ==
    /\ cmdRead' = drainTo /\ freed' = target /\ taken' = target
    /\ voiceCount' = 0
    /\ UNCHANGED <<slots, cmdWrite, voices, drainAt, drainTo, ui, isRunning, loaded, loading,
                   target, applied, openedAt, accepted, stops, run>>

\* WasapiEngine::Start: the pool thread resets before it makes the worker.
WorkerOpens == /\ worker = "off" /\ worker' = "opening"
               /\ busy = "starting" /\ openedAt' = accepted /\ run' = run + 1
               /\ BeginReset

WorkerOpened == /\ worker = "opening"
                /\ \/ worker' = "idle" /\ busy' = "started"
                   \/ worker' = "off" /\ busy' = "refused"
                /\ EndReset

\* WasapiEngine::Stop, called once StopAllSounds has returned.
WorkerCloses == /\ worker = "idle" /\ worker' = "closing"
                /\ busy = "stopping" /\ ui = "idle"
                /\ BeginReset /\ UNCHANGED <<openedAt, run>>

StreamFails == /\ worker = "idle" /\ worker' = "closing"
               /\ BeginReset /\ UNCHANGED <<openedAt, run>>

WorkerClosed == worker = "closing" /\ worker' = "off" /\ EndReset /\ UNCHANGED busy

BeginDrain ==
    /\ worker = "idle" /\ worker' = "draining"
    /\ drainAt' = cmdRead
    /\ drainTo' = cmdWrite /\ target' = accepted
    /\ UNCHANGED <<queue, mixer, ui, model, taken, freed, applied, openedAt, accepted, stops,
                   run>>

\* Mutant: a stop ends the first voice of the pad only.
SilencedOne(c) ==
    {v \in voices : Silences(c, v.pad) /\
                    \A w \in voices : w.pad = v.pad => v.number <= w.number}

Silenced(c) == {v \in voices : Silences(c, v.pad)}

\* The voices after ApplyCommand; a Play that finds no free voice is lost.
Applied(c) ==
    LET left == voices \ Silenced(c)
    IN  IF c.kind = "play" /\ Cardinality(left) < MaxVoices THEN left \cup {c} ELSE left

ApplyCommand ==
    /\ worker = "draining" /\ drainAt # drainTo
    /\ voices' = Applied(slots[drainAt])
    /\ voiceCount' = Cardinality(voices')
    /\ applied' = <<slots[drainAt].number>>
    /\ drainAt' = NextIndex(drainAt) /\ taken' = taken + 1
    /\ UNCHANGED <<queue, worker, drainTo, ui, model, freed, target, openedAt, accepted, stops,
                   run>>

\* Mutant: the count keeps the voices that ended.
MixFrameUncounted ==
    /\ worker = "draining" /\ drainAt = drainTo
    /\ cmdRead' = drainAt /\ freed' = taken
    /\ worker' = "idle"
    /\ voices' \in SUBSET voices
    /\ \A v \in voices \ voices' : v.pad \notin Looping
    /\ UNCHANGED <<slots, cmdWrite, voiceCount, drainAt, drainTo, ui, model, taken, target,
                   applied, openedAt, accepted, stops, run>>

\* The end of the drain, and the frame: voices that do not loop may end.
MixFrame ==
    /\ worker = "draining" /\ drainAt = drainTo
    /\ cmdRead' = drainAt /\ freed' = taken
    /\ worker' = "idle"
    /\ voices' \in SUBSET voices
    /\ \A v \in voices \ voices' : v.pad \notin Looping
    /\ voiceCount' = Cardinality(voices')
    /\ UNCHANGED <<slots, cmdWrite, drainAt, drainTo, ui, model, taken, target, applied,
                   openedAt, accepted, stops, run>>

Worker == \/ WorkerOpens \/ WorkerOpened \/ WorkerCloses \/ WorkerClosed
          \/ BeginDrain \/ ApplyCommand \/ MixFrame

-----------------------------------------------------------------------------

Next == PublishCommand \/ Handler \/ Worker \/ StreamFails

Spec == Init /\ [][Next]_vars

\* The render callback comes back as long as the stream lives.
FairSpec == Spec /\ WF_vars(Worker) /\ WF_vars(PublishCommand)

-----------------------------------------------------------------------------
(* Properties. *)

LoadingOK == loading \in [Pads \X (0..MaxRuns) -> Nat]

TypeOK ==
    /\ slots \in [Indices -> Commands]
    /\ cmdRead \in Indices /\ cmdWrite \in Indices
    /\ drainAt \in Indices /\ drainTo \in Indices
    /\ voices \subseteq Commands
    /\ worker \in {"off", "opening", "idle", "draining", "closing"}
    /\ ui \in {"idle", "storing"} /\ busy \in {"no", "starting", "started", "refused", "stopping"}
    /\ isRunning \in BOOLEAN /\ loaded \subseteq Pads
    /\ LoadingOK
    /\ accepted \in 0..MaxCommands /\ taken \in Nat /\ freed \in Nat /\ target \in Nat
    /\ openedAt \in Nat /\ run \in 0..MaxRuns
    /\ stops \in [Pads -> Numbers]

\* The wrapping indices stand for the counts of commands, which never lap.
IndicesCount ==
    /\ freed <= taken /\ taken <= accepted
    /\ accepted <= freed + QueueSlots - 1
    /\ cmdRead = freed % QueueSlots /\ cmdWrite = accepted % QueueSlots
    /\ ui = "storing" => accepted < freed + QueueSlots - 1 /\ accepted < MaxCommands
    /\ worker # "draining" => freed = taken
    /\ worker \in {"opening", "closing", "draining"} =>
          taken <= target /\ target <= accepted /\ drainTo = target % QueueSlots
    /\ worker = "draining" => drainAt = taken % QueueSlots

\* A command is in its slot from the moment it is stored until the slot is
\* given back, although the producer tests an index that may be stale and the
\* consumer gives a whole batch back at once.
CommandsInPlace ==
    \A n \in freed..(accepted - (IF ui = "storing" THEN 0 ELSE 1)) :
        slots[n % QueueSlots].number = n

\* The latest accepted stop of a pad is either behind the worker or in its slot.
StopsInPlace ==
    \A p \in Pads :
        /\ stops[p] < accepted
        /\ stops[p] >= taken => Silences(slots[stops[p] % QueueSlots], p)

\* A voice is older than anything still queued.
VoicesCameFirst == \A v \in voices : v.number \in 0..(taken - 1) /\ v.pad \in Pads

\* Only a worker at work has voices, at most as many as there are, and the
\* count the meters show is theirs.
VoicesCounted ==
    /\ IsFiniteSet(voices) /\ Cardinality(voices) <= MaxVoices
    /\ worker \in {"off", "opening", "closing"} => voices = {}
    /\ worker \in {"off", "idle", "draining"} => voiceCount = Cardinality(voices)

\* Once the worker has got past the latest stop of a pad (Stop, Stop All or a
\* press that restarts it), no sound started before that stop is left.
NoVoiceOutlivesItsStop ==
    \A v \in voices : stops[v.pad] < taken => v.number >= stops[v.pad]

\* A Play is of the run its press came in, unless it awaited a load.
OfThisRun(c) == c.kind = "play" => c.run = run \/ c.awaited

\* A sound queued in one run of the engine is never heard in the next one, and
\* a sound of a pad that was loaded only in the run it was pressed in: what was
\* queued while no worker ran, or too late, is dropped.  A press that awaited its
\* load is queued, and heard, in the run that the end of the load falls in.
SoundsAreOfThisRun == \A v \in voices : v.number >= openedAt /\ OfThisRun(v)

\* The same of what is still in the queue.
PlaysInPlace ==
    /\ openedAt <= accepted
    /\ \A n \in freed..(accepted - (IF ui = "storing" THEN 0 ELSE 1)) :
          n >= openedAt => OfThisRun(slots[n % QueueSlots])

\* Why a start leaves it so: until the engine is shown running nothing but a
\* load that ended queues a Play.
StartsAreQuiet ==
    busy = "starting" =>
        /\ ~isRunning /\ (worker = "opening" \/ run < MaxRuns)
        /\ ui = "storing" /\ slots[cmdWrite].kind = "play" => slots[cmdWrite].awaited

\* The inductive invariant behind them.
SoundboardInv == /\ TypeOK /\ IndicesCount /\ CommandsInPlace /\ StopsInPlace
                 /\ VoicesCameFirst /\ VoicesCounted
                 /\ NoVoiceOutlivesItsStop /\ SoundsAreOfThisRun
                 /\ PlaysInPlace /\ StartsAreQuiet
                 /\ worker # "off" => openedAt <= target
                 /\ worker \in {"idle", "draining"} => openedAt <= taken

\* The command ring is a bounded FIFO: each accepted command is applied once,
\* in order, unless a reset drops it with all those before it.
CommandFifo == INSTANCE FrameChannel
    WITH Capacity <- QueueSlots - 1, head <- taken, tail <- accepted, heard <- applied
ImplementsFifo == CommandFifo!ChannelSpec

\* An accepted stop is obeyed: again and again, no sound of a pad is older
\* than its latest accepted stop.
StopsAreObeyed ==
    \A p \in Pads : []<>(\A v \in voices : v.pad = p => v.number >= stops[p])

\* docs/audio-pipeline.md: "Global Stop All clears Pads": a press is heard in
\* the run of the engine it came in, or never.
\* It does not hold: README.md, section 4.
PressDiesWithItsRun == \A v \in voices : v.run = run
=============================================================================
