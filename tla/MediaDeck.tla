----------------------------- MODULE MediaDeck -----------------------------
(***************************************************************************)
(* The local Media Deck.  The transport commands run on the UI thread, a   *)
(* worker task decodes the file, the render thread pops what is sent to    *)
(* the virtual microphone, and the phone's monitor mix reads a tap.  The   *)
(* deck's fields and the tap are locked, each by a lock of its own; the    *)
(* engine's ring, MediaStreamBuffer, is not, and a command calls it after  *)
(* it has released the lock.                                               *)
(*                                                                         *)
(* A block stands for the 20 ms of frames the worker handles at a time,    *)
(* and is known by the generation it was decoded for and its place in the  *)
(* file.  The headphone monitor and the alignment delay are left out.      *)
(***************************************************************************)
EXTENDS Integers, Sequences

CONSTANTS
    Length,       \* blocks in a file
    ReadAhead,    \* ReadAheadFrames
    RingBlocks,   \* kMediaCapacityFrames
    TapPacing,    \* RemoteMonitorTapPacingFrames
    TapBlocks,    \* RemoteMonitorTapCapacityFrames
    MaxCommands   \* bound on the generation a command may still replace

ASSUME MediaDeckAssumption ==
    /\ Length \in Nat \ {0} /\ ReadAhead \in Nat \ {0} /\ RingBlocks \in Nat \ {0}
    /\ TapPacing \in Nat \ {0} /\ TapBlocks \in Nat \ {0} /\ MaxCommands \in Nat

VARIABLES
    media,       \* "none", "ready", or a file that is "unloadable" or "unplayable"
    playing,     \* _playing
    position,    \* _positionSeconds
    send,        \* _sendEnabled
    generation,  \* _generation
    isRunning,   \* what _engineRunning answers
    busy,        \* IsBusy: "no", "starting" or "stopping" the engine
    loading,     \* LoadAsync awaits the file's duration
    calls,       \* per thread, the calls it still has to make
    loads,       \* per thread, the write_frame_ its Clear has loaded
    worker,      \* where WorkerAsync is
    snap,        \* what it read under the lock
    active,      \* activeGeneration
    reader,      \* the place its reader has reached
    block,       \* samples
    readFrame,   \* read_frame_
    writeFrame,  \* write_frame_
    streaming,   \* active_
    rendering,   \* the engine's render thread runs
    popAt,       \* the read_frame_ its Pop has loaded
    tapOn,       \* _remoteMonitorTapEnabled
    tap,         \* _remoteMonitorTap

    \* History.
    command,     \* the latest transport command
    transport,   \* the generation it made
    late,        \* the older blocks handed over since
    heard        \* the block the phone got last

deck    == <<media, playing, position, send, generation>>
model   == <<isRunning, busy, loading>>
decoder == <<worker, snap, active, reader, block>>
ring    == <<readFrame, writeFrame, streaming>>
render  == <<rendering, popAt>>
remote  == <<tapOn, tap, heard>>
history == <<command, transport, late>>
untouched == <<model, loads, render, tapOn, heard>>  \* by the worker's own steps
others  == <<deck, untouched, calls, tap, ring, history>>
vars    == <<others, decoder>>

Threads == {"ui", "pool", "worker"}

None    == -1
NoBlock == [generation |-> None, at |-> None]
NoSnap  == [generation |-> 0, at |-> 0, send |-> FALSE, tap |-> FALSE]

Least(a, b) == IF a < b THEN a ELSE b

\* _durationSeconds: kept when a file that was loaded fails to play.
Duration == IF media \in {"ready", "unplayable"} THEN Length ELSE 0

Init ==
    /\ media = "none" /\ playing = FALSE /\ position = 0 /\ send = TRUE /\ generation = 0
    /\ isRunning = FALSE /\ busy = "no" /\ loading = FALSE
    /\ calls = [t \in Threads |-> <<>>] /\ loads = [t \in Threads |-> None]
    /\ worker = "none" /\ active = None /\ reader = None /\ block = NoBlock
    /\ snap = NoSnap
    /\ readFrame = 0 /\ writeFrame = 0 /\ streaming = FALSE
    /\ rendering = FALSE /\ popAt = None
    /\ tapOn = FALSE /\ tap = <<>> /\ heard = NoBlock
    /\ command = "none" /\ transport = 0 /\ late = {}

-----------------------------------------------------------------------------
(* The calls a thread makes after it has released the lock. *)

Issue(t, todo)   == calls' = [calls EXCEPT ![t] = todo]
Calling(t, call) == calls[t] # <<>> /\ Head(calls[t]) = call
Returns(t)       == Issue(t, Tail(calls[t]))

\* MediaStreamBuffer::SetActive(false)
Deactivate(t) ==
    /\ Calling(t, "deactivate") /\ Returns(t)
    /\ streaming' = FALSE
    /\ UNCHANGED <<deck, model, loads, decoder, readFrame, writeFrame, render, remote, history>>

\* MediaStreamBuffer::Clear: a load, then a store.
ClearLoads(t) ==
    /\ Calling(t, "clear") /\ loads[t] = None
    /\ loads' = [loads EXCEPT ![t] = writeFrame]
    /\ UNCHANGED <<deck, model, calls, decoder, ring, render, remote, history>>

ClearStores(t) ==
    /\ Calling(t, "clear") /\ loads[t] # None /\ Returns(t)
    /\ readFrame' = loads[t]
    /\ loads' = [loads EXCEPT ![t] = None]
    /\ UNCHANGED <<deck, model, decoder, writeFrame, streaming, render, remote, history>>

ClearTap ==
    /\ Calling("ui", "clearTap") /\ Returns("ui")
    /\ tap' = <<>>
    /\ UNCHANGED <<deck, model, loads, decoder, ring, render, tapOn, heard, history>>

\* The second half of MediaDeckService.Clear.
Forget ==
    /\ Calling("ui", "forget") /\ Returns("ui")
    /\ media' = "none" /\ generation' = generation + 1
    /\ UNCHANGED <<playing, position, send, model, loads, decoder, ring, render, remote, history>>

-----------------------------------------------------------------------------
(* The transport commands: what each does under the lock, and the calls it *)
(* then makes.                                                             *)

PlayCalls == <<"clear", "deactivate", "clearTap">>

\* Mutant: the phone's tap is left as it is.
StopCallsKeepTap == <<"deactivate", "clear">>

StopCalls == <<"deactivate", "clear", "clearTap">>

MayCommand == calls["ui"] = <<>> /\ generation < MaxCommands

Commanded(c, todo) ==
    /\ generation' = generation + 1
    /\ Issue("ui", todo)
    /\ command' = c /\ transport' = generation + 1 /\ late' = {}

EnsureWorker == worker' = IF worker = "none" THEN "looping" ELSE worker

PlayPause ==
    /\ MayCommand /\ media = "ready"
    /\ playing' = ~playing
    /\ position' = IF ~playing /\ position >= Duration THEN 0 ELSE position
    /\ EnsureWorker
    /\ Commanded("playPause", PlayCalls)
    /\ UNCHANGED <<media, send, model, loads, snap, active, reader, block, ring, render, remote>>

StopsDeck(todo) ==
    /\ MayCommand
    /\ playing' = FALSE /\ position' = 0
    /\ Commanded("stop", todo)
    /\ UNCHANGED <<media, send, isRunning, loading, loads, decoder, ring, render, remote>>

Stop  == StopsDeck(StopCalls) /\ UNCHANGED busy
Clear == StopsDeck(StopCalls \o <<"forget">>) /\ UNCHANGED busy

\* Seek, and Skip, which seeks from where the deck is.
Seek(to) ==
    /\ MayCommand /\ to <= Duration
    /\ position' = to
    /\ Commanded("seek", StopCalls)
    /\ UNCHANGED <<media, playing, send, model, loads, decoder, ring, render, remote>>

\* The tap is cleared before the await, and not again after it.
BeginLoad ==
    /\ MayCommand /\ ~loading /\ loading' = TRUE
    /\ Issue("ui", <<"clearTap">>)
    /\ UNCHANGED <<deck, isRunning, busy, loads, decoder, ring, render, remote, history>>

EndLoad ==
    /\ calls["ui"] = <<>> /\ loading /\ loading' = FALSE
    /\ playing' = FALSE /\ position' = 0
    /\ \/ media' = "ready" /\ Commanded("load", <<"deactivate", "clear">>)
       \/ media' = "unloadable" /\ Commanded("load", <<>>)
    /\ UNCHANGED <<send, isRunning, busy, loads, decoder, ring, render, remote>>

SwitchSend ==
    /\ MayCommand
    /\ send' = ~send /\ generation' = generation + 1
    /\ Issue("ui", <<"clear", "deactivate">>)
    /\ UNCHANGED <<media, playing, position, model, loads, decoder, ring, render, remote, history>>

\* MonitorEnabled and MonitorDeviceId only make the worker open again.
Reroute ==
    /\ MayCommand
    /\ generation' = generation + 1
    /\ UNCHANGED <<media, playing, position, send, model, calls, loads, decoder, ring, render,
                   remote, history>>

Command == \/ PlayPause \/ Stop \/ Clear \/ BeginLoad \/ EndLoad \/ SwitchSend \/ Reroute
           \/ \E to \in 0..Length : Seek(to)

-----------------------------------------------------------------------------
(* The engine: the view model starts and stops it in the thread pool.  The *)
(* pool's calls are those of WasapiEngine::Start, and those the engine's   *)
(* own thread makes before Stop has joined it.                             *)

StartEngine ==
    /\ calls["ui"] = <<>> /\ busy = "no" /\ ~isRunning /\ busy' = "starting"
    /\ Issue("pool", <<"clear", "deactivate", "start">>)
    /\ UNCHANGED <<deck, isRunning, loading, loads, decoder, ring, render, remote, history>>

StopEngine ==
    /\ busy = "no" /\ isRunning /\ busy' = "stopping"
    /\ StopsDeck(StopCalls \o <<"stopEngine">>)

EngineStops ==
    /\ Calling("ui", "stopEngine")
    /\ calls' = [calls EXCEPT !["ui"] = Tail(@), !["pool"] = <<"halt", "clear", "deactivate">>]
    /\ UNCHANGED <<deck, model, loads, decoder, ring, render, remote, history>>

RenderStarts ==
    /\ Calling("pool", "start") /\ Returns("pool")
    /\ rendering' = TRUE
    /\ UNCHANGED <<deck, model, loads, decoder, ring, popAt, remote, history>>

RenderHalts ==
    /\ Calling("pool", "halt") /\ Returns("pool")
    /\ popAt = None /\ rendering' = FALSE
    /\ UNCHANGED <<deck, model, loads, decoder, ring, popAt, remote, history>>

PoolDone == calls["ui"] = <<>> /\ calls["pool"] = <<>>

\* Both ends call SetEngineRunning.
EndStart ==
    /\ PoolDone /\ busy = "starting" /\ busy' = "no"
    /\ isRunning' = TRUE
    /\ Issue("ui", <<"clear", "deactivate">>)
    /\ UNCHANGED <<deck, loading, loads, decoder, ring, render, remote, history>>

EndStop ==
    /\ PoolDone /\ busy = "stopping"
    /\ Issue("ui", <<"clear", "deactivate", "stopped">>)
    /\ UNCHANGED <<deck, model, loads, decoder, ring, render, remote, history>>

NotRunning ==
    /\ Calling("ui", "stopped") /\ Returns("ui")
    /\ isRunning' = FALSE /\ busy' = "no"
    /\ UNCHANGED <<deck, loading, loads, decoder, ring, render, remote, history>>

Call == \/ \E t \in Threads : Deactivate(t) \/ ClearLoads(t) \/ ClearStores(t)
        \/ ClearTap \/ Forget
        \/ EngineStops \/ RenderStarts \/ RenderHalts \/ EndStart \/ EndStop \/ NotRunning

-----------------------------------------------------------------------------
(* WorkerAsync.  Of what it read under the lock it looks at nothing again  *)
(* before the next turn of its loop.                                       *)

NextTurn == worker' = "looping" /\ snap' = NoSnap /\ block' = NoBlock

FindsPaused ==
    /\ worker = "looping" /\ ~playing
    /\ reader' = None /\ active' = generation
    /\ UNCHANGED <<others, worker, snap, block>>

Snapshot == [generation |-> generation, at |-> position, send |-> send, tap |-> tapOn]

\* Mutant: a worker whose file is open plays on.
FindsPlayingOn ==
    /\ worker = "looping" /\ (playing \/ reader # None)
    /\ snap' = Snapshot
    /\ worker' = IF reader = None THEN "opening" ELSE "feeding"
    /\ UNCHANGED <<others, active, reader, block>>

FindsPlaying ==
    /\ worker = "looping" /\ playing
    /\ snap' = Snapshot
    /\ worker' = IF generation # active \/ reader = None THEN "opening" ELSE "feeding"
    /\ UNCHANGED <<others, active, reader, block>>

Opens ==
    /\ worker = "opening" /\ worker' = "opened"
    /\ reader' = snap.at /\ active' = snap.generation
    /\ Issue("worker", <<"clear", "deactivate">>)
    /\ UNCHANGED <<deck, untouched, tap, ring, history, snap, block>>

\* The catch clauses: the deck shows the error and stops.
GivesUp == media' = "unplayable" /\ playing' = FALSE /\ generation' = generation + 1

OpenFails ==
    /\ worker = "opening" /\ NextTurn
    /\ reader' = None /\ GivesUp
    /\ UNCHANGED <<position, send, untouched, calls, tap, ring, history, active>>

Opened ==
    /\ worker = "opened" /\ calls["worker"] = <<>> /\ worker' = "feeding"
    /\ UNCHANGED <<others, snap, active, reader, block>>

CanSend == snap.send /\ isRunning
Fill    == Least(writeFrame - readFrame, RingBlocks)

\* Nobody to decode for, or nobody in need of a block.
Holds == \/ ~CanSend /\ ~snap.tap
         \/ CanSend /\ Fill >= ReadAhead
         \/ ~CanSend /\ Len(tap) >= TapPacing

Waits ==
    /\ worker = "feeding" /\ Holds /\ NextTurn
    /\ UNCHANGED <<others, active, reader>>

Reads ==
    /\ worker = "feeding" /\ ~Holds /\ reader < Length
    /\ worker' = IF CanSend THEN "sending" ELSE "tapping"
    /\ block' = [generation |-> active, at |-> reader] /\ reader' = reader + 1
    /\ UNCHANGED <<others, snap, active>>

ReadsNothing ==
    /\ worker = "feeding" /\ ~Holds /\ reader = Length /\ worker' = "ended"
    /\ UNCHANGED <<others, snap, active, reader, block>>

\* The end of the file, whatever was commanded since it was opened.
Ends ==
    /\ worker = "ended" /\ worker' = "ending"
    /\ position' = Duration /\ playing' = FALSE /\ generation' = generation + 1
    /\ Issue("worker", <<"deactivate">>)
    /\ UNCHANGED <<media, send, untouched, tap, ring, history, snap, active, reader, block>>

Ended ==
    /\ worker = "ending" /\ calls["worker"] = <<>> /\ NextTurn
    /\ UNCHANGED <<others, active, reader>>

ReadFails ==
    /\ worker = "feeding" /\ ~Holds /\ worker' = "dying"
    /\ reader' = None /\ GivesUp
    /\ Issue("worker", <<"deactivate", "clear">>)
    /\ UNCHANGED <<position, send, untouched, tap, ring, history, snap, active, block>>

Dies ==
    /\ worker = "dying" /\ calls["worker"] = <<>> /\ worker' = "none"
    /\ active' = None /\ snap' = NoSnap /\ block' = NoBlock
    /\ UNCHANGED <<others, reader>>

HandedOver == late' = IF block.generation < transport THEN late \cup {block} ELSE late

\* WriteMedia takes what there is room for.
Sends ==
    /\ worker = "sending"
    /\ IF Fill < RingBlocks
       THEN writeFrame' = writeFrame + 1 /\ HandedOver /\ worker' = "activating"
       ELSE worker' = "tapping" /\ UNCHANGED <<writeFrame, late>>
    /\ UNCHANGED <<deck, untouched, calls, tap, readFrame, streaming, command, transport,
                   snap, active, reader, block>>

Activates ==
    /\ worker = "activating" /\ worker' = "tapping"
    /\ streaming' = TRUE
    /\ UNCHANGED <<deck, untouched, calls, tap, readFrame, writeFrame, history,
                   snap, active, reader, block>>

\* The tap drops its oldest block when it is full.
Taps ==
    /\ worker = "tapping" /\ worker' = "noting"
    /\ IF snap.tap
       THEN /\ tap' = Append(IF Len(tap) < TapBlocks THEN tap ELSE Tail(tap), block)
            /\ HandedOver
       ELSE UNCHANGED <<tap, late>>
    /\ UNCHANGED <<deck, untouched, calls, ring, command, transport, snap, active, reader, block>>

Notes ==
    /\ worker = "noting" /\ NextTurn
    /\ position' = Least(Duration, reader)
    /\ UNCHANGED <<media, playing, send, generation, untouched, calls, tap, ring, history,
                   active, reader>>

Worker == \/ FindsPaused \/ FindsPlaying \/ Opens \/ OpenFails \/ Opened
          \/ Waits \/ Reads \/ ReadsNothing \/ ReadFails \/ Sends \/ Activates \/ Taps \/ Notes
          \/ Ends \/ Ended \/ Dies

-----------------------------------------------------------------------------
(* The render thread, and the phone's monitor mix. *)

\* Mutant: the ring is popped although it is empty.
PopBeginsEmpty ==
    /\ rendering /\ popAt = None /\ streaming
    /\ popAt' = readFrame
    /\ UNCHANGED <<deck, model, calls, loads, decoder, ring, rendering, remote, history>>

PopBegins ==
    /\ rendering /\ popAt = None /\ streaming /\ readFrame < writeFrame
    /\ popAt' = readFrame
    /\ UNCHANGED <<deck, model, calls, loads, decoder, ring, rendering, remote, history>>

\* Mutant: the block stays.
PopKeepsBlock ==
    /\ popAt # None /\ popAt' = None
    /\ UNCHANGED <<deck, model, calls, loads, decoder, ring, rendering, remote, history>>

\* Whatever Clear stored in between is stored over.
PopEnds ==
    /\ popAt # None /\ popAt' = None
    /\ readFrame' = popAt + 1
    /\ UNCHANGED <<deck, model, calls, loads, decoder, writeFrame, streaming, rendering, remote,
                   history>>

\* The mix, or its end, switches the tap; it makes sure of a worker.
SwitchTap ==
    /\ tapOn' = ~tapOn /\ tap' = <<>>
    /\ worker' = IF ~tapOn /\ worker = "none" THEN "looping" ELSE worker
    /\ UNCHANGED <<deck, model, calls, loads, snap, active, reader, block, ring, render, heard,
                   history>>

\* Media already comes in with the captured output: the tap's is dropped.
DuplicateSuppressed ==
    /\ tapOn /\ tap' = <<>>
    /\ UNCHANGED <<deck, model, calls, loads, decoder, ring, render, tapOn, heard, history>>

\* Mutant: the index is not advanced.
PhoneReadsAgain ==
    /\ tapOn /\ tap # <<>>
    /\ heard' = Head(tap)
    /\ UNCHANGED <<deck, model, calls, loads, decoder, ring, render, tapOn, tap, history>>

PhoneReads ==
    /\ tapOn /\ tap # <<>>
    /\ heard' = Head(tap) /\ tap' = Tail(tap)
    /\ UNCHANGED <<deck, model, calls, loads, decoder, ring, render, tapOn, history>>

Render == PopBegins \/ PopEnds

Next == \/ Command \/ StartEngine \/ StopEngine \/ Call \/ Worker \/ Render
        \/ SwitchTap \/ DuplicateSuppressed \/ PhoneReads

Spec == Init /\ [][Next]_vars

\* Threads run, the render callback comes back, and an engine call returns.
FairSpec == Spec /\ WF_vars(Worker) /\ WF_vars(Call) /\ WF_vars(Render)

-----------------------------------------------------------------------------
(* Properties. *)

Blocks == [generation : Nat, at : 0..(Length - 1)]

TypeOK ==
    /\ media \in {"none", "ready", "unloadable", "unplayable"}
    /\ playing \in BOOLEAN /\ send \in BOOLEAN
    /\ position \in 0..Length /\ generation \in Nat
    /\ isRunning \in BOOLEAN /\ busy \in {"no", "starting", "stopping"} /\ loading \in BOOLEAN
    /\ calls \in [Threads -> Seq({"clear", "deactivate", "clearTap", "forget", "start", "halt",
                                  "stopEngine", "stopped"})]
    /\ loads \in [Threads -> Nat \cup {None}]
    /\ worker \in {"none", "looping", "opening", "opened", "feeding", "sending", "activating",
                   "tapping", "noting", "ended", "ending", "dying"}
    /\ snap \in [generation : Nat, at : 0..Length, send : BOOLEAN, tap : BOOLEAN]
    /\ active \in Nat \cup {None} /\ reader \in 0..Length \cup {None}
    /\ block \in Blocks \cup {NoBlock}
    /\ readFrame \in Nat /\ writeFrame \in Nat /\ streaming \in BOOLEAN
    /\ rendering \in BOOLEAN /\ popAt \in Nat \cup {None}
    /\ tapOn \in BOOLEAN /\ tap \in Seq(Blocks) /\ heard \in Blocks \cup {NoBlock}
    /\ command \in {"none", "playPause", "stop", "seek", "load"}
    /\ transport \in 0..generation /\ late \subseteq Blocks

\* The ring's counters are unsigned and subtracted: whatever a Clear or a Pop
\* stores late, the read counter never passes the write counter.
ReadNeverPassesWrite ==
    /\ readFrame <= writeFrame /\ popAt < writeFrame
    /\ \A t \in Threads : loads[t] <= writeFrame

Later(a, b) == \/ a.generation > b.generation
               \/ a.generation = b.generation /\ a.at > b.at

\* What the phone heard last, and what the tap holds for it.
Delivered == {heard} \cup {tap[i] : i \in DOMAIN tap}

\* Each generation's file is opened at most once and read forwards: what the
\* worker has yet to hand over is later than everything it has delivered.
DecodesForwards ==
    /\ active <= generation
    /\ worker = "opening" => snap.generation <= generation
    /\ worker \in {"opened", "feeding", "sending", "activating", "tapping", "noting", "ended"} =>
          reader # None /\ active # None /\ snap.generation = active
    /\ worker \in {"none", "dying"} => reader = None
    /\ \A b \in Delivered :
          /\ b.generation <= generation
          /\ playing /\ reader = None => b.generation < generation
          /\ worker = "opening" => b.generation < snap.generation
          /\ IF worker \in {"sending", "activating", "tapping"}
             THEN block.generation = active /\ block.at = reader - 1 /\ Later(block, b)
             ELSE worker # "opening" /\ reader # None =>
                    Later([generation |-> active, at |-> reader], b)

MediaDeckInv == TypeOK /\ ReadNeverPassesWrite /\ DecodesForwards

\* Nothing is replayed on the phone, and nothing is heard out of order: the
\* tap's blocks are all later than the one heard last, and follow each other.
PhoneNeverReplays ==
    /\ \A i \in DOMAIN tap : Later(tap[i], heard)
    /\ \A i, j \in DOMAIN tap : i < j => Later(tap[j], tap[i])

\* After a Stop, a pause, a Seek or a Load at most the block in the worker's
\* hands is still handed over, to the ring and the tap together.
OneLateBlock == \A a, b \in late : a = b

\* When a transport command has cleared the tap, at most one block from before
\* it can still get there.  (LoadAsync clears it before its await only.)
OneStaleChunk ==
    calls["ui"] = <<>> /\ command # "load" =>
        \A i, j \in DOMAIN tap :
            tap[i].generation < transport /\ tap[j].generation < transport => i = j

\* One block late, and no more, wherever it goes.
OneBlockLate == OneLateBlock /\ OneStaleChunk

\* A paused, stopped or unsent deck becomes silent, unless it plays again: it
\* is never audible for good.
Audible == rendering /\ streaming /\ readFrame < writeFrame
StopSilences == []<>((playing /\ send) \/ ~Audible)

\* docs/media-deck.md: "stop-to-zero".
\* It does not hold: README.md, section 4.
StopToZero == command = "stop" => position = 0

\* docs/media-deck.md: "play/pause/resume": what is sent to a running engine
\* plays on and comes to its end.
PlaysOn == ~<>[](playing /\ send /\ isRunning)
=============================================================================
