# GrassiBoard: TLA+ models, checks and proofs

GrassiBoard mixes a microphone, a soundboard and a media deck into a virtual
microphone on Windows, and lets a paired phone control it and lend it its own
microphone.  This directory models the parts whose correctness depends on the
order in which threads, callbacks and messages act.  Each module is translated
from the source; `PROJECT.json` names, for every definition, the lines it stands
for, and lists the runs, the mutants, the hazards the properties are aimed at,
the disagreements found between code and documentation, and the theorems.

    tlc -config Recovery.cfg MCEngineRecovery      # one run
    tlapm ViewModelProofs.tla                      # one module's proofs

1. Inventory · 2. Modules and how they correspond to the code · 3. Runs ·
4. What was found · 5. Proofs · 6. What is not modelled · 7. What is left

## 1. Inventory

| Component | State it keeps | Operations | Interacts with | Module |
|---|---|---|---|---|
| WASAPI engine (`GrassiBoard.AudioEngine/src/wasapi_engine.*`, C API `audio_engine.cpp`) | worker thread, control mutex, `running_`, start result, source mode *requested*, *active* and the worker's own copy, statistics | Start, Stop, the worker's init / loop / exit, SetInputSourceMode, setters from many managed threads | owns every native buffer below; called without a lock by the App | `PhoneMicRoute`, `EngineRecovery`; its part in each buffer with the buffer |
| Remote input ring (`remote_input_buffer.*`) | two 64-bit sequences, samples | Write (managed pump), Read (render thread), Reset (control plane, worker's start and exit) | phone-microphone bridge, engine | `RemoteInputBuffer` |
| Media stream buffer (`media_stream.*`) | two sequences, samples, active flag, send delay | Write (media worker), Pop, SynchronizeDelay (render thread), Clear, SetActive (UI, media worker, worker's exit) | media deck, engine | `MediaDeck` |
| Monitor taps (`monitor_tap_buffer.*`) | two indices, samples | Push (render thread), Read (monitor pump), Reset (any) | remote monitor | who has them: `RemoteMediaSessions` |
| Soundboard mixer (`soundboard_mixer.*`) | clips, SPSC queue of 256 commands, 32 voices | LoadClip, Play, Stop, StopAll; drain, mix and ResetPlayback on the engine's worker | view model, engine | `Soundboard` |
| Mixer and pitch processors | DSP parameters, delay lines | per-sample processing | engine | - |
| Phone-microphone bridge (`RemotePhoneMicPcmBridge.cs`) | jitter buffer under a lock; flags route requested / enabled / switch pending / started | Push (RTP callback), SetRouteEnabled (socket loop, close), 10 ms pump, Dispose | native engine, phone-microphone service | `PhoneMicRoute` |
| Phone-microphone and monitor WebRTC services | one session per client, peer connection state | offer, ICE, route, stop, close, rebind | bridge, native taps, server | `RemoteMediaSessions`, `PhoneMicSignalling` |
| Media deck (`MediaDeckService.cs`) | reader, generation, position, playing flag, worker task | Load, PlayPause, Stop, Seek, SetSendEnabled, SetEngineRunning, decoding worker | media stream buffer, phone's tap | `MediaDeck` |
| View model (`MainViewModel.cs`) | IsRunning, IsBusy, recovery armed / in progress, Remote Control's switch, profiles, pads | Start/Stop, Stop All, meter tick, device recovery, pads, Remote Control on / off / restart, Dispose, save timer | everything else, on the UI thread with awaits | `EngineRecovery`, `Soundboard`, `ServerLifecycle` |
| Remote server (`RemoteServerService.cs`, dispatcher, publisher) | hosts, lifetime, broadcast task, authenticated clients, invalidations | Start, Stop, Restart, pair, authenticate, dispatch, broadcast, revoke | pairing, view model, WebRTC services | `ServerLifecycle`, `RemoteSync`, `RemoteAccess` |
| Pairing and settings (`RemotePairingService.cs`, `RemoteSettingsStore.cs`) | paired clients with hashed tokens, one-time secret, attempts, settings file | regenerate, pair, validate, revoke, save | server | `RemoteAccess` |
| Web client (`GrassiBoard.RemoteWeb`: `useRemoteConnection`, `useRemotePhoneMicSpike` with `pages/remote-mic.vue`, `useRemoteMonitorSpike`) | socket, timers, last snapshot; peer, stream, negotiation and recovery timers | connect, reconnect with back-off, authenticate, send; enable, disable, route, negotiate, recover | server | `RemoteSync`, `PhoneMicSignalling` |
| Hotkeys (`GlobalHotkeyService.cs`) | registrations, push-to-talk held | refresh, hook, dispatch | view model | - |
| Profiles, soundboard layout | JSON files | load, save (temporary file, then move) | view model | - |
| Installer (`InstallationService.cs`) | target folder, manifest, registry | install, upgrade, uninstall | file system | - |
| Driver ring (`pcmring.h`, `cabletransport.cpp`) | two positions, generation, primed and active flags | Write, Read, SetRenderActive, SetCaptureActive | kernel driver no longer used by the app; the rest is Microsoft's SYSVAD sample | - |
| Cable matcher, device tool, theme, tray, crash reports, TLS, mDNS, QR, decoder | - | pure functions or I/O | - | - |

What is hard here, and what makes it correct:

* **Lock-free rings reset under the real-time threads** (remote input, media
  stream, pads' commands): nothing heard twice or after it was discarded, no torn
  sample, no wrapped difference.
* **A route agreed by three parties** (socket loop, pump, render thread) through
  unsynchronised flags: a route nobody requests ends on the Windows microphone;
  the phone goes live only over a prebuffered ring; a restart never re-arms it.
* **A decoding worker that acts on a snapshot** while the UI seeks, stops and
  loads: what the UI asked last is what stays.
* **An asynchronous recovery on the UI thread** beside user commands: a board
  the user stopped stays stopped; one he did not stop comes back.
* **Commands that outlive the state they were given in**: a pad pressed before a
  Stop All, or in one run of the engine, must not sound in the next (section 4
  names the one that does).
* **Coroutines with no lock between them**: Remote Control switched on, off and
  on again must leave one server, or none, as the switch says.
* **Credentials over failing files and crashes**: a paired phone stays paired, a
  revoked one is out for good.
* **Snapshots over sockets that come and go**: every change reaches the phone,
  and what it shows as "Connected" is of this connection.
* **A negotiation full of awaits** (permission, offer, candidates, answer) beside
  the user's Stop, a lost peer and a lost socket: no microphone stays open that
  nobody asked for.

## 2. Modules and how they correspond to the code

Each component is one module; `MC<Module>` gives it to TLC and
`<Module>Proofs` holds its theorems.  Two pairs share a proof module: the ring
and the route (`PhoneMicAudioProofs`), the server's life and the engine's
(`ViewModelProofs`); for their sake `RemoteInputBuffer` and `EngineRecovery` call
their specifications `BufferSpec` and `EngineSpec`, and so on.  `FrameChannel` is the abstract bounded FIFO
that two of them implement.

    FrameChannel <--implements-- RemoteInputBuffer <--pushes, reads, resets-- PhoneMicRoute
         ^------- implements --- Soundboard                                        ^
    EngineRecovery (who starts and stops the engine)     MediaDeck                 | a session's
    ServerLifecycle (who starts and stops the server)                              | route
         | a server that is on                                                     |
         +-- RemoteAccess (who may connect)        RemoteMediaSessions -- PhoneMicSignalling
         +-- RemoteSync (what a connection shows)  (who may speak, listen)  (how a phone speaks)

Modules meet where one component's step is another's environment: the engine of
`PhoneMicRoute`, `Soundboard` and `MediaDeck` is started and stopped at any point
at all, of which `EngineRecovery` says which really happen; `RemoteSync` takes
credentials as valid, `RemoteAccess` says when they are; the stop of the server in
`RemoteMediaSessions` is the "sessions" step of a Stop in `ServerLifecycle`.

**RemoteInputBuffer.**  `remote_input_buffer.cpp`, split at every shared access:
a Write loads the read sequence, stores its frames one by one, and publishes; a
Read loads both sequences, copies frame by frame, and commits by
compare-and-exchange (or abandons its copy); a Reset loads the write sequence and
stores it.  A frame is its number; a racing read of a slot yields anything.
The three operations run under a *discipline*: a Reset that has a Write beside it
has nothing else beside it.  The header promises correctness only for control
plane resets while the source is the Windows microphone; `PhoneMicRoute` says when
a reset by the bridge is not one of those, and section 4 which resets the
discipline leaves out.  What is left of the ring's promises beside such a reset is
not modelled.

**PhoneMicRoute.**  `RemotePhoneMicPcmBridge.cs` (socket loop, closing session
and pump as `pc["socket"]`, `pc["closing"]`, `pc["pump"]`; one place per line that
touches shared state) over the engine's source selector: `SetInputSourceMode`
stores the requested mode; the render thread, at a block boundary, loads it into
a copy of its own, publishes that as the active mode after a reset of its silence
state, and begins its read, each a step (`RenderLoadsMode`, `RenderAdoptsMode`,
`RenderEnds`; a block whose mode does not change is `RenderKeepsMode`), as it does
when it enters its loop (`WorkerLoadsMode`, `WorkerEntersLoop`).  A read counts as
begun from the earliest moment it can be.  The worker's start and exit restore
Windows.  The `Verdict` operator is the pump's decision list in the order of its
conditions.  `besideReset` is history: what ran beside the bridge's reset of the
native ring, a push or a read, and whether its check of the modes came while the
worker's copy was not published.  The engine's own resets are steps that empty
the ring; they are not in the history.
The engine is stopped, fails or is restarted, the peer fails or the client
stops the session at any point.

**EngineRecovery.**  `MainViewModel.StartStopAsync`, `StopAllAsync`, the meter
tick and `RecoverAudioRouteAsync`, with `DeviceRecoveryPolicy.SelectNextInput`.
A handler is atomic up to its next await; `command[c]` and `recovery` are where
each stands.  Native calls finish on the pool in any order the engine's mutex
allows.  The worker is `none`, `live` or `dead` (ended by itself but joinable:
`Start` refuses it).  Microphones come and go; `Broken` ones are listed but do
not start.  The enumeration of a recovery may find nothing (its first native call
fails) or throw (its second does), which ends the recovery in its `catch`
(`RecoveryThrows`): muted, not busy, to be tried again, with no microphone
remembered as failed.  `stopped` is history: how the last Stop All found the view model.

**Soundboard.**  The command ring of `soundboard_mixer.cpp` between the UI thread
and the render thread: the command is stored, then the index is published; a
drain takes the batch it saw and gives it back at its end; a reset at either end
of an engine run reads one index and stores it to the other.  A voice is the Play
command that started it.  A press of a pad that is not loaded awaits its load and
then plays without a second look at `IsRunning`; the pad may be pressed again while
it loads (`loading` counts the waiting presses by pad and by the run they came in),
and a press whose own load failed plays if another's has succeeded.  A Play
remembers, as history, the run of the engine it was *pressed* in and whether it
awaited a load; `run`, `stops`, `openedAt`, `accepted` and `taken` are history counts.

**MediaDeck.**  `MediaDeckService.cs` over `media_stream.cpp`.  A command changes
the deck's fields under its lock and then makes its native calls one by one
(`calls[t]` is what is still to be done by the UI thread, the pool and the
worker); the worker takes a snapshot, opens or reads a block, and sends,
activates, taps and notes its place, each a step; a Clear loads one counter and
stores the other, and so does a Pop.  The phone's tap is a locked queue that
drops its oldest.  A block is the generation it was decoded for and its place in
the file.

**RemoteAccess.**  `RemotePairingService`, `RemoteSettingsStore`, and what
`RemoteServerService` makes of them: the pairing request, the authentication of a
socket and `RevokeClientAsync`.  The pairing service's lock makes `CreatePairing`,
`TryPair`, `ValidateClientToken` and `Revoke` one step each, the save of the file
inside; the display of a new secret is after the lock (`making`, `shown`).  A save
may throw, a load may find the file unreadable, the program may be killed between
any two steps, an answer may be lost.  A socket is `hello`, `valid` (its token is
checked) and `served` (it is in the client set); a revocation takes the clients it
finds in the set and then closes them one by one.  `minted`, `removed`, `revoked`,
`paid`, `loadFailed` and `overtaken` (sockets a revocation passed between their
check and the set) are history.

**ServerLifecycle.**  `StartAsync`, `StopAsync` and `RestartAsync` with their callers
in the view model (the switch, the restart button, the program's start and
`Dispose`).  They are coroutines of the UI thread with no lock: a call runs up to
its next await in one turn, and any other call may run there.  Call *i* builds
server *i*; `app`, `broadcast`, `mdns` and `advertised` are the fields through which
calls hand each other a server, `mine` and `awaited` their locals.  Kestrel binds,
fails to bind and unbinds, and the broadcast loop ends, on other threads.  While
`exiting`, the UI thread sits in `Dispose` and runs nothing else.  `overlooked` is
history: servers a Stop did not see because they were still coming up.

**RemoteSync.**  `BroadcastLoopAsync`, the handshake and the message loop of
`HandleWebSocketAsync`, and the whole of `useRemoteConnection.ts`: its socket, its
reconnect and authentication timers, its handlers and what it shows.  The
desktop's state is a version number, raised by every change; an invalidation is a
queue of one that drops the oldest; the loop waits, delays, takes a snapshot and
tells the clients in the set one by one.  A socket carries messages both ways, is
closed by the phone or lost, and what is on its way may or may not arrive.  `heard`
and `source` are history: the newest version to arrive on the present socket,
and the message from which what is shown came.

**RemoteMediaSessions.**  The session tables of `RemoteMonitorWebRtcSpikeService`
and `RemotePhoneMicWebRtcSpikeService`: `Init` chooses which of the two a behaviour
is about (`service`), and the actions differ where the code does (when it looks
for a session in use; the taps).  A socket's loop offers, waits for the close of
the session it replaces, enters the new one and waits for its answer, or stops
it; a session's peer fails by itself; a close cancels, waits for the session's
worker, and only then switches the taps off.  `CloseAllAsync` takes all entries
and closes them one by one, beside the sockets that are still being served.
`closer`, `overwritten`, `beside` and `late` are history, kept for as long as a
session lasts.

**PhoneMicSignalling.**  `useRemotePhoneMicSpike.ts` with the buttons of its page, the
messages over the WebSocket both ways, and the desktop's session with its route:
permission, negotiation, gathering of candidates, answers, recovery, stop and
route requests, each await a place of its own, with the user, the browser and the
network acting in each.  A new socket rebinds the session to itself.  Peer *p*
makes at most one offer, and the session made for it is session *p*; ICE
candidates are part of the descriptions.  `silent` (the user's last word is Stop
and no earlier Enable is still waiting), `orphaned` (streams a second Enable took
the place of) and `armed` (over which socket a session's offer came, and when
and over which its route was asked for) are history.

Memory is taken to be sequentially consistent.  The bounds (`Horizon`, `MaxCommands`,
`MaxRuns`, `MaxLoads`, `MaxTokens`, `MaxCalls`, `MaxSockets`, `MaxVersion`, `MaxSessions`,
`MaxStarts`, `MaxPeers`, `MaxOfBoth`, `Room`) are guards of the input actions and of
sends; where they let a system come to rest, the configuration does not check
for deadlock.

## 3. Runs

| Run | States | Shows |
|---|---|---|
| `ring_resets` | 47 k | Writes of 1, 2 and 4 frames into 3 slots (the last is more than fits), reads, and resets of two threads, interleaved at every access: `ImplementsChannel` (a bounded FIFO), `BufferInv` (a Read that commits copied exactly what it takes; never overfull), `ReadNeverMovesBackwards`. |
| `route` | 1.2 M | The engine stops, fails and restarts, and the session closes, anywhere in a route operation: `RouteInv`, `CheckedResetNotBesideBoth` (a reset by the bridge has a push and a read beside it only if its check missed a worker that had loaded Remote and not published it), `ReturnedMeansWindows` (nobody in an operation, nothing requested: the selector is back), `ReturnWins` (the render thread follows) and `GoesLiveOrDrops` (a request goes live or is dropped, while the phone sends and the engine is not restarted for ever). |
| `recovery` | 0.84 M | Two commands in flight beside the recovery, three microphones of which two never start, enumerations that fail: `RecoveryInv`, `NeverShownLiveMuted`, `CleanStopIsFinal`, `NeverWedged`, `RecoversUnlessStarved` (an armed recovery brings the engine back unless the default microphone and the first other one are both broken). |
| `soundboard` | 1.7 M | Two pads (one looping and layered, one loaded on demand, by up to two presses at a time), two runs of the engine, a queue of two commands that wraps, two voices: `SoundboardInv`, `NoVoiceOutlivesItsStop`, `SoundsAreOfThisRun` (queued in this run, and pressed in it unless the press awaited a load), `ImplementsFifo`, `StopsAreObeyed`. |
| `media_deck` | 2.0 M | Files of two blocks, commands up to generation 3, engine restarts: `MediaDeckInv`, `PhoneNeverReplays`, `OneBlockLate` (after a command at most one block and one chunk from before it come through), `StopSilences`. |
| `access` | 1.3 M | A phone with up to two sockets, paired up to twice, three secrets, two wrong codes allowed, files that fail and a program that is killed: `AccessInv`, `HandedOutIsOnFile`, `RevokedStaysOut`, `OnlyTheRaceIsMissed`, `ForgetsOnlyRevoked`. |
| `lifecycle` | 0.32 M | Five calls that start, stop, restart or leave, interleaved at their awaits: `LifecycleInv`, `NoOrphanServer`, `OffUnlessOverlooked`, `StopEnds`. |
| `sync` | 0.32 M | A phone that opens a second socket while the server still has the first, two changes, one message in a socket at a time: `SyncInv`, `RestIsCurrent`, `ChangeReachesPhone`. |
| `sessions` | 2.9 M | Two phones, one of them with two sockets, two sessions, while the server stops; both services: `SessionsInv`, `AloneHasTaps`, `OnlyLateOnesOutlive`. |
| `signalling` | 0.79 M | Two presses of Enable, or one and a reconnection, two peers: `SignallingInv` (no peer left over, no route armed by itself), `StopIsFinal`, `StopReleases`. |
| `media_plays_on`, `lifecycle_exit` | | Violations, section 4. |

Every property of a passing run has a mutant: a plausible bug of the code (a
check left out, the wrong order, an off-by-one) under which TLC finds the
property violated in the same configuration.

**Why the bounds are enough.**  The interesting cases all happen within them, as
the mutants show.  Three slots wrap twice under seven frames, one more than a
batch takes and fewer than the largest; two resetting threads are as many as can
matter to a pair.  One native block and two startup blocks keep the order of the
code's thresholds, so the switch waits both for a start and for a refill.  Of
three microphones the two broken ones starve the third while all are plugged in,
and cannot while one of them is not.  Two queue entries fill up, wrap and are drained while full; two voices
run out; two runs of the engine and two presses that wait for one pad's load let
a press end in the run after its own, and a load fail beside one that succeeds.
Two blocks make a middle and an end of a file; generation 3 leaves
room for load, play and two more commands after it.  Two tokens let a phone be
paired again while its old credential is still being revoked.  Five calls are off
and on again while a restart is under way.  Two sockets of one phone are the
overlap of an old connection with its successor; two sessions are one that is
being closed and one that is being made.  The two sockets and the three secrets
of `access`, and the first phone's sockets in `sessions`, are symmetric.  `recovery` held with the exception dropped (`Recovers`) when the
broken microphones were the first and the last of the preference.  `route`
leaves one combination out (`OneAtATime` in its MC module): an engine that is
being stopped or restarted, or that fails, while the session is closing; the
proofs have no such limit.  `signalling` also held with three peers (3.4 M
states).  What is proved (section 5) does not depend on the sizes.

**Fairness.**  Weak fairness only.  `PhoneMicRoute`: every managed thread goes on
with an operation it is in, the pump's timer ticks, the render thread and a
stopping or starting engine go on; `GoesLiveOrDrops` also assumes that packets
keep arriving (`PhoneSends`), and excuses an engine that is restarted for ever.  No
command, close, failure or restart is ever forced.  `EngineRecovery`: handlers
resume after their awaits, the meter tick fires, the retry falls due, and a stream
whose device is gone ends (`StreamDies`); plugging, failures and commands are not
forced.  `Soundboard`: the worker goes on and a stored command is published.
`MediaDeck`: the decoding worker, the calls a thread has begun, and the render
thread go on.  `ServerLifecycle`: the UI thread runs what is posted to it, unless it
is blocked; Kestrel binds or fails, and unbinds; a cancelled loop ends.
`RemoteSync`: the loop, the sockets' handlers and the phone's reconnect timer run,
and what is sent is read or its socket is lost; nothing is assumed of the user, of
losses or of the time-outs, and the last socket of the run is left undisturbed, as
some connection must last for a change to arrive.  `PhoneMicSignalling`: the
desktop's loops run, events that have been sent are read, the application of an
answer ends, and the desktop notices a peer the phone has closed; nothing is
assumed of the user, the permission dialogue, the browser or the network.
`RemoteAccess` and `RemoteMediaSessions` state safety only.  All of these are threads
or timers that nothing in the models can disable for ever; a native call that
never returns (a hung driver) is outside them.

## 4. What was found

Two are runs that TLC finds violated, with the document's line in `PROJECT.json`:

* `media_plays_on`: the ring is cleared before it is deactivated; a worker that
  fills it in between leaves it full and inactive, and waits for it for ever
  (`MediaDeckService.cs:207`).
* `lifecycle_exit`: with the server running, `Dispose` blocks the UI thread on a
  `StopAsync` whose awaits resume on that thread (`MainViewModel.cs:2403`).

The following have a property of their own beside the module's other ones, or a
remark, and no run: what the documentation says holds but for a narrow race, and
the property that does hold is in a passing run.  To see a counterexample, add
the named property to the module's configuration.

| Property | The code | The document |
|---|---|---|
| `Recovers` (`EngineRecovery`) | `SelectNextInput` remembers one failure, so two bad microphones starve a third that works (`DeviceRecoveryPolicy.cs:14`) | `docs/recovery.md:5` |
| `TakenStopIsFinal` (`EngineRecovery`) | a Stop All taken beside a start or a recovery in flight is undone when that one goes on (`MainViewModel.cs:1911`) | `README.md:31` |
| `PressDiesWithItsRun` (`Soundboard`) | a pad pressed in one run of the engine and still loading when a Stop All ends it sounds in the next run, if its load ends there (`MainViewModel.cs:1188`) | `docs/audio-pipeline.md:29` |
| `StopToZero` (`MediaDeck`) | the worker notes its place over the zero a Stop has set (`MediaDeckService.cs:431`) | `docs/media-deck.md:7` |
| `ClosedMeansWindows` (`PhoneMicRoute`) | a route request in flight while its session closes can leave the selector on the phone: `DisposeAsync` returns to Windows once, before it joins the pump (`RemotePhoneMicPcmBridge.cs:424`) | `docs/remote-audio.md:85` |
| `ResetNotBesideBoth` (`PhoneMicRoute`) | a worker that has loaded Remote and not yet stored it (`wasapi_engine.cpp:792, 801`) passes for Windows: after a Return, the reset of the next Enable (`RemotePhoneMicPcmBridge.cs:101-112`) then has a late push of the pump and a read beside it | `RemotePhoneMicPcmBridge.cs:107`, `remote_input_buffer.h:14-16` |
| `RevokedIsCut` (`RemoteAccess`) | a socket between the check of its token and the client set is not found by the revocation and is served on (`RemoteServerService.cs:467`) | `docs/remote-control.md:106` |
| `ShowsTheLatest` (`RemoteSync`) | the first snapshot is taken and sent by the socket's own task: it may arrive after a newer broadcast, and the phone takes it as it comes, until the next change (`RemoteServerService.cs:470, 619`, `useRemoteConnection.ts:323`) | `docs/remote-control.md:132` |
| `ListenerKeepsTaps` (`RemoteMediaSessions`) | the close of a session switches the engine's taps off whoever listens by now; two sockets of one phone are enough (`RemoteMonitorWebRtcSpikeService.cs:1218`) | the refusal's own text in that service |

Seen while modelling, true of the models, and stated by no document:

* The worker resets the remote input ring when it starts and when it exits
  (`wasapi_engine.cpp:558, 952`), whatever the bridge is doing: also between the
  load and the store of a reset by the bridge that has a push beside it.  No
  property says that it does not.
* A microphone session whose peer failed keeps its entry, which keeps every other
  phone out until its own phone offers again or stops
  (`RemotePhoneMicWebRtcSpikeService.cs:382`).
* An offer whose candidates are still being gathered is sent after a Stop
  (`useRemotePhoneMicSpike.ts:284-289`); `StopReleases` shows that the desktop still
  lets go of it.
* A permission granted after a Stop, while a second Enable is waiting, is taken
  (`:340-361`), and of two Enables the first's track stays live without an owner;
  `StopIsFinal` excepts exactly these.
* An answer does not say which offer it is for: a late one is applied to, or
  resets, a newer peer without a recovery being scheduled (`:172-183`).
* A Restart or a switch thrown while another call is in flight may leave a server
  on with the switch off (`OffUnlessOverlooked` says exactly when), or a Stop that
  waits for the new server's loop (`StopEnds`).

## 5. Proofs

TLAPS proves the following for every value of the constants that satisfies the
named assumption of the module (sizes are naturals, capacities at least what the
constructors enforce).  Each safety proof is an invariance proof: `InitInv`, one
lemma per action or group of actions, `Invariance`, and corollaries.  Most
inductive invariants are invariants of the module's run as well; `LateInv`, `RestInv`
and `Inv` of `PhoneMicSignallingProofs` TLC found to hold at the run's bounds
before they were proved.

| Module | Theorems | Inductive invariant and why it is needed |
|---|---|---|
| `PhoneMicAudioProofs`, the ring | `BufferInvariance`, `BufferTypeCorrect`, `ReadsAreExact`, `Bounded`, `NeverBackwards`, `Refinement` (implements `FrameChannel`) | `BufferInv`: every owed frame is in its slot; a Read is behind what it saw; a Reset under way is ahead of the reader; and the discipline, spelled out over what is beside each Reset. That a Read's copy is right cannot be seen from its commit alone. |
| `PhoneMicAudioProofs`, the route | `Invariance`, `TypeCorrect`, `Returned`, `CheckedResets` | `RouteInv`: whoever holds the selector on the phone is accounted for by a request or by a thread still to put it back (`ModeAccounted`); the worker's copy differs from the active mode only where it is about to be published (`CopyPublished`); a late switch of the pump means that pump will not push, unless the reset's check missed the worker's copy (`LateSwitchSettles`), and what a checked reset has beside it tells on which side of its switch the pump is (`BesideResetSettles`). The last two are why such a reset meets a push or a read, never both. |
| `ViewModelProofs`, the engine | `EngineInvariance`, `CleanStop`, `NotMuted` | `RecoveryInv`: a clean stop leaves nothing behind that could start the engine, and a live engine after it has its stop still to run. |
| `ViewModelProofs`, the server | `Lifecycle`, `NoOrphan`, `OneLoop`, `OffMeansOff` | `LifecycleInv` says where the port and the lifetime may be at each place of a call; on it rest, as further invariants, `NoOrphanServer`, the one live loop, and `SwitchedOff`: from the first step of a Stop on, all that is or comes up was overlooked by it. |
| `SoundboardProofs` | `Invariance`, `StopsAreFinal`, `RunsAreSeparate`, `Refinement` (implements `FrameChannel`) | `SoundboardInv`: the wrapping indices are the unbounded counts modulo the array, each command is in its slot until given back, the latest stop of a pad is behind the worker or in its slot. For `RunsAreSeparate`, `PlaysInPlace`: whatever is still in the queue and numbered since the worker opened is of its run; and `StartsAreQuiet`: until a start is over only a press that awaited a load can be about to be queued. |
| `MediaDeckProofs` | `Invariance`, `NoReplay`, `OneLate` | `MediaDeckInv`: the counters' order however late a Clear or a Pop stores, and `DecodesForwards`: what the worker has in hand or its reader is at is later than all it has delivered. For `OneLate`, `LateInv`: once an older block has been handed over, all that the worker can still hand over without looking at the deck again is that block or a new one; and in a tap that has been cleared an older block is alone. |
| `RemoteAccessProofs` | `Access`, `RevokedForGood`, `CredentialsLast`, `OneTime`, `OnlyOvertakenMissed`, `NothingForgotten` | `Inductive`: `AccessInv` (what is with a phone was minted; a revoked socket is overtaken or about to be looked for or closed) with `RevokedStaysOut`, `HandedOutIsOnFile` and `LiveSecretUnused`. Records and file differ after a failed save, so each has to be spoken of. |
| `RemoteMediaSessionsProofs` | `SessionsHold`, `TapsHold`, `Outlive` | `SessionsInv`: an open session has its owner's entry, or the server is about to close it, or its entry was overwritten; a loop waits for the close it began; a session that has been alone is still alone. |
| `RemoteSyncProofs` | `Invariance`, `Synced`, `AtRestCurrent` | `RestInv`: whose each socket is (`OwnerInv`); no copy of the state is newer than it is; and every served phone is informed, by what it has heard or what is on its way, or about to be told by an invalidation or a round of the loop that is not over. That the phone is up to date at rest follows only when all the ways it could still be told are spent. |
| `PhoneMicSignallingProofs` | `Invariance`, `Signalling`, `Stopped` | `Inv`: the one peer and the one session that may be open; after a stop nothing a recovery could take up; and `QueueInv`: a request for the route that is older than an offer is ahead of it, in its queue or on an earlier socket. No session is armed by a request meant for another because no such request is left once its own offer is taken, but on an earlier socket. |

The models' bounds on inputs (`Horizon`, `MaxCommands`, ...) are constants too, and
arbitrary in the proofs.

Every safety property of a run is proved.  Only model-checked: all liveness
(`GoesLiveOrDrops`, `ReturnWins`, `NeverWedged`, `RecoversUnlessStarved`, `StopsAreObeyed`,
`StopSilences`, `StopEnds`, `ChangeReachesPhone`, `StopReleases`), which rests on
fairness and so on ENABLED, beyond the prover's temporal backend; and the
findings, which are counterexamples.

The proof of `Signalling` changed its statement.  A route was once taken to have
been asked for of an earlier session if its request came over an earlier socket
than the one the session is *bound* to.  With four sockets that is no invariant:
their loops rebind the session in any order.  `NeverRearmed` now speaks of the
socket the session's offer came over.

## 6. What is not modelled

Of the implementation's 30 000 lines about 20 000 are Microsoft's SYSVAD sample
driver under `GrassiBoard.Driver`, which the application no longer uses
(`docs/external-virtual-cable.md`: it plays into VB-CABLE), and a good part of the
rest is windows, styles, profiles and pages.  What is modelled is where threads,
awaits, failures and messages meet.  Left out, and why:

* **The driver**, its ring included: retired from product builds
  (`docs/driver-design.md:3`).  Its `Flush` loads a position and stores it without a
  lock (`pcmring.h:173`), beside the other stream's start and Writes.
* **Sample values**, volumes, mixing, pitch, resampling, codecs and telemetry:
  arithmetic within one thread, which the repository's native tests cover.
* **Weaker memory orders** than sequential consistency.  One place depends on
  them: the store of the native mode and the read of `_routeRequested` after it
  (`RemotePhoneMicPcmBridge.cs:284`) may be reordered by a processor.
* **The monitor taps' ring.**  It is the remote input ring but for its Read, which
  stores its index unconditionally; a Reset beside it loses at most one tap of
  old sound.  Who has the taps is in `RemoteMediaSessions`.
* **The monitor's composable** (`useRemoteMonitorSpike`): it negotiates as
  `useRemotePhoneMicSpike` does, without a route.
* **ICE candidates** sent apart from their descriptions, TLS, mDNS, addresses, QR
  codes, HTTP pages, the check for duplicate message ids.
* **Hotkeys, profiles, pads' layout, installer, shell**: sequential, on one thread,
  with no protocol.
* **Output devices** and their loss, profile switches, the deck's headphone
  monitor and alignment delay, what a pad shows.
* **Overlaps between modules**: two bridges steering one engine while one
  session replaces another; the engine disposed beside a running recovery
  (`MainViewModel.cs:2405`).

Known weak places of the code that no property speaks of, as there is nothing to
contradict or they are decided by a constant: the fill that allows a switch is
read before a Return and a new request (`RemotePhoneMicPcmBridge.cs:281`); the
pump cannot tell one run of the engine from the next (`:193`); a device wait that
times out is ignored (`wasapi_engine.cpp:697`); commands over the queue's limit are
dropped (`soundboard_mixer.cpp:130`); what is read ahead at the end of a file is
dropped, as the ring is deactivated at once (`MediaDeckService.cs:393`); the
desktop and a request may both make a
pairing secret, of which the later is valid and the other may be shown
(`RemoteServerService.cs:415`); one phone that does not read holds up the broadcast
for all (`:622`); a Stop All is dropped while another operation is in flight
(`MainViewModel.cs:1225`).

## 7. What is left

| Module | State | Left |
|---|---|---|
| `RemoteInputBuffer` | checked; safety and refinement proved | what is left of its promise where the discipline is broken |
| `PhoneMicRoute` | checked, safety proved | a second bridge beside a closing one |
| `EngineRecovery` | checked, safety proved | output devices; the disposal of the engine |
| `Soundboard` | checked; safety and refinement proved | edits and deletions of pads |
| `MediaDeck` | checked, safety proved | the alignment delay |
| `RemoteAccess` | checked, safety proved | - |
| `ServerLifecycle` | checked, safety proved | - |
| `RemoteMediaSessions` | checked, safety proved | the events sent to a phone |
| `RemoteSync` | checked, safety proved | - |
| `PhoneMicSignalling` | checked, safety proved | the monitor's composable |
| `MonitorTap` | not begun | the taps' ring, as a variant of `RemoteInputBuffer` |
