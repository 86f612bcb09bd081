-------------------------- MODULE MediaDeckProofs --------------------------
(***************************************************************************)
(* For files of any length, any ring and any tap: the read counter never   *)
(* passes the write counter, whatever a Clear or a Pop stores late,        *)
(* nothing is replayed on the phone, and a command is followed by at most  *)
(* one block from before it.                                               *)
(***************************************************************************)
EXTENDS MediaDeck, TLAPS

USE MediaDeckAssumption
USE DEF deck, model, decoder, ring, render, remote, history, untouched, others, None

CallNames == {"clear", "deactivate", "clearTap", "forget", "start", "halt", "stopEngine", "stopped"}

\* The calls a thread is given, or has left, are calls.
LEMMA CallsStayCalls ==
  ASSUME TypeOK, NEW t \in Threads
  PROVE  /\ \A todo \in Seq(CallNames) : Issue(t, todo) => calls' \in [Threads -> Seq(CallNames)]
         /\ calls[t] # <<>> /\ Returns(t) => calls' \in [Threads -> Seq(CallNames)]
  <1>1. calls \in [Threads -> Seq(CallNames)] BY DEF TypeOK, CallNames
  <1>2. \A todo \in Seq(CallNames) : Issue(t, todo) => calls' \in [Threads -> Seq(CallNames)]
    BY <1>1 DEF Issue
  <1>3. calls[t] # <<>> => Tail(calls[t]) \in Seq(CallNames) BY <1>1
  <1> QED BY <1>2, <1>3 DEF Returns

\* So are those the handlers and the worker ask for.
LEMMA Todo ==
  /\ PlayCalls \in Seq(CallNames) /\ StopCalls \in Seq(CallNames)
  /\ StopCalls \o <<"forget">> \in Seq(CallNames)
  /\ StopCalls \o <<"stopEngine">> \in Seq(CallNames)
  /\ <<>> \in Seq(CallNames) /\ <<"clearTap">> \in Seq(CallNames)
  /\ <<"clear", "deactivate">> \in Seq(CallNames)
  /\ <<"deactivate", "clear">> \in Seq(CallNames)
  /\ <<"deactivate">> \in Seq(CallNames)
  /\ <<"clear", "deactivate", "start">> \in Seq(CallNames)
  /\ <<"halt", "clear", "deactivate">> \in Seq(CallNames)
  /\ <<"clear", "deactivate", "stopped">> \in Seq(CallNames)
  BY DEF CallNames, PlayCalls, StopCalls

\* What the worker has in hand is a block of the file.
LEMMA BlockInHand ==
  ASSUME TypeOK, DecodesForwards, worker \in {"sending", "activating", "tapping"}
  PROVE  block \in Blocks /\ reader \in 1..Length /\ active \in Nat
  BY DEF TypeOK, DecodesForwards, Delivered, Blocks, NoBlock

\* The initial state satisfies the invariants.
LEMMA InitInv == Init => MediaDeckInv /\ PhoneNeverReplays
  <1> SUFFICES ASSUME Init PROVE MediaDeckInv /\ PhoneNeverReplays
    OBVIOUS
  <1>1. calls \in [Threads -> Seq(CallNames)] BY Todo DEF Init
  <1>2. snap \in [generation : Nat, at : 0..Length, send : BOOLEAN, tap : BOOLEAN]
    BY DEF Init, NoSnap
  <1>3. tap \in Seq(Blocks) BY DEF Init
  <1>4. /\ playing \in BOOLEAN /\ send \in BOOLEAN /\ isRunning \in BOOLEAN /\ loading \in BOOLEAN
        /\ streaming \in BOOLEAN /\ rendering \in BOOLEAN /\ tapOn \in BOOLEAN
    BY DEF Init
  <1>5. loads \in [Threads -> Nat \cup {None}] BY DEF Init
  <1>6. TypeOK BY <1>1, <1>2, <1>3, <1>4, <1>5 DEF Init, TypeOK, CallNames
  <1>7. ReadNeverPassesWrite BY DEF Init, ReadNeverPassesWrite, Threads
  <1>8. DecodesForwards BY DEF Init, DecodesForwards, Delivered, NoBlock
  <1>9. PhoneNeverReplays BY DEF Init, PhoneNeverReplays
  <1> QED BY <1>6, <1>7, <1>8, <1>9 DEF MediaDeckInv

-----------------------------------------------------------------------------
(* Types. *)

\* The calls.
LEMMA CallTypes ==
  ASSUME TypeOK, Call
  PROVE  TypeOK'
  <1> USE DEF CallNames
  <1>1. ASSUME NEW t \in Threads, Deactivate(t) PROVE TypeOK'
    <2>1. calls' \in [Threads -> Seq(CallNames)]
      BY <1>1, CallsStayCalls DEF Deactivate, Calling
    <2>2. streaming' \in BOOLEAN
      BY <1>1 DEF Deactivate
    <2> QED BY <1>1, <2>1, <2>2 DEF Deactivate, TypeOK
  <1>2. ASSUME NEW t \in Threads, ClearLoads(t) PROVE TypeOK'
    BY <1>2 DEF ClearLoads, TypeOK
  <1>3. ASSUME NEW t \in Threads, ClearStores(t) PROVE TypeOK'
    <2>1. calls' \in [Threads -> Seq(CallNames)]
      BY <1>3, CallsStayCalls DEF ClearStores, Calling
    <2>2. readFrame' \in Nat
      BY <1>3 DEF ClearStores, TypeOK
    <2>3. loads' \in [Threads -> Nat \cup {None}]
      BY <1>3 DEF ClearStores, TypeOK
    <2> QED BY <1>3, <2>1, <2>2, <2>3 DEF ClearStores, TypeOK
  <1>4. CASE ClearTap
    <2>1. calls' \in [Threads -> Seq(CallNames)]
      BY <1>4, CallsStayCalls DEF ClearTap, Calling, Threads
    <2>2. tap' \in Seq(Blocks)
      BY <1>4 DEF ClearTap
    <2> QED BY <1>4, <2>1, <2>2 DEF ClearTap, TypeOK
  <1>5. CASE Forget
    <2>1. calls' \in [Threads -> Seq(CallNames)]
      BY <1>5, CallsStayCalls DEF Forget, Calling, Threads
    <2>2. generation' \in Nat /\ transport' \in 0..generation'
      BY <1>5 DEF Forget, TypeOK
    <2> QED BY <1>5, <2>1, <2>2 DEF Forget, TypeOK
  <1>6. CASE EngineStops
    <2>1. calls \in [Threads -> Seq(CallNames)] /\ Tail(calls["ui"]) \in Seq(CallNames)
      BY <1>6 DEF EngineStops, Calling, Threads, TypeOK
    <2>2. calls' \in [Threads -> Seq(CallNames)]
      BY <1>6, <2>1, Todo DEF EngineStops, Threads
    <2>3. UNCHANGED <<deck, model, loads, decoder, ring, render, remote, history>>
      BY <1>6 DEF EngineStops
    <2> QED BY <2>2, <2>3 DEF TypeOK
  <1>7. CASE RenderStarts
    <2>1. calls' \in [Threads -> Seq(CallNames)]
      BY <1>7, CallsStayCalls DEF RenderStarts, Calling, Threads
    <2> QED BY <1>7, <2>1 DEF RenderStarts, TypeOK
  <1>8. CASE RenderHalts
    <2>1. calls' \in [Threads -> Seq(CallNames)]
      BY <1>8, CallsStayCalls DEF RenderHalts, Calling, Threads
    <2>2. rendering' \in BOOLEAN
      BY <1>8 DEF RenderHalts
    <2> QED BY <1>8, <2>1, <2>2 DEF RenderHalts, TypeOK
  <1>9. CASE EndStart
    <2>1. calls' \in [Threads -> Seq(CallNames)]
      BY <1>9, CallsStayCalls, Todo DEF EndStart, Threads
    <2> QED BY <1>9, <2>1 DEF EndStart, TypeOK
  <1>10. CASE EndStop
    <2>1. calls' \in [Threads -> Seq(CallNames)]
      BY <1>10, CallsStayCalls, Todo DEF EndStop, Threads
    <2> QED BY <1>10, <2>1 DEF EndStop, TypeOK
  <1>11. CASE NotRunning
    <2>1. calls' \in [Threads -> Seq(CallNames)]
      BY <1>11, CallsStayCalls DEF NotRunning, Calling, Threads
    <2>2. isRunning' \in BOOLEAN
      BY <1>11 DEF NotRunning
    <2> QED BY <1>11, <2>1, <2>2 DEF NotRunning, TypeOK
  <1> QED BY <1>1, <1>2, <1>3, <1>4, <1>5, <1>6, <1>7, <1>8, <1>9, <1>10, <1>11 DEF Call

\* The commands.
LEMMA CommandTypes ==
  ASSUME TypeOK, Command
  PROVE  TypeOK'
  <1> USE DEF CallNames
  <1>1. CASE PlayPause
    <2>1. calls' \in [Threads -> Seq(CallNames)]
      BY <1>1, CallsStayCalls, Todo DEF PlayPause, Commanded, Threads
    <2>2. playing' \in BOOLEAN
      BY <1>1 DEF PlayPause, TypeOK
    <2>3. position' \in 0..Length
      BY <1>1 DEF PlayPause, TypeOK, Duration
    <2>4. generation' \in Nat /\ transport' \in 0..generation'
      BY <1>1 DEF PlayPause, Commanded, TypeOK
    <2> QED BY <1>1, <2>1, <2>2, <2>3, <2>4 DEF PlayPause, Commanded, EnsureWorker, TypeOK
  <1>2. CASE Stop
    <2>1. calls' \in [Threads -> Seq(CallNames)]
      BY <1>2, CallsStayCalls, Todo DEF Stop, StopsDeck, Commanded, Threads
    <2>2. playing' \in BOOLEAN
      BY <1>2 DEF Stop, StopsDeck
    <2>3. position' \in 0..Length
      BY <1>2 DEF Stop, StopsDeck
    <2>4. generation' \in Nat /\ transport' \in 0..generation'
      BY <1>2 DEF Stop, StopsDeck, Commanded, TypeOK
    <2> QED BY <1>2, <2>1, <2>2, <2>3, <2>4 DEF Stop, StopsDeck, Commanded, TypeOK
  <1>3. CASE Clear
    <2>1. calls' \in [Threads -> Seq(CallNames)]
      BY <1>3, CallsStayCalls, Todo DEF Clear, StopsDeck, Commanded, Threads
    <2>2. playing' \in BOOLEAN
      BY <1>3 DEF Clear, StopsDeck
    <2>3. position' \in 0..Length
      BY <1>3 DEF Clear, StopsDeck
    <2>4. generation' \in Nat /\ transport' \in 0..generation'
      BY <1>3 DEF Clear, StopsDeck, Commanded, TypeOK
    <2> QED BY <1>3, <2>1, <2>2, <2>3, <2>4 DEF Clear, StopsDeck, Commanded, TypeOK
  <1>4. CASE BeginLoad
    <2>1. calls' \in [Threads -> Seq(CallNames)]
      BY <1>4, CallsStayCalls, Todo DEF BeginLoad, Threads
    <2>2. loading' \in BOOLEAN
      BY <1>4 DEF BeginLoad
    <2> QED BY <1>4, <2>1, <2>2 DEF BeginLoad, TypeOK
  <1>5. CASE EndLoad
    <2>1. calls' \in [Threads -> Seq(CallNames)]
      BY <1>5, CallsStayCalls, Todo DEF EndLoad, Commanded, Threads
    <2>2. playing' \in BOOLEAN
      BY <1>5 DEF EndLoad
    <2>3. position' \in 0..Length
      BY <1>5 DEF EndLoad
    <2>4. loading' \in BOOLEAN
      BY <1>5 DEF EndLoad
    <2>5. generation' \in Nat /\ transport' \in 0..generation'
      BY <1>5 DEF EndLoad, Commanded, TypeOK
    <2> QED BY <1>5, <2>1, <2>2, <2>3, <2>4, <2>5 DEF EndLoad, Commanded, TypeOK
  <1>6. CASE SwitchSend
    <2>1. calls' \in [Threads -> Seq(CallNames)]
      BY <1>6, CallsStayCalls, Todo DEF SwitchSend, Threads
    <2>2. send' \in BOOLEAN
      BY <1>6 DEF SwitchSend, TypeOK
    <2>3. generation' \in Nat /\ transport' \in 0..generation'
      BY <1>6 DEF SwitchSend, TypeOK
    <2> QED BY <1>6, <2>1, <2>2, <2>3 DEF SwitchSend, TypeOK
  <1>7. CASE Reroute
    <2>1. generation' \in Nat /\ transport' \in 0..generation'
      BY <1>7 DEF Reroute, TypeOK
    <2> QED BY <1>7, <2>1 DEF Reroute, TypeOK
  <1>8. ASSUME NEW to \in 0..Length, Seek(to) PROVE TypeOK'
    <2>1. calls' \in [Threads -> Seq(CallNames)]
      BY <1>8, CallsStayCalls, Todo DEF Seek, Commanded, Threads
    <2>2. generation' \in Nat /\ transport' \in 0..generation'
      BY <1>8 DEF Seek, Commanded, TypeOK
    <2> QED BY <1>8, <2>1, <2>2 DEF Seek, Commanded, TypeOK
  <1> QED BY <1>1, <1>2, <1>3, <1>4, <1>5, <1>6, <1>7, <1>8 DEF Command

\* The worker.
LEMMA WorkerTypes ==
  ASSUME TypeOK, DecodesForwards, Worker
  PROVE  TypeOK'
  <1> USE DEF CallNames
  <1>1. CASE FindsPaused
    BY <1>1 DEF FindsPaused, TypeOK
  <1>2. CASE FindsPlaying
    <2>1. snap' \in [generation : Nat, at : 0..Length, send : BOOLEAN, tap : BOOLEAN]
      BY <1>2 DEF FindsPlaying, Snapshot, TypeOK
    <2> QED BY <1>2, <2>1 DEF FindsPlaying, TypeOK
  <1>3. CASE Opens
    <2>1. calls' \in [Threads -> Seq(CallNames)]
      BY <1>3, CallsStayCalls, Todo DEF Opens, Threads
    <2>2. reader' \in 0..Length \cup {None}
      BY <1>3 DEF Opens, TypeOK
    <2>3. active' \in Nat \cup {None}
      BY <1>3 DEF Opens, TypeOK
    <2> QED BY <1>3, <2>1, <2>2, <2>3 DEF Opens, TypeOK
  <1>4. CASE OpenFails
    <2>1. playing' \in BOOLEAN
      BY <1>4 DEF OpenFails, GivesUp
    <2>2. generation' \in Nat /\ transport' \in 0..generation'
      BY <1>4 DEF OpenFails, GivesUp, TypeOK
    <2>3. snap' \in [generation : Nat, at : 0..Length, send : BOOLEAN, tap : BOOLEAN]
      BY <1>4 DEF OpenFails, NextTurn, NoSnap
    <2> QED BY <1>4, <2>1, <2>2, <2>3 DEF OpenFails, GivesUp, NextTurn, TypeOK
  <1>5. CASE Opened
    BY <1>5 DEF Opened, TypeOK
  <1>6. CASE Waits
    <2>1. snap' \in [generation : Nat, at : 0..Length, send : BOOLEAN, tap : BOOLEAN]
      BY <1>6 DEF Waits, NextTurn, NoSnap
    <2> QED BY <1>6, <2>1 DEF Waits, NextTurn, TypeOK
  <1>7. CASE Reads
    <2>1. block' \in Blocks \cup {NoBlock}
      BY <1>7 DEF Reads, TypeOK, DecodesForwards, Blocks
    <2>2. reader' \in 0..Length \cup {None}
      BY <1>7 DEF Reads, TypeOK, DecodesForwards
    <2> QED BY <1>7, <2>1, <2>2 DEF Reads, TypeOK
  <1>8. CASE ReadsNothing
    BY <1>8 DEF ReadsNothing, TypeOK
  <1>9. CASE ReadFails
    <2>1. calls' \in [Threads -> Seq(CallNames)]
      BY <1>9, CallsStayCalls, Todo DEF ReadFails, Threads
    <2>2. playing' \in BOOLEAN
      BY <1>9 DEF ReadFails, GivesUp
    <2>3. generation' \in Nat /\ transport' \in 0..generation'
      BY <1>9 DEF ReadFails, GivesUp, TypeOK
    <2> QED BY <1>9, <2>1, <2>2, <2>3 DEF ReadFails, GivesUp, TypeOK
  <1>10. CASE Sends
    <2>1. writeFrame' \in Nat
      BY <1>10 DEF Sends, TypeOK
    <2>2. late' \subseteq Blocks
      BY <1>10, BlockInHand DEF Sends, HandedOver, TypeOK
    <2> QED BY <1>10, <2>1, <2>2 DEF Sends, TypeOK
  <1>11. CASE Activates
    BY <1>11 DEF Activates, TypeOK
  <1>12. CASE Taps
    <2>1. (IF Len(tap) < TapBlocks THEN tap ELSE Tail(tap)) \in Seq(Blocks)
      <3>1. tap \in Seq(Blocks) /\ (Len(tap) >= TapBlocks => tap # <<>>) BY DEF TypeOK
      <3> QED BY <3>1
    <2>2. \A kept \in Seq(Blocks) : Append(kept, block) \in Seq(Blocks)
      BY <1>12, BlockInHand DEF Taps
    <2>3. tap' \in Seq(Blocks)
      BY <1>12, <2>1, <2>2 DEF Taps, TypeOK
    <2>4. late' \subseteq Blocks
      BY <1>12, BlockInHand DEF Taps, HandedOver, TypeOK
    <2> QED BY <1>12, <2>3, <2>4 DEF Taps, TypeOK
  <1>13. CASE Notes
    <2>1. position' \in 0..Length
      BY <1>13 DEF Notes, TypeOK, DecodesForwards, Least, Duration
    <2>2. snap' \in [generation : Nat, at : 0..Length, send : BOOLEAN, tap : BOOLEAN]
      BY <1>13 DEF Notes, NextTurn, NoSnap
    <2> QED BY <1>13, <2>1, <2>2 DEF Notes, NextTurn, TypeOK
  <1>14. CASE Ends
    <2>1. calls' \in [Threads -> Seq(CallNames)]
      BY <1>14, CallsStayCalls, Todo DEF Ends, Threads
    <2>2. position' \in 0..Length
      BY <1>14 DEF Ends, Duration
    <2>3. playing' \in BOOLEAN
      BY <1>14 DEF Ends
    <2>4. generation' \in Nat /\ transport' \in 0..generation'
      BY <1>14 DEF Ends, TypeOK
    <2> QED BY <1>14, <2>1, <2>2, <2>3, <2>4 DEF Ends, TypeOK
  <1>15. CASE Ended
    <2>1. snap' \in [generation : Nat, at : 0..Length, send : BOOLEAN, tap : BOOLEAN]
      BY <1>15 DEF Ended, NextTurn, NoSnap
    <2> QED BY <1>15, <2>1 DEF Ended, NextTurn, TypeOK
  <1>16. CASE Dies
    <2>1. snap' \in [generation : Nat, at : 0..Length, send : BOOLEAN, tap : BOOLEAN]
      BY <1>16 DEF Dies, NoSnap
    <2> QED BY <1>16, <2>1 DEF Dies, TypeOK
  <1> QED BY <1>1, <1>2, <1>3, <1>4, <1>5, <1>6, <1>7, <1>8, <1>9, <1>10, <1>11, <1>12, <1>13,
             <1>14, <1>15, <1>16 DEF Worker

\* Everybody else.
LEMMA OtherTypes ==
  ASSUME TypeOK, \/ StartEngine \/ StopEngine \/ Render \/ SwitchTap \/ DuplicateSuppressed
                 \/ PhoneReads \/ UNCHANGED vars
  PROVE  TypeOK'
  <1> USE DEF CallNames
  <1>1. CASE StartEngine
    <2>1. calls' \in [Threads -> Seq(CallNames)]
      BY <1>1, CallsStayCalls, Todo DEF StartEngine, Threads
    <2> QED BY <1>1, <2>1 DEF StartEngine, TypeOK
  <1>2. CASE StopEngine
    <2>1. calls' \in [Threads -> Seq(CallNames)]
      BY <1>2, CallsStayCalls, Todo DEF StopEngine, StopsDeck, Commanded, Threads
    <2>2. playing' \in BOOLEAN
      BY <1>2 DEF StopEngine, StopsDeck
    <2>3. position' \in 0..Length
      BY <1>2 DEF StopEngine, StopsDeck
    <2>4. generation' \in Nat /\ transport' \in 0..generation'
      BY <1>2 DEF StopEngine, StopsDeck, Commanded, TypeOK
    <2> QED BY <1>2, <2>1, <2>2, <2>3, <2>4 DEF StopEngine, StopsDeck, Commanded, TypeOK
  <1>3. CASE PopBegins
    BY <1>3 DEF PopBegins, TypeOK
  <1>4. CASE PopEnds
    <2>1. readFrame' \in Nat
      BY <1>4 DEF PopEnds, TypeOK
    <2> QED BY <1>4, <2>1 DEF PopEnds, TypeOK
  <1>5. CASE SwitchTap
    <2>1. tapOn' \in BOOLEAN
      BY <1>5 DEF SwitchTap, TypeOK
    <2>2. tap' \in Seq(Blocks)
      BY <1>5 DEF SwitchTap
    <2> QED BY <1>5, <2>1, <2>2 DEF SwitchTap, TypeOK
  <1>6. CASE DuplicateSuppressed
    <2>1. tap' \in Seq(Blocks)
      BY <1>6 DEF DuplicateSuppressed
    <2> QED BY <1>6, <2>1 DEF DuplicateSuppressed, TypeOK
  <1>7. CASE PhoneReads
    <2>1. tap' \in Seq(Blocks)
      BY <1>7 DEF PhoneReads, TypeOK
    <2>2. heard' \in Blocks \cup {NoBlock}
      BY <1>7 DEF PhoneReads, TypeOK
    <2> QED BY <1>7, <2>1, <2>2 DEF PhoneReads, TypeOK
  <1>8. CASE UNCHANGED vars BY <1>8 DEF vars, TypeOK
  <1> QED BY <1>1, <1>2, <1>3, <1>4, <1>5, <1>6, <1>7, <1>8 DEF Render

\* Every step keeps the types.
LEMMA TypeStep ==
  ASSUME TypeOK, DecodesForwards, [Next]_vars
  PROVE  TypeOK'
  BY CallTypes, CommandTypes, WorkerTypes, OtherTypes DEF Next

-----------------------------------------------------------------------------
(* The counters of the ring. *)

\* Only a Clear, a Pop and the worker's write move the counters.
LEMMA CountersStep ==
  ASSUME TypeOK, ReadNeverPassesWrite, [Next]_vars
  PROVE  ReadNeverPassesWrite'
  <1>1. ASSUME NEW t \in Threads, ClearLoads(t) PROVE ReadNeverPassesWrite'
    BY <1>1 DEF ClearLoads, ReadNeverPassesWrite, TypeOK
  <1>2. ASSUME NEW t \in Threads, ClearStores(t) PROVE ReadNeverPassesWrite'
    BY <1>2 DEF ClearStores, ReadNeverPassesWrite, TypeOK
  <1>3. CASE Sends BY <1>3 DEF Sends, ReadNeverPassesWrite, TypeOK
  <1>4. CASE PopBegins BY <1>4 DEF PopBegins, ReadNeverPassesWrite, TypeOK
  <1>5. CASE PopEnds BY <1>5 DEF PopEnds, ReadNeverPassesWrite, TypeOK
  <1>6. ASSUME UNCHANGED <<readFrame, writeFrame, popAt, loads>> PROVE ReadNeverPassesWrite'
    BY <1>6 DEF ReadNeverPassesWrite
  <1>7. CASE Command
    BY <1>6, <1>7 DEF Command, PlayPause, Stop, Clear, StopsDeck, Seek, BeginLoad, EndLoad,
                      SwitchSend, Reroute
  <1>8. CASE StartEngine \/ StopEngine BY <1>6, <1>8 DEF StartEngine, StopEngine, StopsDeck
  <1>9. CASE Call
    BY <1>1, <1>2, <1>6, <1>9 DEF Call, Deactivate, ClearTap, Forget, EngineStops, RenderStarts,
                                  RenderHalts, EndStart, EndStop, NotRunning
  <1>10. CASE Worker
    BY <1>3, <1>6, <1>10 DEF Worker, FindsPaused, FindsPlaying, Opens, OpenFails, Opened, Waits,
           Reads, ReadsNothing, ReadFails, Activates, Taps, Notes, Ends, Ended, Dies
  <1>11. CASE SwitchTap \/ DuplicateSuppressed \/ PhoneReads \/ UNCHANGED vars
    BY <1>6, <1>11 DEF SwitchTap, DuplicateSuppressed, PhoneReads, vars
  <1> QED BY <1>4, <1>5, <1>7, <1>8, <1>9, <1>10, <1>11 DEF Next, Render

-----------------------------------------------------------------------------
(* The worker is ahead of what it has delivered. *)

\* What was delivered can be compared.
LEMMA DeliveredTypes ==
  ASSUME TypeOK
  PROVE  \A b \in Delivered : b.generation \in Int /\ b.at \in Int
  <1>1. \A b \in Blocks \cup {NoBlock} : b.generation \in Int /\ b.at \in Int
    BY DEF Blocks, NoBlock
  <1>2. heard \in Blocks \cup {NoBlock} BY DEF TypeOK
  <1>3. \A i \in DOMAIN tap : tap[i] \in Blocks BY DEF TypeOK
  <1> QED BY <1>1, <1>2, <1>3 DEF Delivered

\* A step that delivers nothing and leaves the worker where it was.
LEMMA OutsideStep ==
  ASSUME TypeOK, TypeOK', DecodesForwards,
         UNCHANGED <<snap, active, reader, block>>,
         worker' = worker \/ (worker = "none" /\ worker' = "looping"),
         generation' >= generation,
         playing' /\ ~playing => generation' > generation,
         Delivered' \subseteq Delivered
  PROVE  DecodesForwards'
  BY DeliveredTypes DEF DecodesForwards, TypeOK, Later

\* The phone's reads and the clears of the tap deliver nothing.
LEMMA TapShrinks ==
  ASSUME TypeOK
  PROVE  /\ UNCHANGED <<tap, heard>> => Delivered' \subseteq Delivered
         /\ tap' = <<>> /\ UNCHANGED heard => Delivered' \subseteq Delivered
         /\ PhoneReads => Delivered' \subseteq Delivered
  <1>1. tap \in Seq(Blocks) BY DEF TypeOK
  <1>2. PhoneReads => Delivered' \subseteq Delivered
    <2> SUFFICES ASSUME PhoneReads PROVE Delivered' \subseteq Delivered
      OBVIOUS
    <2>1. tap # <<>> /\ heard' = tap[1] /\ tap' = Tail(tap) /\ 1 \in DOMAIN tap
      BY <1>1 DEF PhoneReads
    <2>2. \A i \in DOMAIN tap' : i + 1 \in DOMAIN tap /\ tap'[i] = tap[i + 1]
      BY <1>1, <2>1
    <2> QED BY <2>1, <2>2 DEF Delivered
  <1> QED BY <1>2 DEF Delivered

\* The worker delivers the block it has in hand; a full tap loses its oldest.
LEMMA TapsDeliver ==
  ASSUME TypeOK, DecodesForwards, Taps
  PROVE  \A b \in Delivered' : b = block \/ b \in Delivered
  <1>1. CASE ~snap.tap BY <1>1 DEF Taps, Delivered
  <1>2. CASE snap.tap /\ Len(tap) < TapBlocks
    <2>1. tap' = Append(tap, block) /\ UNCHANGED heard BY <1>2 DEF Taps
    <2>2. \A i \in DOMAIN tap' : (i \in DOMAIN tap /\ tap'[i] = tap[i]) \/ tap'[i] = block
      BY <2>1 DEF TypeOK
    <2> QED BY <2>1, <2>2 DEF Delivered
  <1>3. CASE snap.tap /\ ~(Len(tap) < TapBlocks)
    <2>1. tap' = Append(Tail(tap), block) /\ UNCHANGED heard BY <1>3 DEF Taps
    <2>2. tap \in Seq(Blocks) /\ tap # <<>> BY <1>3 DEF TypeOK
    <2>3. \A i \in DOMAIN tap' : (i + 1 \in DOMAIN tap /\ tap'[i] = tap[i + 1]) \/ tap'[i] = block
      BY <2>1, <2>2
    <2> QED BY <2>1, <2>3 DEF Delivered
  <1> QED BY <1>1, <1>2, <1>3

\* The worker's own steps: each file is opened for a generation of its own.
LEMMA WorkerForward ==
  ASSUME TypeOK, TypeOK', DecodesForwards, Worker
  PROVE  DecodesForwards'
  <1> USE DeliveredTypes DEF TypeOK, DecodesForwards, Later
  <1>1. CASE FindsPaused BY <1>1 DEF FindsPaused, Delivered
  <1>2. CASE FindsPlaying
    <2>1. Delivered' = Delivered BY <1>2 DEF FindsPlaying, Delivered
    <2>2. snap'.generation = generation BY <1>2 DEF FindsPlaying, Snapshot
    <2>3. CASE generation = active /\ reader # None
      <3>1. worker' = "feeding" /\ active # None BY <1>2, <2>3 DEF FindsPlaying
      <3> QED BY <1>2, <2>1, <2>2, <2>3, <3>1 DEF FindsPlaying
    <2>4. CASE generation # active \/ reader = None
      <3>1. worker' = "opening" BY <1>2, <2>4 DEF FindsPlaying
      <3>2. \A b \in Delivered : b.generation < generation BY <1>2, <2>4 DEF FindsPlaying
      <3> QED BY <1>2, <2>1, <2>2, <3>1, <3>2 DEF FindsPlaying
    <2> QED BY <2>3, <2>4
  <1>3. CASE Opens BY <1>3 DEF Opens, Delivered
  <1>4. CASE OpenFails BY <1>4 DEF OpenFails, GivesUp, NextTurn, Delivered
  <1>5. CASE Opened BY <1>5 DEF Opened, Delivered
  <1>6. CASE Waits BY <1>6 DEF Waits, NextTurn, Delivered
  <1>7. CASE Reads BY <1>7 DEF Reads, Delivered
  <1>8. CASE ReadsNothing BY <1>8 DEF ReadsNothing, Delivered
  <1>9. CASE ReadFails BY <1>9 DEF ReadFails, GivesUp, Delivered
  <1>10. CASE Sends BY <1>10 DEF Sends, Delivered
  <1>11. CASE Activates BY <1>11 DEF Activates, Delivered
  <1>12. CASE Taps
    <2>1. worker = "tapping" /\ worker' = "noting"
          /\ UNCHANGED <<playing, generation, snap, active, reader, block>>
      BY <1>12 DEF Taps
    <2>2. \A b \in Delivered' : b = block \/ b \in Delivered BY <1>12, TapsDeliver
    <2>3. \A b \in Delivered : Later(block, b) BY <2>1
    <2>4. block.generation = active /\ block.at = reader - 1 /\ active <= generation
          /\ reader \in Nat /\ active \in Nat
      <3>1. heard \in Delivered BY DEF Delivered
      <3>2. block.generation = active /\ block.at = reader - 1 BY <2>1, <3>1
      <3> QED BY <2>1, <3>2, BlockInHand
    <2>5. \A b \in Delivered' : Later([generation |-> active, at |-> reader], b)
                                 /\ b.generation <= generation
      <3>1. \A b \in Delivered : b.generation <= generation BY <2>1
      <3>2. block.generation \in Int /\ block.at \in Int /\ block.at < reader BY <2>4
      <3>3. Later([generation |-> active, at |-> reader], block) /\ block.generation <= generation
        BY <2>4, <3>2
      <3>4. \A b \in Delivered : Later([generation |-> active, at |-> reader], b)
        BY <2>3, <2>4, <3>2
      <3> QED BY <2>2, <3>1, <3>3, <3>4
    <2> QED BY <2>1, <2>4, <2>5
  <1>13. CASE Notes BY <1>13 DEF Notes, NextTurn, Delivered
  <1>14. CASE Ends BY <1>14 DEF Ends, Delivered
  <1>15. CASE Ended BY <1>15 DEF Ended, NextTurn, Delivered
  <1>16. CASE Dies BY <1>16 DEF Dies, Delivered
  <1> QED BY <1>1, <1>2, <1>3, <1>4, <1>5, <1>6, <1>7, <1>8, <1>9, <1>10, <1>11, <1>12, <1>13,
             <1>14, <1>15, <1>16 DEF Worker

\* Every step keeps the worker ahead.
LEMMA ForwardStep ==
  ASSUME TypeOK, TypeOK', DecodesForwards, [Next]_vars
  PROVE  DecodesForwards'
  <1>1. CASE Command
    <2>1. UNCHANGED <<tap, heard, snap, active, reader, block>> /\ generation' >= generation
          /\ (worker' = worker \/ (worker = "none" /\ worker' = "looping"))
          /\ (playing' /\ ~playing => generation' > generation)
      BY <1>1 DEF Command, PlayPause, Stop, Clear, StopsDeck, Seek, BeginLoad, EndLoad, SwitchSend,
                  Reroute, Commanded, EnsureWorker, TypeOK
    <2> QED BY <2>1, OutsideStep, TapShrinks
  <1>2. CASE StartEngine \/ StopEngine
    BY <1>2, OutsideStep, TapShrinks DEF StartEngine, StopEngine, StopsDeck, Commanded, TypeOK
  <1>3. CASE Call
    <2>1. UNCHANGED <<decoder, playing, heard>> /\ generation' >= generation
          /\ (tap' = tap \/ tap' = <<>>)
      BY <1>3 DEF Call, Deactivate, ClearLoads, ClearStores, ClearTap, Forget, EngineStops,
                  RenderStarts, RenderHalts, EndStart, EndStop, NotRunning, TypeOK
    <2> QED BY <2>1, OutsideStep, TapShrinks
  <1>4. CASE Worker BY <1>4, WorkerForward
  <1>5. CASE SwitchTap \/ DuplicateSuppressed
    <2>1. UNCHANGED <<snap, active, reader, block, generation, playing, heard>> /\ tap' = <<>>
          /\ (worker' = worker \/ (worker = "none" /\ worker' = "looping"))
      BY <1>5 DEF SwitchTap, DuplicateSuppressed
    <2>2. Delivered' \subseteq Delivered /\ generation' >= generation
      BY <2>1, TapShrinks DEF TypeOK
    <2> QED BY <2>1, <2>2, OutsideStep
  <1>6. CASE PhoneReads BY <1>6, OutsideStep, TapShrinks DEF PhoneReads, TypeOK
  <1>7. CASE Render \/ UNCHANGED vars
    BY <1>7, OutsideStep, TapShrinks DEF Render, PopBegins, PopEnds, vars, TypeOK
  <1> QED BY <1>1, <1>2, <1>3, <1>4, <1>5, <1>6, <1>7 DEF Next

-----------------------------------------------------------------------------
(* The phone. *)

\* Only the worker adds to the tap, and only the phone takes from it.
LEMMA ReplayStep ==
  ASSUME TypeOK, DecodesForwards, PhoneNeverReplays, [Next]_vars
  PROVE  PhoneNeverReplays'
  <1>1. ASSUME UNCHANGED heard, tap' = tap \/ tap' = <<>> PROVE PhoneNeverReplays'
    BY <1>1 DEF PhoneNeverReplays
  <1>2. CASE PhoneReads
    <2>1. tap \in Seq(Blocks) BY DEF TypeOK
    <2>2. tap # <<>> /\ heard' = tap[1] /\ tap' = Tail(tap) BY <1>2, <2>1 DEF PhoneReads
    <2>3. \A i \in DOMAIN tap' : i + 1 \in DOMAIN tap /\ tap'[i] = tap[i + 1] /\ 1 < i + 1
                                 /\ i \in Int
      BY <2>1, <2>2
    <2>4. 1 \in DOMAIN tap BY <2>1, <2>2
    <2>5. \A i, j \in DOMAIN tap' : i < j => i + 1 < j + 1 BY <2>3
    <2> QED BY <2>2, <2>3, <2>4, <2>5 DEF PhoneNeverReplays
  <1>3. CASE Taps
    <2>1. \A b \in Delivered : Later(block, b) BY <1>3 DEF Taps, DecodesForwards
    <2>2. tap \in Seq(Blocks) BY DEF TypeOK
    <2>3. CASE ~snap.tap BY <1>1, <1>3, <2>3 DEF Taps
    <2>4. CASE snap.tap /\ Len(tap) < TapBlocks
      <3>1. tap' = Append(tap, block) /\ UNCHANGED heard BY <1>3, <2>4 DEF Taps
      <3>2. DOMAIN tap' = 1..(Len(tap) + 1) /\ DOMAIN tap = 1..Len(tap) /\ Len(tap) \in Nat
            /\ tap'[Len(tap) + 1] = block /\ \A i \in 1..Len(tap) : tap'[i] = tap[i]
        BY <2>2, <3>1
      <3> QED BY <2>1, <3>1, <3>2 DEF PhoneNeverReplays, Delivered
    <2>5. CASE snap.tap /\ ~(Len(tap) < TapBlocks)
      <3>1. tap' = Append(Tail(tap), block) /\ UNCHANGED heard BY <1>3, <2>5 DEF Taps
      <3>2. tap # <<>> /\ Len(tap) \in Nat \ {0} BY <2>2, <2>5
      <3>3. DOMAIN tap' = 1..Len(tap) /\ DOMAIN tap = 1..Len(tap)
            /\ tap'[Len(tap)] = block /\ \A i \in 1..(Len(tap) - 1) : tap'[i] = tap[i + 1]
        BY <2>2, <3>1, <3>2
      <3> QED BY <2>1, <3>1, <3>2, <3>3 DEF PhoneNeverReplays, Delivered
    <2> QED BY <2>3, <2>4, <2>5
  <1>4. CASE Command \/ StartEngine \/ StopEngine
    BY <1>1, <1>4 DEF Command, PlayPause, Stop, Clear, StopsDeck, Seek, BeginLoad, EndLoad,
                      SwitchSend, Reroute, StartEngine, StopEngine
  <1>5. CASE Call
    BY <1>1, <1>5 DEF Call, Deactivate, ClearLoads, ClearStores, ClearTap, Forget, EngineStops,
                      RenderStarts, RenderHalts, EndStart, EndStop, NotRunning
  <1>6. CASE Worker
    BY <1>1, <1>3, <1>6 DEF Worker, FindsPaused, FindsPlaying, Opens, OpenFails, Opened, Waits,
           Reads, ReadsNothing, ReadFails, Sends, Activates, Notes, Ends, Ended, Dies
  <1>7. CASE SwitchTap \/ DuplicateSuppressed \/ Render \/ UNCHANGED vars
    BY <1>1, <1>7 DEF SwitchTap, DuplicateSuppressed, Render, PopBegins, PopEnds, vars
  <1> QED BY <1>2, <1>4, <1>5, <1>6, <1>7 DEF Next

-----------------------------------------------------------------------------
(* One block late.  The worker learns of a command at its next turn, with *)
(* at most one block in hand; the tap has been cleared by then, or will    *)
(* be, but for that block.                                                 *)

\* Once an older block has been handed over, whatever the worker will still hand
\* over, without looking at the deck again, is that block or a new one.
HandsOverOne ==
  /\ worker = "opening" /\ late # {} => snap.generation >= transport
  /\ worker \in {"opened", "feeding", "sending"} /\ late # {} => active >= transport
  /\ worker \in {"activating", "tapping"} => active >= transport \/ late \subseteq {block}

\* The UI thread has still to clear the tap.
ClearPending == \E i \in DOMAIN calls["ui"] : calls["ui"][i] = "clearTap"

Stale(i) == tap[i].generation < transport

\* A stale block got into the cleared tap as the late one: it is alone there, and
\* the worker is past handing it over.
TapsOne ==
  command # "load" /\ ~ClearPending =>
      /\ \A i, j \in DOMAIN tap : Stale(i) /\ Stale(j) => i = j
      /\ (\E i \in DOMAIN tap : Stale(i)) =>
             late # {} /\ (worker \in {"activating", "tapping"} => active >= transport)

LateInv == OneLateBlock /\ HandsOverOne /\ TapsOne

\* The deck starts with nothing late.
LEMMA LateInit == Init => LateInv
  BY DEF Init, LateInv, OneLateBlock, HandsOverOne, TapsOne, Stale

\* A call the UI thread returns from is not the clearing of the tap, unless it is
\* that one.
LEMMA StillPending ==
  ASSUME TypeOK, NEW call, call # "clearTap", Calling("ui", call), calls'["ui"] = Tail(calls["ui"])
  PROVE  ClearPending => ClearPending'
  <1>1. calls["ui"] \in Seq(CallNames) BY DEF TypeOK, CallNames, Threads
  <1>2. calls["ui"] # <<>> /\ calls["ui"][1] # "clearTap" BY <1>1 DEF Calling
  <1>3. \A i \in DOMAIN calls["ui"] : i # 1 =>
           i - 1 \in DOMAIN calls'["ui"] /\ calls'["ui"][i - 1] = calls["ui"][i]
    BY <1>1, <1>2
  <1> QED BY <1>2, <1>3 DEF ClearPending

\* A step that hands nothing over, and is no transport command.
HandsNothing == UNCHANGED <<late, transport, command, worker, snap, active, block>>

LEMMA LateUntouched ==
  ASSUME LateInv, HandsNothing, ClearPending => ClearPending' \/ tap' = <<>>, tap' \in {tap, <<>>}
  PROVE  LateInv'
  <1> USE DEF HandsNothing
  <1>1. OneLateBlock' /\ HandsOverOne' BY DEF LateInv, OneLateBlock, HandsOverOne
  <1>2. CASE tap' = <<>> BY <1>1, <1>2 DEF LateInv, TapsOne, Stale
  <1>3. CASE tap' = tap /\ (ClearPending => ClearPending')
    BY <1>1, <1>3 DEF LateInv, TapsOne, Stale
  <1> QED BY <1>2, <1>3

\* What the UI thread is to do decides whether the tap is still to be cleared.
Clears(todo) == \E i \in DOMAIN todo : todo[i] = "clearTap"

LEMMA IssuedClears ==
  ASSUME TypeOK, NEW todo, Issue("ui", todo), Clears(todo)
  PROVE  ClearPending'
  <1>1. calls'["ui"] = todo BY DEF Issue, TypeOK, Threads
  <1> QED BY <1>1 DEF ClearPending, Clears

LEMMA TodoClears ==
  /\ Clears(PlayCalls) /\ Clears(StopCalls) /\ Clears(<<"clearTap">>)
  /\ Clears(StopCalls \o <<"forget">>) /\ Clears(StopCalls \o <<"stopEngine">>)
  <1>1. Clears(PlayCalls)
    <2>1. 3 \in DOMAIN PlayCalls /\ PlayCalls[3] = "clearTap" BY DEF PlayCalls
    <2> QED BY <2>1 DEF Clears
  <1>2. ASSUME NEW more \in {<<>>, <<"forget">>, <<"stopEngine">>} PROVE Clears(StopCalls \o more)
    <2>1. 3 \in DOMAIN (StopCalls \o more) /\ (StopCalls \o more)[3] = "clearTap"
      BY DEF StopCalls
    <2> QED BY <2>1 DEF Clears
  <1>3. StopCalls \o <<>> = StopCalls BY DEF StopCalls
  <1>4. Clears(<<"clearTap">>)
    <2>1. 1 \in DOMAIN <<"clearTap">> /\ <<"clearTap">>[1] = "clearTap" OBVIOUS
    <2> QED BY <2>1 DEF Clears
  <1> QED BY <1>1, <1>2, <1>3, <1>4

\* A transport command starts anew, and will clear the tap, unless it is a Load.
LEMMA LateCommands ==
  ASSUME TypeOK, LateInv, Command \/ StopEngine
  PROVE  LateInv'
  <1>1. ASSUME late' = {}, command' # "load" => ClearPending' PROVE LateInv'
    BY <1>1 DEF LateInv, OneLateBlock, HandsOverOne, TapsOne
  <1>2. ASSUME NEW c, NEW todo, Commanded(c, todo), c = "load" \/ Clears(todo) PROVE LateInv'
    BY <1>1, <1>2, IssuedClears DEF Commanded
  <1>3. CASE PlayPause BY <1>2, <1>3, TodoClears DEF PlayPause
  <1>4. ASSUME NEW todo, StopsDeck(todo), Clears(todo) PROVE LateInv'
    BY <1>2, <1>4 DEF StopsDeck
  <1>5. CASE Stop BY <1>4, <1>5, TodoClears DEF Stop
  <1>6. CASE Clear BY <1>4, <1>6, TodoClears DEF Clear
  <1>7. CASE StopEngine BY <1>4, <1>7, TodoClears DEF StopEngine
  <1>8. ASSUME NEW to \in 0..Length, Seek(to) PROVE LateInv'
    BY <1>2, <1>8, TodoClears DEF Seek
  <1>9. CASE EndLoad BY <1>2, <1>9 DEF EndLoad
  <1>10. CASE BeginLoad
    <2>1. ClearPending' BY <1>10, IssuedClears, TodoClears DEF BeginLoad
    <2>2. HandsNothing /\ tap' = tap BY <1>10 DEF BeginLoad, HandsNothing
    <2> QED BY <2>1, <2>2, LateUntouched
  <1>11. CASE SwitchSend \/ Reroute
    <2>1. ~ClearPending BY <1>11 DEF SwitchSend, Reroute, MayCommand, ClearPending
    <2>2. HandsNothing /\ tap' = tap BY <1>11 DEF SwitchSend, Reroute, HandsNothing
    <2> QED BY <2>1, <2>2, LateUntouched
  <1> QED BY <1>3, <1>5, <1>6, <1>7, <1>8, <1>9, <1>10, <1>11 DEF Command

\* The calls: only the clearing of the tap takes itself off the list.
LEMMA LateCalls ==
  ASSUME TypeOK, LateInv, Call
  PROVE  LateInv'
  <1>1. ASSUME NEW call, call # "clearTap", Calling("ui", call),
               calls'["ui"] = Tail(calls["ui"]), HandsNothing, tap' = tap
        PROVE  LateInv'
    BY <1>1, StillPending, LateUntouched
  <1>2. ASSUME NEW t \in Threads, NEW call, call # "clearTap", Calling(t, call), Returns(t),
               HandsNothing, tap' = tap
        PROVE  LateInv'
    <2>1. CASE t = "ui"
      <3>1. calls'["ui"] = Tail(calls["ui"]) BY <1>2, <2>1 DEF Returns, Issue, TypeOK
      <3> QED BY <1>1, <1>2, <2>1, <3>1
    <2>2. CASE t # "ui"
      <3>1. calls'["ui"] = calls["ui"] BY <1>2, <2>2 DEF Returns, Issue, TypeOK, Threads
      <3>2. ClearPending => ClearPending' BY <3>1 DEF ClearPending
      <3> QED BY <1>2, <3>2, LateUntouched
    <2> QED BY <2>1, <2>2
  <1>3. ASSUME NEW t \in Threads, Deactivate(t) PROVE LateInv'
    <2>1. HandsNothing /\ tap' = tap BY <1>3 DEF Deactivate, HandsNothing
    <2> QED BY <1>2, <1>3, <2>1 DEF Deactivate
  <1>4. ASSUME NEW t \in Threads, ClearLoads(t) PROVE LateInv'
    <2>1. HandsNothing /\ tap' = tap BY <1>4 DEF ClearLoads, HandsNothing
    <2>2. ClearPending' = ClearPending BY <1>4 DEF ClearLoads, ClearPending
    <2> QED BY <2>1, <2>2, LateUntouched
  <1>5. ASSUME NEW t \in Threads, ClearStores(t) PROVE LateInv'
    <2>1. HandsNothing /\ tap' = tap BY <1>5 DEF ClearStores, HandsNothing
    <2> QED BY <1>2, <1>5, <2>1 DEF ClearStores
  <1>6. CASE ClearTap
    <2>1. HandsNothing /\ tap' = <<>> BY <1>6 DEF ClearTap, HandsNothing
    <2> QED BY <2>1, LateUntouched
  <1>7. CASE Forget
    <2>1. HandsNothing /\ tap' = tap BY <1>7 DEF Forget, HandsNothing
    <2> QED BY <1>2, <1>7, <2>1 DEF Forget, Threads
  <1>8. CASE EngineStops
    <2>1. calls'["ui"] = Tail(calls["ui"]) BY <1>8 DEF EngineStops, TypeOK, Threads
    <2>2. HandsNothing /\ tap' = tap BY <1>8 DEF EngineStops, HandsNothing
    <2> QED BY <1>1, <1>8, <2>1, <2>2 DEF EngineStops
  <1>9. CASE RenderStarts
    <2>1. HandsNothing /\ tap' = tap BY <1>9 DEF RenderStarts, HandsNothing
    <2> QED BY <1>2, <1>9, <2>1 DEF RenderStarts, Threads
  <1>10. CASE RenderHalts
    <2>1. HandsNothing /\ tap' = tap BY <1>10 DEF RenderHalts, HandsNothing
    <2> QED BY <1>2, <1>10, <2>1 DEF RenderHalts, Threads
  <1>11. CASE EndStart \/ EndStop
    <2>1. ~ClearPending BY <1>11 DEF EndStart, EndStop, PoolDone, ClearPending
    <2>2. HandsNothing /\ tap' = tap BY <1>11 DEF EndStart, EndStop, HandsNothing
    <2> QED BY <2>1, <2>2, LateUntouched
  <1>12. CASE NotRunning
    <2>1. HandsNothing /\ tap' = tap BY <1>12 DEF NotRunning, HandsNothing
    <2> QED BY <1>2, <1>12, <2>1 DEF NotRunning, Threads
  <1> QED BY <1>3, <1>4, <1>5, <1>6, <1>7, <1>8, <1>9, <1>10, <1>11, <1>12 DEF Call

\* The worker leaves the UI thread's calls alone.
LEMMA WorkerLeavesUi ==
  ASSUME TypeOK, Worker
  PROVE  ClearPending' = ClearPending /\ UNCHANGED <<transport, command>>
  <1>1. ASSUME NEW todo, Issue("worker", todo) PROVE calls'["ui"] = calls["ui"]
    BY <1>1 DEF Issue, TypeOK, Threads
  <1>2. calls'["ui"] = calls["ui"]
    BY <1>1 DEF Worker, FindsPaused, FindsPlaying, Opens, OpenFails, Opened, Waits, Reads,
           ReadsNothing, ReadFails, Sends, Activates, Taps, Notes, Ends, Ended, Dies
  <1>3. UNCHANGED <<transport, command>>
    BY DEF Worker, FindsPaused, FindsPlaying, Opens, OpenFails, Opened, Waits, Reads,
           ReadsNothing, ReadFails, Sends, Activates, Taps, Notes, Ends, Ended, Dies
  <1> QED BY <1>2, <1>3 DEF ClearPending

\* A worker that has not the block in hand, and does not take one either.
LEMMA EmptyHanded ==
  ASSUME LateInv, ClearPending' = ClearPending,
         UNCHANGED <<transport, command, late, tap>>,
         worker' \notin {"sending", "activating", "tapping"},
         worker' = "opening" /\ late # {} => snap'.generation >= transport,
         worker' \in {"opened", "feeding"} /\ late # {} => active' >= transport
  PROVE  LateInv'
  BY DEF LateInv, OneLateBlock, HandsOverOne, TapsOne, Stale

\* Taking a block, and handing it over to the ring.
LEMMA LateReads ==
  ASSUME LateInv, ClearPending' = ClearPending, UNCHANGED <<transport, command>>, Reads
  PROVE  LateInv'
  BY DEF LateInv, OneLateBlock, HandsOverOne, TapsOne, Stale, Reads

LEMMA LateSends ==
  ASSUME TypeOK, DecodesForwards, LateInv, ClearPending' = ClearPending,
         UNCHANGED <<transport, command>>, Sends
  PROVE  LateInv'
  <1>1. block.generation = active /\ active \in Nat /\ transport \in Nat
    BY BlockInHand DEF Sends, DecodesForwards, Delivered, TypeOK
  <1>2. UNCHANGED <<active, block, tap>> /\ worker = "sending"
        /\ worker' \in {"activating", "tapping"}
        /\ late' \in {late, late \cup {block}} /\ (late' # late => active < transport)
    BY <1>1 DEF Sends, HandedOver
  <1>3. late # {} => active >= transport BY <1>2 DEF LateInv, HandsOverOne
  <1>4. active >= transport \/ late' \subseteq {block} BY <1>2, <1>3
  <1>5. OneLateBlock' BY <1>1, <1>2, <1>3 DEF LateInv, OneLateBlock
  <1>6. HandsOverOne' BY <1>2, <1>4 DEF HandsOverOne
  <1>7. TapsOne' BY <1>2, <1>3 DEF LateInv, TapsOne, Stale
  <1> QED BY <1>5, <1>6, <1>7 DEF LateInv

\* Handing it over to the tap, which may lose its oldest block by it.
LEMMA LateTaps ==
  ASSUME TypeOK, DecodesForwards, LateInv, ClearPending' = ClearPending,
         UNCHANGED <<transport, command>>, Taps
  PROVE  LateInv'
  <1>1. block.generation = active /\ active \in Nat /\ transport \in Nat
    BY BlockInHand DEF Taps, DecodesForwards, Delivered, TypeOK
  <1>2. worker = "tapping" /\ worker' = "noting" BY DEF Taps
  <1>3. HandsOverOne' BY <1>2 DEF HandsOverOne
  <1>4. active >= transport \/ late \subseteq {block} BY <1>2 DEF LateInv, HandsOverOne
  <1>5. CASE ~snap.tap
    <2>1. UNCHANGED <<tap, late>> BY <1>5 DEF Taps
    <2> QED BY <1>2, <1>3, <2>1 DEF LateInv, OneLateBlock, TapsOne, Stale
  <1>6. CASE snap.tap
    <2> DEFINE kept == IF Len(tap) < TapBlocks THEN tap ELSE Tail(tap)
               shift == IF Len(tap) < TapBlocks THEN 0 ELSE 1
    <2>1. tap' = Append(kept, block) BY <1>6 DEF Taps
    <2>2. late' = IF active < transport THEN late \cup {block} ELSE late
      BY <1>1, <1>6 DEF Taps, HandedOver
    <2>3. tap \in Seq(Blocks) /\ Len(tap) \in Nat /\ shift \in {0, 1}
          /\ (Len(tap) < TapBlocks \/ tap # <<>>)
      BY DEF TypeOK
    <2>4. kept \in Seq(Blocks) /\ \A i \in DOMAIN kept : i + shift \in DOMAIN tap
                                                        /\ kept[i] = tap[i + shift]
      BY <2>3
    <2>5. DOMAIN kept = 1..Len(kept) /\ Len(kept) \in Nat BY <2>4
    <2> HIDE DEF kept, shift
    <2>6. DOMAIN tap' = 1..(Len(kept) + 1) /\ tap'[Len(kept) + 1] = block
          /\ \A i \in 1..Len(kept) : tap'[i] = kept[i]
      BY <2>1, <2>4, <2>5
    <2>7. OneLateBlock' BY <1>1, <1>4, <2>2 DEF LateInv, OneLateBlock
    <2>8. ASSUME command # "load", ~ClearPending PROVE
            /\ \A i, j \in DOMAIN tap' : Stale(i)' /\ Stale(j)' => i = j
            /\ (\E i \in DOMAIN tap' : Stale(i)') => late' # {}
      <3>1. /\ \A i, j \in DOMAIN tap : Stale(i) /\ Stale(j) => i = j
            /\ (\E i \in DOMAIN tap : Stale(i)) => late # {} /\ active >= transport
        BY <1>2, <2>8 DEF LateInv, TapsOne
      <3>2. \A i \in 1..Len(kept) : Stale(i)' => i + shift \in DOMAIN tap /\ Stale(i + shift)
        BY <2>4, <2>5, <2>6 DEF Stale
      <3>3. \A i \in DOMAIN tap' : i \notin 1..Len(kept) => (Stale(i)' <=> active < transport)
        BY <1>1, <2>5, <2>6 DEF Stale
      <3>4. CASE active < transport
        <4>1. late' # {} BY <2>2, <3>4
        <4>2. \A i \in 1..Len(kept) : ~Stale(i)' BY <1>1, <3>1, <3>2, <3>4
        <4> QED BY <2>5, <2>6, <4>1, <4>2
      <3>5. CASE ~(active < transport)
        <4>1. \A i \in DOMAIN tap' : Stale(i)' => i \in 1..Len(kept) BY <2>5, <2>6, <3>3, <3>5
        <4>2. \A i, j \in 1..Len(kept) : i + shift = j + shift => i = j BY <2>3, <2>5
        <4>3. \A i, j \in DOMAIN tap' : Stale(i)' /\ Stale(j)' => i = j
          BY <3>1, <3>2, <4>1, <4>2
        <4> QED BY <2>2, <3>1, <3>2, <3>5, <4>1, <4>3
      <3> QED BY <3>4, <3>5
    <2>9. TapsOne' BY <1>2, <2>8 DEF TapsOne
    <2> QED BY <1>3, <2>7, <2>9 DEF LateInv
  <1> QED BY <1>5, <1>6

LEMMA LateWorker ==
  ASSUME TypeOK, DecodesForwards, LateInv, Worker
  PROVE  LateInv'
  <1>1. ClearPending' = ClearPending /\ UNCHANGED <<transport, command>> BY WorkerLeavesUi
  <1>2. CASE FindsPaused
    <2>1. worker' = "looping" /\ UNCHANGED <<late, tap>> BY <1>2 DEF FindsPaused
    <2> QED BY <1>1, <2>1, EmptyHanded
  <1>3. CASE FindsPlaying
    <2>1. snap'.generation >= transport /\ (active = generation => active >= transport)
      BY <1>3 DEF FindsPlaying, Snapshot, TypeOK
    <2>2. worker' \in {"opening", "feeding"} /\ UNCHANGED <<late, tap>>
          /\ (worker' = "feeding" => active' = generation /\ active' = active)
      BY <1>3 DEF FindsPlaying
    <2> QED BY <1>1, <2>1, <2>2, EmptyHanded
  <1>4. CASE Opens
    <2>1. late # {} => active' >= transport BY <1>4 DEF Opens, LateInv, HandsOverOne
    <2> QED BY <1>1, <1>4, <2>1, EmptyHanded DEF Opens
  <1>5. CASE Opened
    <2>1. late # {} => active' >= transport BY <1>5 DEF Opened, LateInv, HandsOverOne
    <2> QED BY <1>1, <1>5, <2>1, EmptyHanded DEF Opened
  <1>6. CASE Reads BY <1>1, <1>6, LateReads
  <1>7. CASE Sends BY <1>1, <1>7, LateSends
  <1>8. CASE Activates
    BY <1>1, <1>8 DEF Activates, LateInv, OneLateBlock, HandsOverOne, TapsOne, Stale
  <1>9. CASE Taps BY <1>1, <1>9, LateTaps
  <1>10. CASE OpenFails BY <1>1, <1>10, EmptyHanded DEF OpenFails, NextTurn
  <1>11. CASE Waits BY <1>1, <1>11, EmptyHanded DEF Waits, NextTurn
  <1>12. CASE ReadsNothing BY <1>1, <1>12, EmptyHanded DEF ReadsNothing
  <1>13. CASE ReadFails BY <1>1, <1>13, EmptyHanded DEF ReadFails
  <1>14. CASE Notes BY <1>1, <1>14, EmptyHanded DEF Notes, NextTurn
  <1>15. CASE Ends BY <1>1, <1>15, EmptyHanded DEF Ends
  <1>16. CASE Ended BY <1>1, <1>16, EmptyHanded DEF Ended, NextTurn
  <1>17. CASE Dies BY <1>1, <1>17, EmptyHanded DEF Dies
  <1> QED BY <1>2, <1>3, <1>4, <1>5, <1>6, <1>7, <1>8, <1>9, <1>10, <1>11, <1>12, <1>13, <1>14,
             <1>15, <1>16, <1>17 DEF Worker

\* The phone takes the oldest block of its tap.
LEMMA LatePhone ==
  ASSUME TypeOK, LateInv, PhoneReads
  PROVE  LateInv'
  <1>1. HandsOverOne' /\ OneLateBlock' BY DEF PhoneReads, LateInv, HandsOverOne, OneLateBlock
  <1>2. UNCHANGED <<command, transport, late, worker, active>> /\ ClearPending' = ClearPending
    BY DEF PhoneReads, ClearPending
  <1>3. \A i \in DOMAIN tap' : i + 1 \in DOMAIN tap /\ tap'[i] = tap[i + 1] /\ i \in Int
    <2>1. tap \in Seq(Blocks) /\ tap # <<>> /\ tap' = Tail(tap) BY DEF PhoneReads, TypeOK
    <2> QED BY <2>1
  <1>4. \A i \in DOMAIN tap' : Stale(i)' => Stale(i + 1) BY <1>2, <1>3 DEF Stale
  <1>5. \A i, j \in DOMAIN tap' : i + 1 = j + 1 => i = j BY <1>3
  <1>6. TapsOne'
    <2> SUFFICES ASSUME command # "load", ~ClearPending PROVE
          /\ \A i, j \in DOMAIN tap' : Stale(i)' /\ Stale(j)' => i = j
          /\ (\E i \in DOMAIN tap' : Stale(i)') =>
                 late # {} /\ (worker \in {"activating", "tapping"} => active >= transport)
      BY <1>2 DEF TapsOne
    <2>1. /\ \A i, j \in DOMAIN tap : Stale(i) /\ Stale(j) => i = j
          /\ (\E i \in DOMAIN tap : Stale(i)) =>
                 late # {} /\ (worker \in {"activating", "tapping"} => active >= transport)
      BY DEF LateInv, TapsOne
    <2> QED BY <1>3, <1>4, <1>5, <2>1
  <1> QED BY <1>1, <1>6 DEF LateInv

\* Every step keeps it.
LEMMA LateStep ==
  ASSUME TypeOK, DecodesForwards, LateInv, [Next]_vars
  PROVE  LateInv'
  <1>1. CASE StartEngine
    <2>1. HandsNothing /\ tap' = tap BY <1>1 DEF StartEngine, HandsNothing
    <2>2. ~ClearPending BY <1>1 DEF StartEngine, ClearPending
    <2> QED BY <2>1, <2>2, LateUntouched
  <1>2. CASE Render \/ UNCHANGED vars
    <2>1. HandsNothing /\ tap' = tap
      BY <1>2 DEF Render, PopBegins, PopEnds, HandsNothing, vars
    <2>2. ClearPending' = ClearPending
      BY <1>2 DEF Render, PopBegins, PopEnds, vars, ClearPending
    <2> QED BY <2>1, <2>2, LateUntouched
  <1>3. CASE DuplicateSuppressed
    <2>1. HandsNothing /\ tap' = <<>> BY <1>3 DEF DuplicateSuppressed, HandsNothing
    <2> QED BY <2>1, LateUntouched
  <1>4. CASE SwitchTap
    <2>1. UNCHANGED <<transport, command, late, active, snap, block>> /\ tap' = <<>>
          /\ (worker' = worker \/ worker' = "looping")
      BY <1>4 DEF SwitchTap
    <2> QED BY <2>1 DEF LateInv, OneLateBlock, HandsOverOne, TapsOne
  <1> QED BY <1>1, <1>2, <1>3, <1>4, LateCommands, LateCalls, LateWorker, LatePhone DEF Next

-----------------------------------------------------------------------------

\* Every reachable state satisfies the type invariant; the ring's read counter
\* never passes its write counter; and the worker decodes each generation of
\* the deck's state once, forwards.
THEOREM Invariance == Spec => []MediaDeckInv
  <1>1. MediaDeckInv /\ [Next]_vars => MediaDeckInv'
    BY TypeStep, CountersStep, ForwardStep DEF MediaDeckInv
  <1> QED BY <1>1, InitInv, PTL DEF Spec

\* Nothing is replayed on the phone or heard out of order, however transport
\* commands, reopenings of the file and the phone's reads interleave.
THEOREM NoReplay == Spec => []PhoneNeverReplays
  <1>1. MediaDeckInv /\ PhoneNeverReplays /\ [Next]_vars => PhoneNeverReplays'
    BY ReplayStep DEF MediaDeckInv
  <1> QED BY <1>1, InitInv, Invariance, PTL DEF Spec

\* After a command at most one block from before it is still handed over, and at
\* most one is in the tap once the command has cleared it.
THEOREM OneLate == Spec => []OneBlockLate
  <1>1. MediaDeckInv /\ LateInv /\ [Next]_vars => LateInv' BY LateStep DEF MediaDeckInv
  <1>2. LateInv => OneBlockLate
    <2>1. calls["ui"] = <<>> => ~ClearPending BY DEF ClearPending
    <2> QED BY <2>1 DEF LateInv, OneBlockLate, OneStaleChunk, TapsOne, Stale
  <1> QED BY <1>1, <1>2, LateInit, Invariance, PTL DEF Spec
=============================================================================
