-------------------------- MODULE SoundboardProofs --------------------------
(***************************************************************************)
(* For any pads, any capacity of the command queue and any number of       *)
(* voices: the ring of commands is a bounded FIFO, a stop ends every sound *)
(* that came before it, and what is queued in one run of the engine is     *)
(* never heard in the next.                                                *)
(***************************************************************************)
EXTENDS Soundboard, FiniteSetTheorems, TLAPS

(* The index sequence % capacity of a ring. *)

\* Quotient and remainder are unique.
LEMMA Remainder ==
    ASSUME NEW n \in Nat \ {0}, NEW q \in Int, NEW r \in 0..(n-1)
    PROVE  (n * q + r) % n = r
<1> DEFINE b == n * q + r
           d == (b \div n) - q
<1>1. b \in Int /\ b = n * (b \div n) + (b % n)
  OBVIOUS
<1>2. b \div n \in Int /\ b % n \in 0..(n-1)
  BY <1>1
<1>3. d \in Int /\ n * d = r - (b % n)
  BY <1>1, <1>2
<1>4. ~(d >= 1)
  BY <1>2, <1>3
<1>5. ~(d <= -1)
  BY <1>2, <1>3
<1>6. d = 0
  BY <1>3, <1>4, <1>5
<1> QED BY <1>2, <1>3, <1>6

\* Two different sequence numbers less than one lap apart live in different
\* slots.
LEMMA DistinctSlots ==
    ASSUME NEW n \in Nat \ {0}, NEW a \in Nat, NEW b \in Nat,
           a < b, b < a + n
    PROVE  a % n # b % n
<1>1. a = n * (a \div n) + (a % n) /\ b = n * (b \div n) + (b % n)
  OBVIOUS
<1>2. a \div n \in Int /\ b \div n \in Int /\ a % n \in 0..(n-1) /\ b % n \in 0..(n-1)
  OBVIOUS
<1> DEFINE d == (b \div n) - (a \div n)
<1>3. SUFFICES ASSUME a % n = b % n PROVE FALSE
  OBVIOUS
<1>4. d \in Int /\ b - a = n * d
  BY <1>1, <1>2, <1>3
<1>5. ~(d <= 0)
  BY <1>4
<1>6. ~(d >= 1)
  BY <1>4
<1> QED BY <1>4, <1>5, <1>6

\* Stepping an index that wraps is stepping the sequence number.
LEMMA NextSlot ==
    ASSUME NEW n \in Nat \ {0}, NEW a \in Nat
    PROVE  ((a % n) + 1) % n = (a + 1) % n
<1>0. /\ a = n * (a \div n) + (a % n)
      /\ a \div n \in Int /\ a % n \in 0..(n-1)
  OBVIOUS
<1> DEFINE q == a \div n
           r == a % n
<1>1. a = n * q + r /\ q \in Int /\ r \in 0..(n-1)
  BY <1>0
<1> HIDE DEF q, r
<1>2. (r + 1) % n = (a + 1) % n
  <2>1. CASE r + 1 < n
    <3>1. (n * q + (r + 1)) % n = r + 1 /\ (n * 0 + (r + 1)) % n = r + 1
      BY <1>1, <2>1, r + 1 \in 0..(n-1), Remainder
    <3>2. n * q + (r + 1) = a + 1 /\ n * 0 + (r + 1) = r + 1
      BY <1>1
    <3> QED BY <3>1, <3>2
  <2>2. CASE r + 1 = n
    <3>1. (n * (q + 1) + 0) % n = 0 /\ (n * 1 + 0) % n = 0
      BY <1>1, Remainder
    <3>2. n * (q + 1) + 0 = a + 1 /\ n * 1 + 0 = r + 1
      BY <1>1, <2>2
    <3> QED BY <3>1, <3>2
  <2> QED BY <1>1, <2>1, <2>2
<1> QED BY <1>2 DEF r

\* A sequence number and the one a lap later share a slot.
LEMMA SameSlot ==
    ASSUME NEW n \in Nat \ {0}, NEW a \in Nat
    PROVE  (a + n) % n = a % n
<1>0. /\ a = n * (a \div n) + (a % n)
      /\ a \div n \in Int /\ a % n \in 0..(n-1)
  OBVIOUS
<1> DEFINE q == a \div n
           r == a % n
<1>1. a = n * q + r /\ q \in Int /\ r \in 0..(n-1)
  BY <1>0
<1> HIDE DEF q, r
<1>2. (n * (q + 1) + r) % n = r
  BY <1>1, Remainder
<1>3. n * (q + 1) + r = a + n
  BY <1>1
<1>4. (a + n) % n = r
  BY <1>2, <1>3
<1> QED BY <1>4 DEF r

-----------------------------------------------------------------------------

USE SoundboardAssumption
USE DEF queue, mixer, render, model, counted, history, Indices

\* The numbers that are compared are integers, and the counts stand for indices.
LEMMA Counts ==
  ASSUME TypeOK
  PROVE  /\ QueueSlots \in Nat \ {0}
         /\ accepted \in Nat /\ freed \in Nat /\ taken \in Nat /\ target \in Nat
         /\ accepted % QueueSlots \in Indices /\ freed % QueueSlots \in Indices
         /\ \A p \in Pads : stops[p] \in Int
  BY DEF TypeOK, Numbers

\* Every command the handlers queue is one.
LEMMA CommandType ==
  ASSUME TypeOK, accepted < MaxCommands
  PROVE  /\ StopAllCommand(accepted) \in Commands
         /\ \A p \in Pads : StopCommand(p, accepted) \in Commands
         /\ \A p \in Pads, r \in Nat, awaited \in BOOLEAN :
               PlayCommand(p, accepted, r, awaited) \in Commands
  BY DEF TypeOK, StopAllCommand, StopCommand, PlayCommand, Commands, Numbers

\* Every slot holds a command whose number is a number.
LEMMA SlotType ==
  ASSUME NEW c \in Commands
  PROVE  /\ c.number \in Numbers /\ c.number \in Int
         /\ c.kind = "play" => c.pad \in Pads
  BY DEF Commands, Numbers

\* The initial state satisfies the invariant.
LEMMA InitInv == Init => SoundboardInv
  <1> SUFFICES ASSUME Init PROVE SoundboardInv
    OBVIOUS
  <1>1. StopAllCommand(-1) \in Commands BY DEF StopAllCommand, Commands, Numbers
  <1>2. 0 \in Indices /\ -1 \in Numbers /\ 0 \in 0..MaxCommands BY DEF Numbers
  <1>3. TypeOK
    <2>1. LoadingOK BY DEF Init, LoadingOK
    <2>2. slots \in [Indices -> Commands] /\ stops \in [Pads -> Numbers]
      BY <1>1, <1>2 DEF Init
    <2>3. run \in 0..MaxRuns /\ loaded \subseteq Pads BY DEF Init
    <2> QED BY <1>2, <2>1, <2>2, <2>3 DEF Init, TypeOK
  <1>4. 0 % QueueSlots = 0
    OBVIOUS
  <1>5. IndicesCount BY <1>4 DEF Init, IndicesCount
  <1>6. VoicesCounted BY FS_EmptySet DEF Init, VoicesCounted
  <1>7. CommandsInPlace /\ StopsInPlace /\ VoicesCameFirst /\ NoVoiceOutlivesItsStop
        /\ SoundsAreOfThisRun /\ PlaysInPlace /\ StartsAreQuiet
    BY DEF Init, CommandsInPlace, StopsInPlace, VoicesCameFirst, NoVoiceOutlivesItsStop,
           SoundsAreOfThisRun, PlaysInPlace, StartsAreQuiet
  <1> QED BY <1>3, <1>5, <1>6, <1>7 DEF SoundboardInv, Init

-----------------------------------------------------------------------------
(* The UI thread. *)

\* The commands a handler may store.
Stored(c) == /\ c.number = accepted /\ StoreCommand(c) /\ OfThisRun(c)
             /\ busy' = "starting" /\ c.kind = "play" => c.awaited

\* A handler that stores a command, or finds the queue full, and changes
\* besides only what the queue's invariant does not mention.
LEMMA QueueInv ==
  ASSUME SoundboardInv, TypeOK',
         \/ Refused
         \/ \E c \in Commands : Stored(c),
         UNCHANGED <<cmdRead, cmdWrite, mixer, render, counted, accepted, stops, run>>,
         busy' = "starting" => busy = "starting" /\ isRunning' = isRunning
  PROVE  SoundboardInv'
  <1> USE DEF SoundboardInv
  <1>0. SoundsAreOfThisRun' BY DEF SoundsAreOfThisRun, OfThisRun
  <1>1. CASE Refused
    <2>1. PlaysInPlace' /\ StartsAreQuiet'
      BY <1>1 DEF Refused, PlaysInPlace, StartsAreQuiet, OfThisRun
    <2> QED BY <1>0, <1>1, <2>1
            DEF Refused, IndicesCount, CommandsInPlace, StopsInPlace, VoicesCameFirst,
                VoicesCounted, NoVoiceOutlivesItsStop, Silences
  <1>2. ASSUME NEW c \in Commands, c.number = accepted, StoreCommand(c), OfThisRun(c),
               busy' = "starting" /\ c.kind = "play" => c.awaited
        PROVE  SoundboardInv'
    <2> USE <1>2 DEF StoreCommand
    <2>1. accepted < freed + QueueSlots - 1
      <3>1. NextIndex(cmdWrite) = (accepted + 1) % QueueSlots
        BY Counts, NextSlot DEF IndicesCount, NextIndex
      <3>2. accepted + 1 # freed + QueueSlots
        <4>1. SUFFICES ASSUME accepted + 1 = freed + QueueSlots PROVE FALSE
          OBVIOUS
        <4>2. (freed + QueueSlots) % QueueSlots = freed % QueueSlots
          BY Counts, SameSlot
        <4> QED BY <3>1, <4>1, <4>2 DEF Room, IndicesCount
      <3> QED BY <3>2 DEF IndicesCount, TypeOK
    <2>2. \A n \in freed..(accepted - 1) : slots'[n % QueueSlots] = slots[n % QueueSlots]
      <3> SUFFICES ASSUME NEW n \in freed..(accepted - 1)
                   PROVE  slots'[n % QueueSlots] = slots[n % QueueSlots]
        OBVIOUS
      <3>1. n \in Nat /\ n < accepted /\ accepted < n + QueueSlots
        BY <2>1 DEF TypeOK
      <3>2. n % QueueSlots # cmdWrite
        BY <3>1, Counts, DistinctSlots DEF IndicesCount
      <3>3. n % QueueSlots \in Indices
        BY <3>1
      <3> QED BY <3>2, <3>3 DEF TypeOK
    <2>3. slots'[accepted % QueueSlots] = c /\ slots'[cmdWrite] = c
      BY DEF IndicesCount, TypeOK
    <2>4. IndicesCount'
      BY <2>1 DEF IndicesCount
    <2>5. CommandsInPlace'
      BY <2>2, <2>3, Counts DEF CommandsInPlace
    <2>6. StopsInPlace'
      <3> SUFFICES ASSUME NEW p \in Pads, stops[p] >= taken
                   PROVE  Silences(slots'[stops[p] % QueueSlots], p)
        BY DEF StopsInPlace
      <3>1. stops[p] \in freed..(accepted - 1)
        BY DEF StopsInPlace, IndicesCount, TypeOK, Numbers
      <3> QED BY <2>2, <3>1 DEF StopsInPlace
    <2>7. PlaysInPlace'
      <3>1. \A n \in freed..accepted : n >= openedAt => OfThisRun(slots'[n % QueueSlots])
        <4> SUFFICES ASSUME NEW n \in freed..accepted, n >= openedAt
                     PROVE  OfThisRun(slots'[n % QueueSlots])
          OBVIOUS
        <4>1. CASE n = accepted BY <2>3, <4>1
        <4>2. CASE n # accepted
          <5>1. n \in freed..(accepted - 1) BY <4>2, Counts
          <5> QED BY <2>2, <5>1 DEF PlaysInPlace
        <4> QED BY <4>1, <4>2
      <3>2. ui' = "storing" /\ UNCHANGED <<freed, accepted, openedAt, run>>
        BY DEF StoreCommand
      <3>3. openedAt <= accepted /\ accepted \in Nat BY Counts DEF PlaysInPlace
      <3> QED BY <3>1, <3>2, <3>3 DEF PlaysInPlace, OfThisRun
    <2>8. StartsAreQuiet' BY <2>3 DEF StartsAreQuiet
    <2> QED BY <1>0, <2>4, <2>5, <2>6, <2>7, <2>8
            DEF VoicesCameFirst, VoicesCounted, NoVoiceOutlivesItsStop
  <1> QED BY <1>1, <1>2 DEF Stored

\* The view model's handlers.
LEMMA HandlerInv ==
  ASSUME SoundboardInv, Handler
  PROVE  SoundboardInv'
  <1> USE DEF SoundboardInv, LoadingOK
  <1>0. ASSUME UNCHANGED <<slots, cmdRead, cmdWrite, mixer, render, ui, counted, accepted,
                           stops, run>>, TypeOK',
               busy' = "starting" => /\ isRunning' = FALSE
                                     /\ run < MaxRuns \/ worker = "opening"
                                     /\ busy = "starting" \/ ui = "idle"
        PROVE  SoundboardInv'
    <2>1. PlaysInPlace' /\ StartsAreQuiet'
      BY <1>0 DEF PlaysInPlace, StartsAreQuiet, OfThisRun
    <2> QED BY <1>0, <2>1
            DEF IndicesCount, CommandsInPlace, StopsInPlace, VoicesCameFirst, VoicesCounted,
                NoVoiceOutlivesItsStop, SoundsAreOfThisRun, OfThisRun, Silences
  <1>1. CASE StopAll
    <2> USE <1>1 DEF StopAll, Queue
    <2>1. TypeOK' BY CommandType DEF TypeOK, StoreCommand, Refused
    <2>2. /\ StopAllCommand(accepted).number = accepted
          /\ OfThisRun(StopAllCommand(accepted)) /\ busy' # "starting"
      BY DEF StopAllCommand, OfThisRun
    <2> QED BY <2>1, <2>2, CommandType, QueueInv DEF StoreCommand, Stored
  <1>2. CASE StartEngine
    BY <1>0, <1>2 DEF StartEngine, TypeOK
  <1>3. CASE EndStart
    BY <1>0, <1>3 DEF EndStart, TypeOK
  <1>4. CASE EndRefusedStart
    BY <1>0, <1>4 DEF EndRefusedStart, TypeOK
  <1>5. CASE EndStop
    BY <1>0, <1>5 DEF EndStop, TypeOK
  <1>6. CASE TickNoticesDeath
    <2> USE <1>6 DEF TickNoticesDeath, Queue
    <2>1. TypeOK' BY CommandType DEF TypeOK, StoreCommand, Refused
    <2>2. /\ StopAllCommand(accepted).number = accepted
          /\ OfThisRun(StopAllCommand(accepted)) /\ busy' # "starting"
      BY DEF StopAllCommand, OfThisRun, StartsAreQuiet
    <2> QED BY <2>1, <2>2, CommandType, QueueInv DEF StoreCommand, Stored
  <1>7. ASSUME NEW p \in Pads, PressLoaded(p) PROVE SoundboardInv'
    <2> USE <1>7 DEF PressLoaded, Queue
    <2>0. run \in Nat BY DEF TypeOK
    <2>1. TypeOK' BY <2>0, CommandType DEF TypeOK, StoreCommand, Refused
    <2>2. /\ PlayCommand(p, accepted, run, FALSE).number = accepted
          /\ OfThisRun(PlayCommand(p, accepted, run, FALSE)) /\ busy' # "starting"
      BY DEF PlayCommand, OfThisRun, StartsAreQuiet
    <2> QED BY <2>0, <2>1, <2>2, CommandType, QueueInv DEF StoreCommand, Stored
  <1>8. ASSUME NEW p \in Pads, PressUnloaded(p) PROVE SoundboardInv'
    <2>1. TypeOK' BY <1>8 DEF PressUnloaded, TypeOK
    <2> QED BY <1>0, <1>8, <2>1 DEF PressUnloaded, StartsAreQuiet
  <1>9. ASSUME NEW p \in Pads, NEW r \in 0..MaxRuns, LoadReturns(p, r)
        PROVE  LoadingOK'
    <2>1. loading[<<p, r>>] \in Nat BY DEF TypeOK, LoadingOK
    <2>2. loading[<<p, r>>] - 1 \in Nat BY <1>9, <2>1 DEF LoadReturns
    <2> QED BY <1>9, <2>2 DEF LoadReturns, TypeOK, LoadingOK
  <1>10. ASSUME NEW p \in Pads, NEW r \in 0..MaxRuns, LoadSucceeds(p, r)
         PROVE  SoundboardInv'
    <2> USE <1>10 DEF LoadSucceeds, Queue
    <2>0. r \in Nat /\ LoadingOK' BY <1>9 DEF TypeOK
    <2>1. TypeOK' BY <2>0, CommandType DEF TypeOK, StoreCommand, Refused
    <2>2. /\ PlayCommand(p, accepted, r, TRUE).number = accepted
          /\ OfThisRun(PlayCommand(p, accepted, r, TRUE))
          /\ PlayCommand(p, accepted, r, TRUE).awaited
      BY DEF PlayCommand, OfThisRun
    <2> QED BY <2>0, <2>1, <2>2, CommandType, QueueInv DEF StoreCommand, Stored
  <1>11. ASSUME NEW p \in Pads, NEW r \in 0..MaxRuns, LoadFails(p, r)
         PROVE  SoundboardInv'
    <2> USE <1>11 DEF LoadFails
    <2>0. r \in Nat /\ LoadingOK' BY <1>9 DEF TypeOK
    <2>1. CASE p \in loaded
      <3> USE <2>1 DEF Queue
      <3>1. TypeOK' BY <2>0, CommandType DEF TypeOK, StoreCommand, Refused
      <3>2. /\ PlayCommand(p, accepted, r, TRUE).number = accepted
            /\ OfThisRun(PlayCommand(p, accepted, r, TRUE))
            /\ PlayCommand(p, accepted, r, TRUE).awaited
        BY DEF PlayCommand, OfThisRun
      <3> QED BY <2>0, <3>1, <3>2, CommandType, QueueInv DEF StoreCommand, Stored
    <2>2. CASE p \notin loaded
      <3>1. TypeOK' BY <2>0, <2>2 DEF TypeOK
      <3>2. busy' = busy /\ isRunning' = isRunning /\ ui = "idle"
            /\ UNCHANGED <<slots, cmdRead, cmdWrite, mixer, render, ui, counted, accepted,
                           stops, run>>
            /\ StartsAreQuiet
        BY <2>2
      <3>3. isRunning' \in BOOLEAN BY <3>1 DEF TypeOK
      <3>4. busy' = "starting" => /\ isRunning' = FALSE
                                  /\ run < MaxRuns \/ worker = "opening"
                                  /\ busy = "starting" \/ ui = "idle"
        BY <3>2, <3>3 DEF StartsAreQuiet
      <3> QED BY <1>0, <3>1, <3>2, <3>4
    <2> QED BY <2>1, <2>2
  <1>12. ASSUME NEW p \in Pads, StopPad(p) PROVE SoundboardInv'
    <2> USE <1>12 DEF StopPad, Queue
    <2>1. TypeOK' BY CommandType DEF TypeOK, StoreCommand, Refused
    <2>2. /\ StopCommand(p, accepted).number = accepted
          /\ OfThisRun(StopCommand(p, accepted)) /\ StopCommand(p, accepted).kind = "stop"
      BY DEF StopCommand, OfThisRun
    <2> QED BY <2>1, <2>2, CommandType, QueueInv DEF StoreCommand, Stored
  <1> QED
    BY <1>1, <1>2, <1>3, <1>4, <1>5, <1>6, <1>7, <1>8, <1>10, <1>11, <1>12 DEF Handler

\* The store of the write index.
LEMMA PublishInv ==
  ASSUME SoundboardInv, PublishCommand
  PROVE  SoundboardInv'
  <1> USE DEF SoundboardInv, PublishCommand
  <1>1. cmdWrite' = (accepted + 1) % QueueSlots
    BY Counts, NextSlot DEF IndicesCount, NextIndex
  <1>2. cmdWrite' \in Indices /\ accepted + 1 \in 0..MaxCommands
    BY <1>1 DEF TypeOK, IndicesCount
  <1>3. TypeOK'
    BY <1>2 DEF TypeOK, LoadingOK, Numbers
  <1>4. IndicesCount'
    BY <1>1 DEF IndicesCount, TypeOK
  <1>5. CommandsInPlace'
    BY DEF CommandsInPlace, TypeOK
  <1>6. StopsInPlace'
    BY DEF StopsInPlace, IndicesCount, TypeOK, Numbers, Silences
  <1>7. NoVoiceOutlivesItsStop'
    BY DEF NoVoiceOutlivesItsStop, VoicesCameFirst, IndicesCount, TypeOK, Numbers
  <1>8. PlaysInPlace' /\ StartsAreQuiet'
    BY DEF PlaysInPlace, StartsAreQuiet, OfThisRun, TypeOK
  <1> QED BY <1>3, <1>4, <1>5, <1>6, <1>7, <1>8
          DEF VoicesCameFirst, VoicesCounted, SoundsAreOfThisRun, OfThisRun

-----------------------------------------------------------------------------
(* The engine. *)

\* ResetPlayback clears the voices and reads the write index ...
LEMMA BeginResetInv ==
  ASSUME SoundboardInv, WorkerOpens \/ WorkerCloses \/ StreamFails
  PROVE  SoundboardInv'
  <1> USE DEF SoundboardInv, WorkerOpens, WorkerCloses, StreamFails, BeginReset
  <1>0. run' \in 0..MaxRuns /\ accepted \in Nat BY DEF StartsAreQuiet, TypeOK
  <1>1. TypeOK' BY <1>0 DEF TypeOK, LoadingOK
  <1>2. IndicesCount' BY DEF IndicesCount, TypeOK
  <1>3. CommandsInPlace' /\ StopsInPlace' BY DEF CommandsInPlace, StopsInPlace, Silences
  <1>4. VoicesCameFirst' /\ NoVoiceOutlivesItsStop' /\ SoundsAreOfThisRun'
    BY DEF VoicesCameFirst, NoVoiceOutlivesItsStop, SoundsAreOfThisRun
  <1>5. VoicesCounted' BY FS_EmptySet DEF VoicesCounted
  <1>6. openedAt' <= target'
    BY <1>0 DEF IndicesCount, PlaysInPlace, TypeOK
  <1>8. StartsAreQuiet'
    <2>1. CASE WorkerOpens BY <2>1 DEF StartsAreQuiet
    <2>2. CASE WorkerCloses \/ StreamFails BY <2>2 DEF StartsAreQuiet
    <2> QED BY <2>1, <2>2
  <1>7. PlaysInPlace'
    <2>1. CASE WorkerOpens
      <3>1. ASSUME ui = "storing" PROVE OfThisRun(slots[accepted % QueueSlots])'
        BY <2>1, <3>1 DEF StartsAreQuiet, IndicesCount, OfThisRun
      <3> QED BY <2>1, <3>1 DEF PlaysInPlace, TypeOK
    <2>2. CASE WorkerCloses \/ StreamFails
      BY <2>2 DEF PlaysInPlace, OfThisRun
    <2> QED BY <2>1, <2>2
  <1> QED BY <1>1, <1>2, <1>3, <1>4, <1>5, <1>6, <1>7, <1>8

\* ... and then drops what that index covers.
LEMMA EndResetInv ==
  ASSUME SoundboardInv, WorkerOpened \/ WorkerClosed
  PROVE  SoundboardInv'
  <1> USE DEF SoundboardInv, WorkerOpened, WorkerClosed, EndReset
  <1>0. voices = {} BY DEF VoicesCounted
  <1>1. TypeOK' BY DEF TypeOK, LoadingOK
  <1>2. IndicesCount' BY DEF IndicesCount, TypeOK
  <1>3. CommandsInPlace' BY DEF CommandsInPlace, IndicesCount, TypeOK
  <1>4. StopsInPlace' BY Counts DEF StopsInPlace, IndicesCount, Silences
  <1>5. VoicesCameFirst' /\ NoVoiceOutlivesItsStop' /\ SoundsAreOfThisRun'
    BY <1>0 DEF VoicesCameFirst, NoVoiceOutlivesItsStop, SoundsAreOfThisRun
  <1>6. VoicesCounted' BY <1>0, FS_EmptySet DEF VoicesCounted
  <1>7. PlaysInPlace'
    <2>1. freed \in Int /\ target \in Int /\ freed <= target BY DEF IndicesCount, TypeOK
    <2> QED BY <2>1 DEF PlaysInPlace, OfThisRun
  <1>8. StartsAreQuiet' BY DEF StartsAreQuiet
  <1> QED BY <1>1, <1>2, <1>3, <1>4, <1>5, <1>6, <1>7, <1>8

\* A drain starts from the two indices it reads.
LEMMA BeginDrainInv ==
  ASSUME SoundboardInv, BeginDrain
  PROVE  SoundboardInv'
  <1> USE DEF SoundboardInv, BeginDrain
  <1>1. TypeOK' BY DEF TypeOK, LoadingOK
  <1>2. IndicesCount' BY DEF IndicesCount, TypeOK
  <1>3. CommandsInPlace' /\ StopsInPlace' BY DEF CommandsInPlace, StopsInPlace, Silences
  <1>4. VoicesCameFirst' /\ NoVoiceOutlivesItsStop' /\ SoundsAreOfThisRun' /\ VoicesCounted'
    BY DEF VoicesCameFirst, NoVoiceOutlivesItsStop, SoundsAreOfThisRun, OfThisRun,
           VoicesCounted
  <1>5. openedAt' <= target' /\ openedAt' <= taken' BY DEF IndicesCount, TypeOK
  <1>6. PlaysInPlace' /\ StartsAreQuiet' BY DEF PlaysInPlace, StartsAreQuiet, OfThisRun
  <1> QED BY <1>1, <1>2, <1>3, <1>4, <1>5, <1>6

\* The drain reaches the index it read before it meets a slot in use.
LEMMA DrainReads ==
  ASSUME SoundboardInv, worker = "draining", drainAt # drainTo
  PROVE  /\ taken < target
         /\ slots[drainAt] \in Commands /\ slots[drainAt].number = taken
         /\ OfThisRun(slots[drainAt])
  <1> USE DEF SoundboardInv
  <1>1. taken < target BY DEF IndicesCount, TypeOK
  <1>2. taken \in freed..(accepted - 1) BY <1>1 DEF IndicesCount, TypeOK
  <1>3. slots[taken % QueueSlots].number = taken BY <1>2 DEF CommandsInPlace, TypeOK
  <1>4. taken \in freed..(accepted - (IF ui = "storing" THEN 0 ELSE 1)) /\ openedAt <= taken
    BY <1>1, <1>2 DEF TypeOK
  <1>5. OfThisRun(slots[taken % QueueSlots]) BY <1>4 DEF PlaysInPlace
  <1> QED BY <1>1, <1>3, <1>5 DEF IndicesCount, TypeOK

\* One command is applied.
LEMMA ApplyInv ==
  ASSUME SoundboardInv, ApplyCommand
  PROVE  SoundboardInv'
  <1> USE DEF SoundboardInv, ApplyCommand
  <1> DEFINE c == slots[drainAt]
             left == voices \ Silenced(c)
  <1>1. taken < target /\ c \in Commands /\ c.number = taken /\ OfThisRun(c)
    BY DrainReads
  <1>2. voices' \subseteq left \cup {c} /\ (c \in voices' => c \in voices \/ c.kind = "play")
    BY DEF Applied
  <1>3. drainAt' = (taken + 1) % QueueSlots
    BY Counts, NextSlot DEF IndicesCount, NextIndex
  <1>4. drainAt' \in Indices BY <1>3 DEF TypeOK
  <1>5. TypeOK' BY <1>1, <1>2, <1>4 DEF TypeOK, LoadingOK
  <1>6. IndicesCount' BY <1>1, <1>3 DEF IndicesCount, TypeOK
  <1>7. CommandsInPlace' BY DEF CommandsInPlace
  <1>8. StopsInPlace' BY DEF StopsInPlace, TypeOK, Numbers, Silences
  <1>9. \A v \in voices' : \/ v \in left
                           \/ v = c /\ v.number = taken /\ v.pad \in Pads
    BY <1>1, <1>2, SlotType DEF VoicesCameFirst
  <1>10. VoicesCameFirst'
    BY <1>9 DEF VoicesCameFirst, TypeOK
  <1>11. NoVoiceOutlivesItsStop'
    <2> SUFFICES ASSUME NEW v \in voices', stops[v.pad] < taken + 1
                 PROVE  v.number >= stops[v.pad]
      BY DEF NoVoiceOutlivesItsStop
    <2>1. v.pad \in Pads /\ stops[v.pad] \in Int /\ taken \in Int
      BY <1>9 DEF VoicesCameFirst, TypeOK, Numbers
    <2>2. CASE v \in left
      <3>1. ~Silences(c, v.pad) /\ v \in voices BY <2>2 DEF Silenced
      <3>2. stops[v.pad] # taken
        <4>1. taken % QueueSlots = drainAt BY DEF IndicesCount
        <4>2. stops[v.pad] >= taken => Silences(slots[stops[v.pad] % QueueSlots], v.pad)
          BY <2>1 DEF StopsInPlace
        <4> QED BY <2>1, <3>1, <4>1, <4>2
      <3> QED BY <2>1, <3>1, <3>2 DEF NoVoiceOutlivesItsStop
    <2>3. CASE v.number = taken BY <2>1, <2>3
    <2> QED BY <1>9, <2>2, <2>3
  <1>12. SoundsAreOfThisRun' BY <1>1, <1>9 DEF SoundsAreOfThisRun, OfThisRun, TypeOK
  <1>13. VoicesCounted'
    <2>1. IsFiniteSet(left) /\ Cardinality(left) <= Cardinality(voices)
      BY FS_Subset DEF VoicesCounted
    <2>2. Cardinality(left) \in Nat /\ Cardinality(voices) \in Nat
      BY <2>1, FS_CardinalityType DEF VoicesCounted
    <2>3. CASE c.kind = "play" /\ Cardinality(left) < MaxVoices
      <3>1. voices' = left \cup {c} BY <2>3 DEF Applied
      <3>2. IsFiniteSet(left \cup {c})
            /\ Cardinality(left \cup {c}) \in {Cardinality(left), Cardinality(left) + 1}
        BY <2>1, FS_AddElement
      <3> QED BY <2>2, <2>3, <3>1, <3>2 DEF VoicesCounted
    <2>4. CASE ~(c.kind = "play" /\ Cardinality(left) < MaxVoices)
      <3>1. voices' = left BY <2>4 DEF Applied
      <3> QED BY <2>1, <2>2, <3>1 DEF VoicesCounted
    <2> QED BY <2>3, <2>4
  <1>14. PlaysInPlace' /\ StartsAreQuiet' BY DEF PlaysInPlace, StartsAreQuiet, OfThisRun
  <1> QED BY <1>1, <1>5, <1>6, <1>7, <1>8, <1>10, <1>11, <1>12, <1>13, <1>14 DEF TypeOK

\* The slots are given back and a frame is mixed.
LEMMA MixFrameInv ==
  ASSUME SoundboardInv, MixFrame
  PROVE  SoundboardInv'
  <1> USE DEF SoundboardInv, MixFrame
  <1>1. TypeOK' BY DEF TypeOK, LoadingOK
  <1>2. IndicesCount' BY DEF IndicesCount, TypeOK
  <1>3. CommandsInPlace'
    <2>1. freed \in Int /\ taken \in Int /\ freed <= taken BY DEF IndicesCount, TypeOK
    <2> QED BY <2>1 DEF CommandsInPlace
  <1>4. StopsInPlace' BY DEF StopsInPlace, Silences
  <1>5. VoicesCameFirst' /\ NoVoiceOutlivesItsStop' /\ SoundsAreOfThisRun'
    BY DEF VoicesCameFirst, NoVoiceOutlivesItsStop, SoundsAreOfThisRun, OfThisRun
  <1>6. VoicesCounted'
    <2>1. IsFiniteSet(voices') /\ Cardinality(voices') <= Cardinality(voices)
      BY FS_Subset DEF VoicesCounted
    <2>2. Cardinality(voices') \in Nat /\ Cardinality(voices) \in Nat
      BY <2>1, FS_CardinalityType DEF VoicesCounted
    <2> QED BY <2>1, <2>2 DEF VoicesCounted
  <1>7. PlaysInPlace' /\ StartsAreQuiet'
    <2>1. freed \in Int /\ taken \in Int /\ freed <= taken BY DEF IndicesCount, TypeOK
    <2> QED BY <2>1 DEF PlaysInPlace, StartsAreQuiet, OfThisRun
  <1> QED BY <1>1, <1>2, <1>3, <1>4, <1>5, <1>6, <1>7

LEMMA NextInv == ASSUME SoundboardInv, [Next]_vars PROVE SoundboardInv'
  <1>1. CASE UNCHANGED vars
    BY <1>1 DEF vars, SoundboardInv, TypeOK, LoadingOK, IndicesCount, CommandsInPlace, StopsInPlace,
                Silences, VoicesCameFirst, VoicesCounted, NoVoiceOutlivesItsStop,
                SoundsAreOfThisRun, PlaysInPlace, StartsAreQuiet, OfThisRun
  <1>2. CASE Next
    BY <1>2, HandlerInv, PublishInv, BeginResetInv, EndResetInv, BeginDrainInv, ApplyInv,
       MixFrameInv DEF Next, Worker
  <1> QED BY <1>1, <1>2

-----------------------------------------------------------------------------

\* The inductive invariant holds in every reachable state.
THEOREM Invariance == Spec => []SoundboardInv
  BY InitInv, NextInv, PTL DEF Spec

\* Once the worker has got past the latest stop of a pad, no earlier sound of
\* it is left.
THEOREM StopsAreFinal == Spec => []NoVoiceOutlivesItsStop
  <1>1. SoundboardInv => NoVoiceOutlivesItsStop BY DEF SoundboardInv
  <1> QED BY <1>1, Invariance, PTL

\* What is heard was queued in this run of the engine, and was pressed in it too
\* unless the press awaited its load.
THEOREM RunsAreSeparate == Spec => []SoundsAreOfThisRun
  <1>1. SoundboardInv => SoundsAreOfThisRun BY DEF SoundboardInv
  <1> QED BY <1>1, Invariance, PTL

\* The ring of commands implements the bounded FIFO.
THEOREM Refinement == Spec => ImplementsFifo
  <1>1. Init => CommandFifo!ChannelInit
    BY DEF Init, CommandFifo!ChannelInit, CommandFifo!Silence, CommandFifo!Frames
  <1>2. ASSUME SoundboardInv, [Next]_vars
        PROVE  [CommandFifo!ChannelNext]_(CommandFifo!channelVars)
    <2> USE <1>2 DEF SoundboardInv, CommandFifo!channelVars
    <2>1. CASE PublishCommand
      <3>1. 1 \in 1..(taken + (QueueSlots - 1) - accepted)
        BY <2>1 DEF PublishCommand, IndicesCount, TypeOK
      <3> QED BY <2>1, <3>1
              DEF PublishCommand, CommandFifo!ChannelNext, CommandFifo!Push
    <2>2. CASE Handler
      BY <2>2 DEF Handler, StopAll, StartEngine, EndStart, EndRefusedStart, EndStop,
                  TickNoticesDeath, PressLoaded, PressUnloaded, LoadReturns, LoadSucceeds,
                  LoadFails, StopPad
    <2>3. CASE WorkerOpens \/ WorkerCloses \/ StreamFails \/ BeginDrain \/ MixFrame
      BY <2>3 DEF WorkerOpens, WorkerCloses, StreamFails, BeginReset, BeginDrain, MixFrame
    <2>4. CASE WorkerOpened \/ WorkerClosed
      <3>1. target \in taken..accepted
        BY <2>4 DEF WorkerOpened, WorkerClosed, IndicesCount, TypeOK
      <3> QED BY <2>4, <3>1 DEF WorkerOpened, WorkerClosed, EndReset,
                                CommandFifo!ChannelNext, CommandFifo!Discard
    <2>5. CASE ApplyCommand
      <3>1. taken < target /\ slots[drainAt].number = taken
        BY <2>5, DrainReads DEF ApplyCommand
      <3>2. 1 \in 1..(accepted - taken)
        BY <2>5, <3>1 DEF ApplyCommand, IndicesCount, TypeOK
      <3>3. applied' = CommandFifo!Frames(taken, 1)
        BY <2>5, <3>1 DEF ApplyCommand, CommandFifo!Frames, TypeOK
      <3> QED BY <2>5, <3>2, <3>3
              DEF ApplyCommand, CommandFifo!ChannelNext, CommandFifo!Take
    <2>6. CASE UNCHANGED vars BY <2>6 DEF vars
    <2> QED BY <2>1, <2>2, <2>3, <2>4, <2>5, <2>6 DEF Next, Worker
  <1> QED BY <1>1, <1>2, Invariance, PTL
          DEF Spec, ImplementsFifo, CommandFifo!ChannelSpec
=============================================================================
