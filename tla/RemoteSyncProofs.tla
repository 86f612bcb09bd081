-------------------------- MODULE RemoteSyncProofs --------------------------
(***************************************************************************)
(* For any number of phones, sockets and changes and any room on the wire: *)
(* only the socket a phone has now can reach its handlers, and a phone at  *)
(* rest has had the present state.                                         *)
(*                                                                         *)
(* The first is an invariant once it is known whose each socket is.  For   *)
(* the second, say of a served socket that its phone is informed: either   *)
(* the loop will still tell it, or the present version was heard or is on  *)
(* its way.  Every change is followed by an invalidation in the same step, *)
(* and so keeps that; a socket that joins while the loop is between two    *)
(* rounds is covered by the snapshot of its handshake.                     *)
(***************************************************************************)
EXTENDS RemoteSync, TLAPS

USE SyncAssumption
USE DEF desktop, handlers, wires, client

-----------------------------------------------------------------------------
(* Whose a socket is. *)

Ownership ==
    /\ \A s \in attached : owner[s] \in Phones /\ sock[owner[s]] = s
    /\ \A p \in Phones : sock[p] # None => owner[sock[p]] = p
    /\ \A p \in Phones : sock[p] <= opened
    /\ \A s \in attached : s <= opened
    /\ \A s \in Sockets : s > opened => at[s] = "none"
    /\ \A p \in Phones : authTimer[p] => view[p] # "connected"
    /\ loop.at \in {"taking", "sending"} => loop.todo # {}

OwnerInv == SyncInv /\ Ownership

-----------------------------------------------------------------------------
(* What a phone has had and will have. *)

Snapshot(m) == m.type \in {"first", "update"}

\* Nothing in d is newer than v.
Behind(d, v) == \A i \in 1..Len(d) : d[i].version <= v

\* A snapshot of v is in d.
Carries(d, v) == \E i \in 1..Len(d) : Snapshot(d[i]) /\ d[i].version = v

\* Shown, a snapshot is either the present state or that of the handshake; d ends
\* with such a one, or has none and one is shown already.
Fine(type, v, now) == v = now \/ type = "first"

EndsFine(d, type, v, now) ==
    \/ \E i \in 1..Len(d) :
         /\ Snapshot(d[i]) /\ Fine(d[i].type, d[i].version, now)
         /\ \A j \in 1..Len(d) : j > i => ~Snapshot(d[j])
    \/ (\A i \in 1..Len(d) : ~Snapshot(d[i])) /\ Fine(type, v, now)

\* No copy of the state is newer than the state.
NoneAhead ==
    /\ loop.snap <= version
    /\ \A s \in Sockets : initial[s] <= version /\ Behind(down[s], version)
    /\ \A p \in Phones : heard[p] <= version

\* The loop will tell s, be it in this round or in the next.
ToBeTold(s) ==
    \/ pending \/ loop.at = "delaying"
    \/ loop.at \in {"taking", "sending"} /\ s \in loop.todo

Had(p, s) == heard[p] = version \/ Carries(down[s], version)
WillShow(p, s) == EndsFine(down[s], source[p].type, shown[p], version)

InformedAt(p, s) ==
    link[s] = "open" =>
        /\ at[s] = "send" => ToBeTold(s) \/ initial[s] = version \/ Had(p, s)
        /\ at[s] \in {"serving", "executed"} =>
              ToBeTold(s) \/ (Had(p, s) /\ WillShow(p, s))

Informed == \A p \in Phones, s \in Sockets : sock[p] = s => InformedAt(p, s)

\* A snapshot that is being sent is the present state, or another round follows.
SnapCurrent == loop.at = "sending" => pending \/ loop.snap = version

RestInv == OwnerInv /\ NoneAhead /\ Informed /\ SnapCurrent

-----------------------------------------------------------------------------
(* OwnerInv is inductive. *)

\* It holds at first.
LEMMA InitInv == Init => OwnerInv
  <1> SUFFICES ASSUME Init PROVE OwnerInv OBVIOUS
  <1>1. TypeOK
    BY DEF Init, TypeOK, Versions, SomeVersion, SomeSocket, Sockets, None, Nothing, Idle,
           NoSource, Message
  <1>2. Ownership BY DEF Init, Ownership, Sockets, None, Nothing, Idle
  <1> QED
    BY <1>1, <1>2
    DEF Init, OwnerInv, SyncInv, ConnectedShowsThisSocket, NeverStranded, Sockets, None,
        Nothing, Idle

\* What is sent is a message.
LEMMA Sends ==
  ASSUME TypeOK, NEW s \in Sockets, NEW m \in Message, Send(s, m)
  PROVE  down' \in [Sockets -> Seq(Message)]
  BY DEF TypeOK, Send

\* The state changes, and the loop goes on.
LEMMA DesktopInv ==
  ASSUME OwnerInv, Change \/ LoopWakes \/ LoopListsClients \/ LoopTakesSnapshot
  PROVE  OwnerInv'
  <1> USE DEF OwnerInv, SyncInv
  <1>1. CASE Change
    <2>1. TypeOK' BY <1>1 DEF Change, TypeOK, Invalidate, Versions
    <2>2. Ownership' BY <1>1 DEF Change, Ownership, Invalidate, Versions
    <2> QED BY <1>1, <2>1, <2>2 DEF Change, ConnectedShowsThisSocket, NeverStranded
  <1>2. CASE LoopWakes
    <2>1. TypeOK' BY <1>2 DEF LoopWakes, TypeOK
    <2>2. Ownership' BY <1>2 DEF LoopWakes, Ownership, TypeOK
    <2> QED
      BY <1>2, <2>1, <2>2 DEF LoopWakes, TypeOK, ConnectedShowsThisSocket, NeverStranded
  <1>3. CASE LoopListsClients
    <2>1. TypeOK' BY <1>3 DEF LoopListsClients, Joined, Idle, SomeVersion, TypeOK
    <2>2. Ownership' BY <1>3 DEF LoopListsClients, Idle, Ownership, TypeOK
    <2> QED
      BY <1>3, <2>1, <2>2
      DEF LoopListsClients, Idle, TypeOK, ConnectedShowsThisSocket, NeverStranded
  <1>4. CASE LoopTakesSnapshot
    <2>1. TypeOK' BY <1>4 DEF LoopTakesSnapshot, SomeVersion, TypeOK
    <2>2. Ownership' BY <1>4 DEF LoopTakesSnapshot, Ownership, TypeOK
    <2> QED
      BY <1>4, <2>1, <2>2
      DEF LoopTakesSnapshot, TypeOK, Ownership, Versions, Nothing,
          ConnectedShowsThisSocket, NeverStranded
  <1> QED BY <1>1, <1>2, <1>3, <1>4

\* The loop sends, the handlers go on, and sockets are lost.
LEMMA ServerInv ==
  ASSUME OwnerInv, NEW s \in Sockets,
         LoopSends(s) \/ Handler(s) \/ AuthTimesOut(s) \/ Lose(s)
  PROVE  OwnerInv'
  <1> USE DEF OwnerInv, SyncInv
  <1>1. CASE LoopSends(s)
    <2>0. Update(loop.snap) \in Message /\ Send(s, Update(loop.snap))
      BY <1>1 DEF LoopSends, LoopTold, Update, Idle, TypeOK, Message, SomeVersion
    <2>1. TypeOK'
      BY <1>1, <2>0, Sends
      DEF LoopSends, LoopTold, Update, Idle, TypeOK, SomeVersion, Versions
    <2>2. Ownership' BY <1>1 DEF LoopSends, LoopTold, Update, Idle, Ownership, TypeOK
    <2> QED
      BY <1>1, <2>1, <2>2
      DEF LoopSends, LoopTold, Update, Idle, Ownership, TypeOK, Nothing, Versions,
          ConnectedShowsThisSocket, NeverStranded
  <1>2. CASE Greets(s)
    <2>0. Hello \in Message /\ Send(s, Hello)
      BY <1>2 DEF Greets, HandlerSends, Hello, TypeOK, Message, SomeVersion
    <2>1. TypeOK'
      BY <1>2, <2>0, Sends DEF Greets, HandlerSends, Hello, TypeOK, SomeVersion, Versions
    <2>2. Ownership' BY <1>2 DEF Greets, HandlerSends, Hello, Ownership, TypeOK
    <2> QED
      BY <1>2, <2>1, <2>2
      DEF Greets, HandlerSends, Hello, TypeOK, Nothing, Versions,
          ConnectedShowsThisSocket, NeverStranded
  <1>3. CASE Authenticates(s)
    <2>1. TypeOK' BY <1>3 DEF Authenticates, TypeOK, SomeVersion, Versions
    <2>2. Ownership' BY <1>3 DEF Authenticates, Ownership, TypeOK
    <2> QED
      BY <1>3, <2>1, <2>2
      DEF Authenticates, TypeOK, Nothing, Versions, ConnectedShowsThisSocket,
          NeverStranded
  <1>4. CASE Acknowledges(s)
    <2>0. Ack \in Message /\ Send(s, Ack)
      BY <1>4 DEF Acknowledges, HandlerSends, Ack, TypeOK, Message, SomeVersion
    <2>1. TypeOK'
      BY <1>4, <2>0, Sends
      DEF Acknowledges, HandlerSends, Ack, TypeOK, SomeVersion, Versions
    <2>2. Ownership' BY <1>4 DEF Acknowledges, HandlerSends, Ack, Ownership, TypeOK
    <2> QED
      BY <1>4, <2>1, <2>2
      DEF Acknowledges, HandlerSends, Ack, TypeOK, Nothing, Versions,
          ConnectedShowsThisSocket, NeverStranded
  <1>5. CASE TakesInitial(s)
    <2>1. TypeOK' BY <1>5 DEF TakesInitial, TypeOK, SomeVersion, Versions
    <2>2. Ownership' BY <1>5 DEF TakesInitial, Ownership, TypeOK
    <2> QED
      BY <1>5, <2>1, <2>2
      DEF TakesInitial, TypeOK, Nothing, Versions, ConnectedShowsThisSocket, NeverStranded
  <1>6. CASE SendsInitial(s)
    <2>0. First(initial[s]) \in Message /\ Send(s, First(initial[s]))
      BY <1>6 DEF SendsInitial, HandlerSends, First, TypeOK, Message, SomeVersion
    <2>1. TypeOK'
      BY <1>6, <2>0, Sends
      DEF SendsInitial, HandlerSends, First, TypeOK, SomeVersion, Versions
    <2>2. Ownership' BY <1>6 DEF SendsInitial, HandlerSends, First, Ownership, TypeOK
    <2> QED
      BY <1>6, <2>1, <2>2
      DEF SendsInitial, HandlerSends, First, TypeOK, Nothing, Versions,
          ConnectedShowsThisSocket, NeverStranded
  <1>7. CASE Executes(s)
    <2>1. TypeOK' BY <1>7 DEF Executes, Invalidate, TypeOK, SomeVersion, Versions
    <2>2. Ownership' BY <1>7 DEF Executes, Invalidate, Ownership, TypeOK
    <2> QED
      BY <1>7, <2>1, <2>2
      DEF Executes, Invalidate, TypeOK, Nothing, Versions, ConnectedShowsThisSocket,
          NeverStranded
  <1>8. CASE Executed(s)
    <2>1. TypeOK' BY <1>8 DEF Executed, Invalidate, TypeOK, SomeVersion, Versions
    <2>2. Ownership' BY <1>8 DEF Executed, Invalidate, Ownership, TypeOK
    <2> QED
      BY <1>8, <2>1, <2>2
      DEF Executed, Invalidate, TypeOK, Nothing, Versions, ConnectedShowsThisSocket,
          NeverStranded
  <1>9. CASE HandlerEnds(s)
    <2>1. TypeOK' BY <1>9 DEF HandlerEnds, TypeOK, SomeVersion, Versions
    <2>2. Ownership' BY <1>9 DEF HandlerEnds, Ownership, TypeOK
    <2> QED
      BY <1>9, <2>1, <2>2
      DEF HandlerEnds, TypeOK, Nothing, Versions, ConnectedShowsThisSocket, NeverStranded
  <1>10. CASE AuthTimesOut(s)
    <2>1. TypeOK' BY <1>10 DEF AuthTimesOut, TypeOK, SomeVersion, Versions
    <2>2. Ownership' BY <1>10 DEF AuthTimesOut, Ownership, TypeOK
    <2> QED
      BY <1>10, <2>1, <2>2
      DEF AuthTimesOut, TypeOK, Nothing, Versions, ConnectedShowsThisSocket, NeverStranded
  <1>11. CASE Lose(s)
    <2>1. TypeOK' BY <1>11 DEF Lose, TypeOK, SomeVersion, Versions
    <2>2. Ownership' BY <1>11 DEF Lose, Ownership, TypeOK
    <2> QED
      BY <1>11, <2>1, <2>2
      DEF Lose, TypeOK, Nothing, Versions, ConnectedShowsThisSocket, NeverStranded
  <1> QED
    BY <1>1, <1>2, <1>3, <1>4, <1>5, <1>6, <1>7, <1>8, <1>9, <1>10, <1>11 DEF Handler

\* closeSocket leaves only messages and links.
LEMMA Closes ==
  ASSUME TypeOK, NEW p \in Phones,
         NEW l \in [Sockets -> {"none", "open", "closed", "lost"}], CloseSocket(p, l)
  PROVE  /\ link' \in [Sockets -> {"none", "open", "closed", "lost"}]
         /\ down' \in [Sockets -> Seq(Message)]
  BY DEF TypeOK, CloseSocket, Closing, SomeSocket, None

\* A new socket is the next one, which nobody has had.
LEMMA ConnectsInv ==
  ASSUME OwnerInv, NEW p \in Phones, Connects(p) PROVE OwnerInv'
  <1> USE DEF OwnerInv, SyncInv
  <1> DEFINE s == opened + 1
  <1>0. s \in Sockets /\ s # None BY DEF Connects, Opens, TypeOK, Sockets, None
  <1>1. TypeOK'
    <2>1. [link EXCEPT ![s] = "open"] \in [Sockets -> {"none", "open", "closed", "lost"}]
      BY <1>0 DEF TypeOK
    <2>2. /\ link' \in [Sockets -> {"none", "open", "closed", "lost"}]
          /\ down' \in [Sockets -> Seq(Message)]
      BY <2>1, Closes DEF Connects, Opens
    <2>3. opened' \in 0..MaxSockets BY <1>0 DEF Connects, Opens, Sockets
    <2>4. /\ owner' \in [Sockets -> Phones \cup {None}] /\ attached' \subseteq Sockets
          /\ sock' \in [Phones -> SomeSocket] /\ at' = [at EXCEPT ![s] = "hello"]
          /\ UNCHANGED <<desktop, loop, initial, up, shown, source>>
      BY <1>0 DEF Connects, Opens, Detached, TypeOK, SomeSocket
    <2>5. /\ view' = [view EXCEPT ![p] = "connecting"]
          /\ heard' = [heard EXCEPT ![p] = Nothing]
          /\ retry' = [retry EXCEPT ![p] = FALSE]
          /\ authTimer' = [authTimer EXCEPT ![p] = FALSE]
      BY DEF Connects, Opens
    <2> QED BY <1>0, <2>2, <2>3, <2>4, <2>5 DEF TypeOK, SomeVersion
  <1>2. Ownership'
    <2>1. /\ opened' = s /\ owner' = [owner EXCEPT ![s] = p]
          /\ sock' = [sock EXCEPT ![p] = s]
          /\ attached' = (attached \ {sock[p]}) \cup {s} /\ at' = [at EXCEPT ![s] = "hello"]
          /\ authTimer' = [authTimer EXCEPT ![p] = FALSE]
          /\ view' = [view EXCEPT ![p] = "connecting"] /\ UNCHANGED loop
      BY DEF Connects, Opens, Detached
    <2>2. opened \in Nat /\ opened' \in Nat /\ opened' > opened BY <2>1 DEF TypeOK
    <2>3. \A q \in Phones : sock[q] # s
      BY <2>2 DEF Ownership, TypeOK, SomeSocket, Sockets, None
    <2>4. \A t \in attached : t # s BY <2>2 DEF Ownership, TypeOK, Sockets
    <2>5. \A t \in attached' : owner'[t] \in Phones /\ sock'[owner'[t]] = t
      BY <1>0, <2>1, <2>4 DEF Ownership, TypeOK
    <2>6. \A q \in Phones : sock'[q] # None => owner'[sock'[q]] = q
      BY <1>0, <2>1, <2>3 DEF Ownership, TypeOK, SomeSocket
    <2>7. \A q \in Phones : sock'[q] <= opened'
      BY <1>0, <2>1, <2>2 DEF Ownership, TypeOK, SomeSocket, Sockets, None
    <2>8. \A t \in attached' : t <= opened'
      BY <1>0, <2>1, <2>2 DEF Ownership, TypeOK, Sockets
    <2>9. \A t \in Sockets : t > opened' => at'[t] = "none"
      BY <1>0, <2>1, <2>2 DEF Ownership, TypeOK, Sockets
    <2>10. \A q \in Phones : authTimer'[q] => view'[q] # "connected"
      BY <2>1 DEF Ownership, TypeOK
    <2> QED BY <2>1, <2>5, <2>6, <2>7, <2>8, <2>9, <2>10 DEF Ownership
  <1>3. ConnectedShowsThisSocket' /\ NeverStranded'
    BY <1>0 DEF Connects, Opens, ConnectedShowsThisSocket, NeverStranded, TypeOK
  <1>4. \A t \in Sockets : initial'[t] # Nothing <=> at'[t] = "send"
    BY <1>0 DEF Connects, Opens, TypeOK, Ownership, Sockets
  <1>5. \A t \in attached' : sock'[owner'[t]] = t BY <1>2 DEF Ownership
  <1> QED BY <1>1, <1>2, <1>3, <1>4, <1>5 DEF Connects, Opens

\* What arrives, arrives over the socket its phone has.
LEMMA ReceivesInv ==
  ASSUME OwnerInv, NEW s \in Sockets, Receives(s) PROVE OwnerInv'
  <1> USE DEF OwnerInv, SyncInv
  <1>1. CASE ReceivesHello(s)
    <2>0. owner[s] \in Phones /\ sock[owner[s]] = s
      BY <1>1 DEF ReceivesHello, Arrives, Ownership
    <2>1. TypeOK' BY <1>1, <2>0 DEF ReceivesHello, Arrives, TypeOK
    <2>2. Ownership' BY <1>1, <2>0 DEF ReceivesHello, Arrives, Ownership, TypeOK, None
    <2>3. ConnectedShowsThisSocket' /\ NeverStranded'
      BY <1>1, <2>0
      DEF ReceivesHello, Arrives, TypeOK, Ownership, Sockets, None,
          ConnectedShowsThisSocket, NeverStranded
    <2>4. \A t \in attached' : sock'[owner'[t]] = t BY <2>2 DEF Ownership
    <2> QED BY <1>1, <2>1, <2>2, <2>3, <2>4 DEF ReceivesHello, Arrives
  <1>2. CASE ReceivesAck(s)
    <2>0. owner[s] \in Phones /\ sock[owner[s]] = s
      BY <1>2 DEF ReceivesAck, Arrives, Ownership
    <2>1. TypeOK' BY <1>2, <2>0 DEF ReceivesAck, Arrives, TypeOK
    <2>2. Ownership' BY <1>2, <2>0 DEF ReceivesAck, Arrives, Ownership, TypeOK, None
    <2>3. ConnectedShowsThisSocket' /\ NeverStranded'
      BY <1>2, <2>0
      DEF ReceivesAck, Arrives, TypeOK, Ownership, Sockets, None,
          ConnectedShowsThisSocket, NeverStranded
    <2>4. \A t \in attached' : sock'[owner'[t]] = t BY <2>2 DEF Ownership
    <2> QED BY <1>2, <2>1, <2>2, <2>3, <2>4 DEF ReceivesAck, Arrives
  <1>3. CASE ReceivesSnapshot(s)
    <2>0. owner[s] \in Phones /\ sock[owner[s]] = s
      BY <1>3 DEF ReceivesSnapshot, Arrives, SomeVersion, SomeSocket, Message, Ownership
    <2>a. /\ down[s] \in Seq(Message) /\ down[s] # <<>>
          /\ Head(down[s]).type \in {"first", "update"}
      BY <1>3 DEF ReceivesSnapshot, Arrives, TypeOK
    <2>b. Head(down[s]) \in Message /\ Tail(down[s]) \in Seq(Message) BY <2>a
    <2>c. Head(down[s]).version \in SomeVersion BY <2>b DEF Message
    <2>d. down' = [down EXCEPT ![s] = Tail(@)] BY <1>3 DEF ReceivesSnapshot
    <2>e. down' \in [Sockets -> Seq(Message)] BY <2>b, <2>d DEF TypeOK
    <2>1. TypeOK'
      BY <1>3, <2>0, <2>a, <2>c, <2>e DEF ReceivesSnapshot, Arrives, SomeSocket, TypeOK
    <2>2. Ownership'
      BY <1>3, <2>0
      DEF ReceivesSnapshot, Arrives, SomeVersion, SomeSocket, Message, Ownership, TypeOK,
          None
    <2>3. ConnectedShowsThisSocket' /\ NeverStranded'
      BY <1>3, <2>0
      DEF ReceivesSnapshot, Arrives, SomeVersion, SomeSocket, Message, TypeOK, Ownership,
          Sockets, None, ConnectedShowsThisSocket, NeverStranded
    <2>4. \A t \in attached' : sock'[owner'[t]] = t BY <2>2 DEF Ownership
    <2> QED
      BY <1>3, <2>1, <2>2, <2>3, <2>4
      DEF ReceivesSnapshot, Arrives, SomeVersion, SomeSocket, Message
  <1>4. CASE OnClose(s)
    <2>0. owner[s] \in Phones /\ sock[owner[s]] = s
      BY <1>4 DEF OnClose, SomeSocket, Ownership
    <2>1. TypeOK' BY <1>4, <2>0 DEF OnClose, SomeSocket, TypeOK
    <2>2. Ownership' BY <1>4, <2>0 DEF OnClose, SomeSocket, Ownership, TypeOK, None
    <2>3. ConnectedShowsThisSocket' /\ NeverStranded'
      BY <1>4, <2>0
      DEF OnClose, SomeSocket, TypeOK, Ownership, Sockets, None, ConnectedShowsThisSocket,
          NeverStranded
    <2>4. \A t \in attached' : sock'[owner'[t]] = t BY <2>2 DEF Ownership
    <2> QED BY <1>4, <2>1, <2>2, <2>3, <2>4 DEF OnClose, SomeSocket
  <1> QED BY <1>1, <1>2, <1>3, <1>4 DEF Receives

\* A connection is given up by its timer, or used.
LEMMA PhoneInv ==
  ASSUME OwnerInv, NEW p \in Phones, AuthTimerFires(p) \/ SendsCommand(p) PROVE OwnerInv'
  <1> USE DEF OwnerInv, SyncInv
  <1>1. CASE AuthTimerFires(p)
    <2>1. TypeOK'
      BY <1>1 DEF AuthTimerFires, CloseSocket, Closing, Detached, TypeOK, SomeSocket
    <2>2. Ownership' BY <1>1 DEF AuthTimerFires, Detached, Ownership, TypeOK, None
    <2>3. ConnectedShowsThisSocket' /\ NeverStranded'
      BY <1>1
      DEF AuthTimerFires, Ownership, ConnectedShowsThisSocket, NeverStranded, TypeOK
    <2>4. \A t \in attached' : sock'[owner'[t]] = t BY <2>2 DEF Ownership
    <2> QED BY <1>1, <2>1, <2>2, <2>3, <2>4 DEF AuthTimerFires
  <1>2. CASE SendsCommand(p)
    <2>1. up' \in [Sockets -> Seq({"auth", "command"})]
      BY <1>2 DEF SendsCommand, TypeOK, SomeSocket
    <2>a. TypeOK' BY <1>2, <2>1 DEF SendsCommand, TypeOK
    <2>2. Ownership' BY <1>2 DEF SendsCommand, Ownership
    <2> QED BY <1>2, <2>a, <2>2 DEF SendsCommand, ConnectedShowsThisSocket, NeverStranded
  <1> QED BY <1>1, <1>2

-----------------------------------------------------------------------------
(* Messages on their way. *)

\* A message at the end.
LEMMA Appended ==
  ASSUME NEW d \in Seq(Message), NEW m \in Message
  PROVE  /\ Len(Append(d, m)) = Len(d) + 1 /\ Len(d) \in Nat
         /\ \A i \in 1..Len(d) : Append(d, m)[i] = d[i]
         /\ Append(d, m)[Len(d) + 1] = m
  OBVIOUS

\* The head, and what is behind it.
LEMMA Tailed ==
  ASSUME NEW d \in Seq(Message), d # <<>>
  PROVE  /\ Len(Tail(d)) = Len(d) - 1 /\ Len(d) \in Nat \ {0}
         /\ \A i \in 1..Len(d) - 1 : Tail(d)[i] = d[i + 1]
         /\ Head(d) = d[1] /\ Head(d) \in Message /\ Tail(d) \in Seq(Message)
  OBVIOUS

\* A message that is not newer leaves nothing newer.
LEMMA AppendBehind ==
  ASSUME NEW d \in Seq(Message), NEW m \in Message, NEW v, Behind(d, v), m.version <= v
  PROVE  Behind(Append(d, m), v)
  BY Appended DEF Behind

\* Nor does the arrival of the head.
LEMMA TailBehind ==
  ASSUME NEW d \in Seq(Message), d # <<>>, NEW v, Behind(d, v)
  PROVE  Behind(Tail(d), v) /\ Head(d).version <= v
  BY Tailed DEF Behind

\* And the state only grows.
LEMMA BehindLater ==
  ASSUME NEW d \in Seq(Message), NEW v \in Int, NEW w \in Int, v <= w, Behind(d, v)
  PROVE  Behind(d, w)
  <1> SUFFICES ASSUME NEW i \in 1..Len(d) PROVE d[i].version <= w BY DEF Behind
  <1>1. d[i] \in Message OBVIOUS
  <1>2. d[i].version \in Int BY <1>1 DEF Message, SomeVersion, Versions, Nothing
  <1> QED BY <1>2 DEF Behind

\* A snapshot stays on its way when others follow.
LEMMA AppendCarries ==
  ASSUME NEW d \in Seq(Message), NEW m \in Message, NEW v,
         Carries(d, v) \/ (Snapshot(m) /\ m.version = v)
  PROVE  Carries(Append(d, m), v)
  <1>1. CASE Carries(d, v) BY <1>1, Appended DEF Carries
  <1>2. CASE Snapshot(m) /\ m.version = v
    <2>1. Len(d) + 1 \in 1..Len(Append(d, m)) BY Appended
    <2> QED BY <1>2, <2>1, Appended DEF Carries
  <1> QED BY <1>1, <1>2

\* Unless it is the head, it is still there when the head has arrived.
LEMMA TailCarries ==
  ASSUME NEW d \in Seq(Message), d # <<>>, NEW v, Carries(d, v)
  PROVE  Carries(Tail(d), v) \/ (Snapshot(Head(d)) /\ Head(d).version = v)
  <1>1. PICK i \in 1..Len(d) : Snapshot(d[i]) /\ d[i].version = v BY DEF Carries
  <1>2. CASE i = 1 BY <1>1, <1>2, Tailed
  <1>3. CASE i # 1
    <2>1. i - 1 \in 1..Len(Tail(d)) /\ Tail(d)[i - 1] = d[i] BY <1>3, Tailed
    <2> QED BY <1>1, <2>1 DEF Carries
  <1> QED BY <1>2, <1>3

\* The last snapshot is the one that was appended.
LEMMA AppendEndsFine ==
  ASSUME NEW d \in Seq(Message), NEW m \in Message, NEW t, NEW v, NEW now,
         Snapshot(m), Fine(m.type, m.version, now)
  PROVE  EndsFine(Append(d, m), t, v, now)
  <1>1. Len(d) + 1 \in 1..Len(Append(d, m)) BY Appended
  <1>2. \A j \in 1..Len(Append(d, m)) : ~(j > Len(d) + 1) BY Appended
  <1> QED BY <1>1, <1>2, Appended DEF EndsFine

\* The head, once arrived, is what is shown.
LEMMA TailEndsFine ==
  ASSUME NEW d \in Seq(Message), d # <<>>, NEW t, NEW v, NEW now, EndsFine(d, t, v, now)
  PROVE  /\ Snapshot(Head(d)) => EndsFine(Tail(d), Head(d).type, Head(d).version, now)
         /\ ~Snapshot(Head(d)) => EndsFine(Tail(d), t, v, now)
  <1> DEFINE Last(i) == /\ Snapshot(d[i]) /\ Fine(d[i].type, d[i].version, now)
                        /\ \A j \in 1..Len(d) : j > i => ~Snapshot(d[j])
  <1>0. \A j \in 1..Len(Tail(d)) : j + 1 \in 1..Len(d) /\ Tail(d)[j] = d[j + 1] BY Tailed
  <1>1. ASSUME NEW i \in 1..Len(d), Last(i), i # 1
        PROVE  \A x, y : EndsFine(Tail(d), x, y, now)
    <2>1. i - 1 \in 1..Len(Tail(d)) /\ Tail(d)[i - 1] = d[i] BY <1>1, Tailed
    <2>2. \A j \in 1..Len(Tail(d)) : j > i - 1 => ~Snapshot(Tail(d)[j]) BY <1>0, <1>1
    <2> QED BY <1>1, <2>1, <2>2 DEF EndsFine
  <1>2. CASE Last(1)
    <2>1. \A j \in 1..Len(Tail(d)) : ~Snapshot(Tail(d)[j]) BY <1>0, <1>2
    <2> QED BY <1>2, <2>1, Tailed DEF EndsFine
  <1>3. CASE (\A i \in 1..Len(d) : ~Snapshot(d[i])) /\ Fine(t, v, now)
    <2>1. \A j \in 1..Len(Tail(d)) : ~Snapshot(Tail(d)[j]) BY <1>0, <1>3
    <2>2. ~Snapshot(Head(d)) BY <1>3, Tailed
    <2> QED BY <1>3, <2>1, <2>2 DEF EndsFine
  <1> QED BY <1>1, <1>2, <1>3 DEF EndsFine

-----------------------------------------------------------------------------
(* No copy is ahead of the state. *)

\* Versions are numbers.
LEMMA Numbers ==
  ASSUME TypeOK
  PROVE  /\ version \in Int /\ loop.snap \in Int
         /\ \A s \in Sockets : initial[s] \in Int /\ down[s] \in Seq(Message)
         /\ \A p \in Phones : heard[p] \in Int
  BY DEF TypeOK, SomeVersion, Versions, Nothing

\* Nobody has a socket at first.
LEMMA InitRest == Init => RestInv
  <1> SUFFICES ASSUME Init PROVE RestInv OBVIOUS
  <1>1. OwnerInv BY InitInv
  <1>2. NoneAhead BY DEF Init, NoneAhead, Behind, Idle, Nothing, Sockets
  <1>3. Informed /\ SnapCurrent
    BY DEF Init, Informed, SnapCurrent, Idle, InformedAt, ToBeTold, Sockets
  <1> QED BY <1>1, <1>2, <1>3 DEF RestInv

(* The versions. *)

\* A send, of what is not newer.
LEMMA AheadOfSent ==
  ASSUME OwnerInv, NoneAhead, NEW s \in Sockets, NEW m \in Message, m.version <= version,
         Send(s, m), UNCHANGED version
  PROVE  \A t \in Sockets : Behind(down'[t], version')
  <1>1. Behind(Append(down[s], m), version)
    BY AppendBehind, Numbers DEF NoneAhead, OwnerInv, SyncInv
  <1> QED BY <1>1 DEF Send, NoneAhead, OwnerInv, SyncInv, TypeOK

\* A change of the state.
LEMMA AheadOfLater ==
  ASSUME OwnerInv, NoneAhead, NEW v \in Int, version <= v
  PROVE  /\ \A s \in Sockets : Behind(down[s], v) /\ initial[s] <= v
         /\ \A p \in Phones : heard[p] <= v
         /\ loop.snap <= v
  BY BehindLater, Numbers DEF NoneAhead, OwnerInv, SyncInv

\* The desktop and the loop.
LEMMA DesktopAhead ==
  ASSUME OwnerInv, NoneAhead, Change \/ LoopWakes \/ LoopListsClients \/ LoopTakesSnapshot
  PROVE  NoneAhead'
  <1> USE DEF OwnerInv, SyncInv
  <1>1. CASE Change
    <2>1. version' \in Int /\ version <= version' /\ UNCHANGED <<loop, initial, down, heard>>
      BY <1>1, Numbers DEF Change
    <2> QED BY <2>1, AheadOfLater DEF NoneAhead
  <1>2. CASE LoopWakes BY <1>2, Numbers DEF LoopWakes, NoneAhead, TypeOK
  <1>3. CASE LoopListsClients
    <2>1. loop'.snap <= version
      BY <1>3, Numbers DEF LoopListsClients, NoneAhead, TypeOK, Idle, Nothing, Versions
    <2> QED BY <1>3, <2>1 DEF LoopListsClients, NoneAhead
  <1>4. CASE LoopTakesSnapshot BY <1>4, Numbers DEF LoopTakesSnapshot, NoneAhead, TypeOK
  <1> QED BY <1>1, <1>2, <1>3, <1>4

\* The sends and the handlers.
LEMMA ServerAhead ==
  ASSUME OwnerInv, NoneAhead, NEW s \in Sockets,
         LoopSends(s) \/ Handler(s) \/ AuthTimesOut(s) \/ Lose(s)
  PROVE  NoneAhead'
  <1> USE DEF OwnerInv, SyncInv
  <1>0. /\ version \in Int /\ 0 <= version
        /\ Hello \in Message /\ Hello.version <= version
        /\ Ack \in Message /\ Ack.version <= version
        /\ Update(loop.snap) \in Message /\ Update(loop.snap).version <= version
        /\ First(initial[s]) \in Message /\ First(initial[s]).version <= version
    BY DEF NoneAhead, TypeOK, Message, SomeVersion, Versions, Nothing, Hello, Ack,
           Update, First
  <1>1. CASE LoopSends(s)
    <2>1. Send(s, Update(loop.snap)) /\ UNCHANGED <<version, initial, heard>>
      BY <1>1 DEF LoopSends
    <2>2. loop'.snap <= version
      BY <1>0, <1>1 DEF LoopSends, LoopTold, Idle, Nothing, NoneAhead, TypeOK
    <2> QED BY <1>0, <2>1, <2>2, AheadOfSent DEF NoneAhead
  <1>2. CASE Greets(s)
    <2>1. Send(s, Hello) /\ UNCHANGED <<version, initial, heard, loop>>
      BY <1>2 DEF Greets, HandlerSends
    <2> QED BY <1>0, <2>1, AheadOfSent DEF NoneAhead
  <1>3. CASE Authenticates(s) BY <1>3 DEF Authenticates, NoneAhead
  <1>4. CASE Acknowledges(s)
    <2>1. Send(s, Ack) /\ UNCHANGED <<version, initial, heard, loop>>
      BY <1>4 DEF Acknowledges, HandlerSends
    <2> QED BY <1>0, <2>1, AheadOfSent DEF NoneAhead
  <1>5. CASE TakesInitial(s) BY <1>0, <1>5 DEF TakesInitial, NoneAhead, TypeOK
  <1>6. CASE SendsInitial(s)
    <2>1. Send(s, First(initial[s])) /\ UNCHANGED <<version, heard, loop>>
      BY <1>6 DEF SendsInitial, HandlerSends
    <2>2. \A t \in Sockets : initial'[t] <= version
      BY <1>0, <1>6 DEF SendsInitial, NoneAhead, TypeOK, Nothing
    <2> QED BY <1>0, <2>1, <2>2, AheadOfSent DEF NoneAhead
  <1>7. CASE Executes(s)
    <2>1. version' \in Int /\ version <= version' /\ UNCHANGED <<loop, initial, down, heard>>
      BY <1>0, <1>7 DEF Executes
    <2> QED BY <2>1, AheadOfLater DEF NoneAhead
  <1>8. CASE Executed(s) BY <1>8 DEF Executed, NoneAhead
  <1>9. CASE HandlerEnds(s) BY <1>0, <1>9 DEF HandlerEnds, NoneAhead, TypeOK, Nothing
  <1>10. CASE AuthTimesOut(s) BY <1>10 DEF AuthTimesOut, NoneAhead
  <1>11. CASE Lose(s) BY <1>11 DEF Lose, NoneAhead
  <1> QED
    BY <1>1, <1>2, <1>3, <1>4, <1>5, <1>6, <1>7, <1>8, <1>9, <1>10, <1>11 DEF Handler

\* The phones.
LEMMA ClientAhead ==
  ASSUME OwnerInv, NoneAhead,
         \/ \E p \in Phones : Connects(p) \/ AuthTimerFires(p) \/ SendsCommand(p)
         \/ \E s \in Sockets : Receives(s)
  PROVE  NoneAhead'
  <1> USE DEF OwnerInv, SyncInv
  <1>0. Behind(<<>>, version) BY DEF Behind
  <1>1. ASSUME NEW p \in Phones, Connects(p) PROVE NoneAhead'
    <2>1. UNCHANGED <<version, loop, initial>> /\ heard' = [heard EXCEPT ![p] = Nothing]
      BY <1>1 DEF Connects, Opens
    <2>2. down' = [down EXCEPT ![sock[p]] = <<>>] \/ down' = down
      BY <1>1 DEF Connects, Opens, CloseSocket
    <2>3. \A q \in Phones : heard'[q] <= version
      BY <2>1 DEF NoneAhead, TypeOK, Nothing, Versions
    <2>4. \A t \in Sockets : Behind(down'[t], version) BY <1>0, <2>2 DEF NoneAhead, TypeOK
    <2> QED BY <2>1, <2>3, <2>4 DEF NoneAhead
  <1>2. ASSUME NEW p \in Phones, AuthTimerFires(p) PROVE NoneAhead'
    <2>1. UNCHANGED <<version, loop, initial, heard>> BY <1>2 DEF AuthTimerFires
    <2>2. down' = [down EXCEPT ![sock[p]] = <<>>] \/ down' = down
      BY <1>2 DEF AuthTimerFires, CloseSocket
    <2>3. \A t \in Sockets : Behind(down'[t], version) BY <1>0, <2>2 DEF NoneAhead, TypeOK
    <2> QED BY <2>1, <2>3 DEF NoneAhead
  <1>3. ASSUME NEW p \in Phones, SendsCommand(p) PROVE NoneAhead'
    BY <1>3 DEF SendsCommand, NoneAhead
  <1>4. ASSUME NEW s \in Sockets, ReceivesHello(s) \/ ReceivesAck(s) PROVE NoneAhead'
    <2>1. down[s] # <<>> /\ UNCHANGED <<version, loop, initial, heard>>
      BY <1>4 DEF ReceivesHello, ReceivesAck, Arrives
    <2>2. down' = [down EXCEPT ![s] = Tail(@)] BY <1>4 DEF ReceivesHello, ReceivesAck
    <2>3. Behind(Tail(down[s]), version) BY <2>1, TailBehind, Numbers DEF NoneAhead
    <2>4. \A t \in Sockets : Behind(down'[t], version) BY <2>2, <2>3 DEF NoneAhead, TypeOK
    <2> QED BY <2>1, <2>4 DEF NoneAhead
  <1>5. ASSUME NEW s \in Sockets, ReceivesSnapshot(s) PROVE NoneAhead'
    <2>1. /\ down[s] # <<>> /\ UNCHANGED <<version, loop, initial>>
          /\ heard' = [heard EXCEPT ![owner[s]] =
               IF Head(down[s]).version > @ THEN Head(down[s]).version ELSE @]
      BY <1>5 DEF ReceivesSnapshot, Arrives
    <2>2. down' = [down EXCEPT ![s] = Tail(@)] BY <1>5 DEF ReceivesSnapshot
    <2>3. Behind(Tail(down[s]), version) /\ Head(down[s]).version <= version
      BY <2>1, TailBehind, Numbers DEF NoneAhead
    <2>4. \A t \in Sockets : Behind(down'[t], version) BY <2>2, <2>3 DEF NoneAhead, TypeOK
    <2>5. \A p \in Phones : heard'[p] <= version BY <2>1, <2>3 DEF NoneAhead, TypeOK
    <2> QED BY <2>1, <2>4, <2>5 DEF NoneAhead
  <1>6. ASSUME NEW s \in Sockets, OnClose(s) PROVE NoneAhead'
    <2>1. UNCHANGED <<version, loop, initial, heard>> BY <1>6 DEF OnClose
    <2>2. down' = [down EXCEPT ![s] = <<>>] BY <1>6 DEF OnClose
    <2>3. \A t \in Sockets : Behind(down'[t], version) BY <1>0, <2>2 DEF NoneAhead, TypeOK
    <2> QED BY <2>1, <2>3 DEF NoneAhead
  <1> QED BY <1>1, <1>2, <1>3, <1>4, <1>5, <1>6 DEF Receives

-----------------------------------------------------------------------------
(* Every phone is informed. *)

\* Nothing of what the phone's connection rests on is touched.
LEMMA Undisturbed ==
  ASSUME NEW p \in Phones, NEW s \in Sockets, InformedAt(p, s),
         link'[s] = "open" => link[s] = "open", at'[s] = at[s], initial'[s] = initial[s],
         down'[s] = down[s], version' = version,
         heard'[p] = heard[p], shown'[p] = shown[p], source'[p] = source[p],
         ToBeTold(s) => ToBeTold(s)'
  PROVE  InformedAt(p, s)'
  BY DEF InformedAt, Had, WillShow

\* Whoever invalidates has everybody told.
LEMMA Invalidated ==
  ASSUME NEW p \in Phones, NEW s \in Sockets, pending' = TRUE PROVE InformedAt(p, s)'
  BY DEF InformedAt, ToBeTold

\* The handshake is not over, or the socket is gone.
LEMMA NotServing ==
  ASSUME NEW p \in Phones, NEW s \in Sockets,
         at'[s] \notin {"send", "serving", "executed"} \/ link'[s] # "open"
  PROVE  InformedAt(p, s)'
  BY DEF InformedAt

\* A change invalidates; a round that begins lists every socket that is served.
LEMMA DesktopInformed ==
  ASSUME RestInv, Change \/ LoopWakes \/ LoopListsClients \/ LoopTakesSnapshot
  PROVE  Informed' /\ SnapCurrent'
  <1> USE DEF RestInv, OwnerInv, SyncInv
  <1>1. CASE Change BY <1>1, Invalidated DEF Change, Invalidate, Informed, SnapCurrent
  <1>2. CASE LoopWakes
    <2>1. loop'.at = "delaying" BY <1>2 DEF LoopWakes, TypeOK
    <2>2. \A p \in Phones, s \in Sockets : ToBeTold(s)' BY <2>1 DEF ToBeTold
    <2> QED BY <2>1, <2>2 DEF Informed, InformedAt, SnapCurrent
  <1>3. CASE LoopListsClients
    <2>1. \A s \in Sockets : at'[s] \in {"send", "serving", "executed"} => ToBeTold(s)'
      BY <1>3 DEF LoopListsClients, Joined, ToBeTold, TypeOK
    <2>2. loop'.at # "sending" BY <1>3 DEF LoopListsClients, Idle, TypeOK
    <2> QED BY <2>1, <2>2 DEF Informed, InformedAt, SnapCurrent
  <1>4. CASE LoopTakesSnapshot
    <2>1. \A s \in Sockets : ToBeTold(s) => ToBeTold(s)'
      BY <1>4 DEF LoopTakesSnapshot, ToBeTold, TypeOK
    <2>2. UNCHANGED <<handlers, wires, client, version>> BY <1>4 DEF LoopTakesSnapshot
    <2>3. Informed' BY <2>1, <2>2, Undisturbed DEF Informed
    <2> QED BY <1>4, <2>3 DEF LoopTakesSnapshot, SnapCurrent, TypeOK
  <1> QED BY <1>1, <1>2, <1>3, <1>4

\* A socket is told the present state, or another round follows.
LEMMA LoopSendsInformed ==
  ASSUME RestInv, NEW t \in Sockets, LoopSends(t)
  PROVE  Informed' /\ SnapCurrent'
  <1> USE DEF RestInv, OwnerInv, SyncInv
  <1>1. /\ Send(t, Update(loop.snap)) /\ LoopTold(t) /\ loop.at = "sending"
        /\ UNCHANGED <<desktop, handlers, opened, owner, link, up, client>>
    BY DEF LoopSends
  <1>2. SnapCurrent' BY <1>1 DEF LoopTold, Idle, SnapCurrent, TypeOK
  <1>3. ASSUME NEW p \in Phones, NEW s \in Sockets, sock'[p] = s PROVE InformedAt(p, s)'
    <2>0. sock[p] = s /\ InformedAt(p, s) BY <1>1, <1>3 DEF Informed
    <2>1. CASE s # t
      <3>1. ToBeTold(s) => ToBeTold(s)' BY <1>1, <2>1 DEF LoopTold, ToBeTold, TypeOK
      <3>2. down'[s] = down[s] BY <1>1, <2>1 DEF Send, TypeOK
      <3> QED BY <1>1, <2>0, <3>1, <3>2, Undisturbed
    <2>2. CASE s = t /\ pending BY <1>1, <2>2, Invalidated
    <2>3. CASE s = t /\ link[s] # "open" BY <1>1, <2>3, NotServing
    <2>4. CASE s = t /\ ~pending /\ link[s] = "open"
      <3>1. loop.snap = version BY <1>1, <2>4 DEF SnapCurrent
      <3>2. /\ Update(version) \in Message /\ Snapshot(Update(version))
            /\ Update(version).version = version
        BY DEF TypeOK, Message, Update, SomeVersion, Snapshot
      <3>3. down'[s] = Append(down[s], Update(version)) /\ down[s] \in Seq(Message)
        BY <1>1, <2>4, <3>1 DEF Send, TypeOK
      <3>4. Carries(down'[s], version') BY <1>1, <3>2, <3>3, AppendCarries
      <3>5. EndsFine(down'[s], source'[p].type, shown'[p], version')
        BY <1>1, <3>2, <3>3, AppendEndsFine DEF Fine
      <3> QED BY <3>4, <3>5 DEF InformedAt, Had, WillShow
    <2> QED BY <2>1, <2>2, <2>3, <2>4
  <1> QED BY <1>2, <1>3 DEF Informed

\* A socket that joins is covered by its first snapshot, or by a round that has yet
\* to come to it.
LEMMA HandlerInformed ==
  ASSUME RestInv, NEW t \in Sockets, Handler(t) \/ AuthTimesOut(t) \/ Lose(t)
  PROVE  Informed' /\ SnapCurrent'
  <1> USE DEF RestInv, OwnerInv, SyncInv
  <1>1. CASE Executes(t)
    BY <1>1, Invalidated DEF Executes, Invalidate, Informed, SnapCurrent
  <1>2. CASE Executed(t)
    BY <1>2, Invalidated DEF Executed, Invalidate, Informed, SnapCurrent
  <1>3. CASE SendsInitial(t)
    <2>1. /\ at[t] = "send" /\ at' = [at EXCEPT ![t] = "serving"]
          /\ initial' = [initial EXCEPT ![t] = Nothing] /\ Send(t, First(initial[t]))
          /\ UNCHANGED <<desktop, loop, opened, owner, link, up, client>>
      BY <1>3 DEF SendsInitial, HandlerSends
    <2>2. ASSUME NEW p \in Phones, NEW s \in Sockets, sock'[p] = s PROVE InformedAt(p, s)'
      <3>0. sock[p] = s /\ InformedAt(p, s) BY <2>1, <2>2 DEF Informed
      <3>1. ToBeTold(s) => ToBeTold(s)' BY <2>1 DEF ToBeTold
      <3>2. CASE s # t
        <4>1. down'[s] = down[s] /\ at'[s] = at[s] /\ initial'[s] = initial[s]
          BY <2>1, <3>2 DEF Send, TypeOK
        <4> QED BY <2>1, <3>0, <3>1, <4>1, Undisturbed
      <3>3. CASE s = t /\ link[s] = "open"
        <4>1. /\ First(initial[s]) \in Message /\ Snapshot(First(initial[s]))
              /\ First(initial[s]).version = initial[s] /\ First(initial[s]).type = "first"
          BY DEF TypeOK, Message, First, Snapshot
        <4>2. down'[s] = Append(down[s], First(initial[s])) /\ down[s] \in Seq(Message)
          BY <2>1, <3>3 DEF Send, TypeOK
        <4>3. EndsFine(down'[s], source'[p].type, shown'[p], version')
          BY <4>1, <4>2, AppendEndsFine DEF Fine
        <4>4. initial[s] = version \/ Carries(down[s], version) => Carries(down'[s], version')
          BY <2>1, <4>1, <4>2, AppendCarries
        <4>5. ToBeTold(s) \/ initial[s] = version \/ Had(p, s)
          BY <2>1, <3>0, <3>3 DEF InformedAt
        <4>6. ToBeTold(s)' \/ Had(p, s)' BY <2>1, <3>1, <4>4, <4>5 DEF Had
        <4>7. at'[s] = "serving" BY <2>1, <3>3 DEF TypeOK
        <4> QED BY <4>3, <4>6, <4>7 DEF InformedAt, WillShow
      <3>4. CASE s = t /\ link[s] # "open" BY <2>1, <3>4, NotServing
      <3> QED BY <3>2, <3>3, <3>4
    <2> QED BY <2>1, <2>2 DEF Informed, SnapCurrent
  <1>4. CASE TakesInitial(t)
    <2>1. /\ at' = [at EXCEPT ![t] = "send"] /\ initial' = [initial EXCEPT ![t] = version]
          /\ UNCHANGED <<desktop, loop, wires, client>>
      BY <1>4 DEF TakesInitial
    <2>2. ASSUME NEW p \in Phones, NEW s \in Sockets, sock'[p] = s PROVE InformedAt(p, s)'
      <3>1. CASE s = t
        <4>1. initial'[s] = version' /\ at'[s] = "send" BY <2>1, <3>1 DEF TypeOK
        <4> QED BY <4>1 DEF InformedAt
      <3>2. CASE s # t
        <4>0. sock[p] = s /\ InformedAt(p, s) BY <2>1, <2>2 DEF Informed
        <4>1. at'[s] = at[s] /\ initial'[s] = initial[s] BY <2>1, <3>2 DEF TypeOK
        <4>2. ToBeTold(s) => ToBeTold(s)' BY <2>1 DEF ToBeTold
        <4> QED BY <2>1, <4>0, <4>1, <4>2, Undisturbed
      <3> QED BY <3>1, <3>2
    <2> QED BY <2>1, <2>2 DEF Informed, SnapCurrent
  <1>5. CASE \/ Greets(t) \/ Authenticates(t) \/ Acknowledges(t)
             \/ HandlerEnds(t) \/ AuthTimesOut(t) \/ Lose(t)
    <2>1. /\ UNCHANGED <<desktop, loop, client>>
          /\ at'[t] \in {"auth", "ack", "take", "gone"} \/ link'[t] = "lost"
          /\ \A s \in Sockets : s # t =>
               /\ at'[s] = at[s] /\ initial'[s] = initial[s]
               /\ link'[s] = link[s] /\ down'[s] = down[s]
      BY <1>5
      DEF Greets, Authenticates, Acknowledges, HandlerEnds, AuthTimesOut, Lose,
          HandlerSends, Send, TypeOK
    <2>2. ASSUME NEW p \in Phones, NEW s \in Sockets, sock'[p] = s PROVE InformedAt(p, s)'
      <3>1. CASE s = t BY <2>1, <3>1, NotServing
      <3>2. CASE s # t
        <4>0. sock[p] = s /\ InformedAt(p, s) BY <2>1, <2>2 DEF Informed
        <4>2. ToBeTold(s) => ToBeTold(s)' BY <2>1 DEF ToBeTold
        <4> QED BY <2>1, <3>2, <4>0, <4>2, Undisturbed
      <3> QED BY <3>1, <3>2
    <2> QED BY <2>1, <2>2 DEF Informed, SnapCurrent
  <1> QED BY <1>1, <1>2, <1>3, <1>4, <1>5 DEF Handler

\* Phones have sockets of their own.
LEMMA OtherSocket ==
  ASSUME OwnerInv, NEW p \in Phones, NEW q \in Phones, p # q, NEW s \in Sockets, sock[p] = s
  PROVE  s # sock[q] /\ s # opened + 1
  <1>1. s # sock[q] BY DEF OwnerInv, Ownership, Sockets, None
  <1>2. s <= opened /\ s \in Int /\ opened \in Int
    BY DEF OwnerInv, SyncInv, TypeOK, Ownership, Sockets
  <1> QED BY <1>1, <1>2

\* A phone that opens or closes a socket leaves those of the others alone.
LEMMA PhoneInformed ==
  ASSUME RestInv, NEW q \in Phones, Connects(q) \/ AuthTimerFires(q) \/ SendsCommand(q)
  PROVE  Informed' /\ SnapCurrent'
  <1> USE DEF RestInv
  <1>0. TypeOK BY DEF OwnerInv, SyncInv
  <1>1. UNCHANGED <<desktop, loop, initial>>
    BY DEF Connects, Opens, AuthTimerFires, SendsCommand
  <1>2. \A s \in Sockets : ToBeTold(s) => ToBeTold(s)' BY <1>1 DEF ToBeTold
  <1>3. ASSUME Connects(q), NEW p \in Phones, NEW s \in Sockets, sock'[p] = s
        PROVE  InformedAt(p, s)'
    <2>1. CASE p = q
      <3>1. s = opened + 1 BY <1>0, <1>3, <2>1 DEF Connects, Opens, TypeOK
      <3>2. at'[s] = "hello" BY <1>0, <1>3, <3>1 DEF Connects, Opens, TypeOK
      <3> QED BY <3>2, NotServing
    <2>2. CASE p # q
      <3>1. sock[p] = s BY <1>0, <1>3, <2>2 DEF Connects, Opens, TypeOK
      <3>2. s # sock[q] /\ s # opened + 1 BY <2>2, <3>1, OtherSocket
      <3>3. /\ at'[s] = at[s] /\ heard'[p] = heard[p] /\ UNCHANGED <<shown, source>>
        BY <1>0, <1>3, <2>2, <3>2 DEF Connects, Opens, TypeOK
      <3>4. down'[s] = down[s] /\ link'[s] = link[s]
        BY <1>0, <1>3, <3>2 DEF Connects, Opens, CloseSocket, TypeOK
      <3> QED BY <1>1, <1>2, <3>1, <3>3, <3>4, Undisturbed DEF Informed
    <2> QED BY <2>1, <2>2
  <1>4. ASSUME AuthTimerFires(q), NEW p \in Phones, NEW s \in Sockets, sock'[p] = s
        PROVE  InformedAt(p, s)'
    <2>1. p # q BY <1>0, <1>4 DEF AuthTimerFires, TypeOK, Sockets, None
    <2>2. sock[p] = s BY <1>0, <1>4, <2>1 DEF AuthTimerFires, TypeOK
    <2>3. s # sock[q] BY <2>1, <2>2, OtherSocket
    <2>4. UNCHANGED <<at, heard, shown, source>> BY <1>4 DEF AuthTimerFires
    <2>5. down'[s] = down[s] /\ link'[s] = link[s]
      BY <1>0, <1>4, <2>3 DEF AuthTimerFires, CloseSocket, TypeOK
    <2> QED BY <1>1, <1>2, <2>2, <2>4, <2>5, Undisturbed DEF Informed
  <1>5. ASSUME SendsCommand(q), NEW p \in Phones, NEW s \in Sockets, sock'[p] = s
        PROVE  InformedAt(p, s)'
    BY <1>1, <1>2, <1>5, Undisturbed DEF SendsCommand, Informed
  <1>6. SnapCurrent' BY <1>1 DEF SnapCurrent
  <1> QED BY <1>3, <1>4, <1>5, <1>6 DEF Informed

\* What has arrived is heard, and shown.
LEMMA ReceivesInformed ==
  ASSUME RestInv, NEW t \in Sockets, Receives(t)
  PROVE  Informed' /\ SnapCurrent'
  <1> USE DEF RestInv
  <1>0. TypeOK BY DEF OwnerInv, SyncInv
  <1>1. UNCHANGED <<desktop, loop, handlers, opened, owner, link>> /\ t \in attached
    BY DEF Receives, ReceivesHello, ReceivesAck, ReceivesSnapshot, OnClose, Arrives
  <1>2. \A s \in Sockets : ToBeTold(s) => ToBeTold(s)' BY <1>1 DEF ToBeTold
  <1>3. owner[t] \in Phones /\ sock[owner[t]] = t BY <1>1 DEF OwnerInv, Ownership
  <1>4. ASSUME NEW p \in Phones, NEW s \in Sockets, sock'[p] = s, s # t
        PROVE  InformedAt(p, s)'
    <2>0. sock[p] = s
      BY <1>0, <1>4
      DEF Receives, ReceivesHello, ReceivesAck, ReceivesSnapshot, OnClose, TypeOK,
          Sockets, None
    <2>1. p # owner[t] BY <1>3, <1>4, <2>0
    <2>2. /\ down'[s] = down[s]
          /\ heard'[p] = heard[p] /\ shown'[p] = shown[p] /\ source'[p] = source[p]
      BY <1>0, <1>4, <2>1
      DEF Receives, ReceivesHello, ReceivesAck, ReceivesSnapshot, OnClose, TypeOK
    <2> QED BY <1>1, <1>2, <2>0, <2>2, Undisturbed DEF Informed
  <1>5. ASSUME NEW p \in Phones, sock'[p] = t, ReceivesHello(t) \/ ReceivesAck(t)
        PROVE  InformedAt(p, t)'
    <2>1. /\ down[t] # <<>> /\ down' = [down EXCEPT ![t] = Tail(@)]
          /\ ~Snapshot(Head(down[t])) /\ UNCHANGED <<sock, heard, shown, source>>
      BY <1>5 DEF ReceivesHello, ReceivesAck, Arrives, Snapshot
    <2>2. down[t] \in Seq(Message) /\ down'[t] = Tail(down[t]) BY <1>0, <2>1 DEF TypeOK
    <2>3. Had(p, t) => Had(p, t)' BY <1>1, <2>1, <2>2, TailCarries DEF Had
    <2>4. WillShow(p, t) => WillShow(p, t)' BY <1>1, <2>1, <2>2, TailEndsFine DEF WillShow
    <2>5. InformedAt(p, t) BY <1>5, <2>1 DEF Informed
    <2> QED BY <1>1, <1>2, <2>3, <2>4, <2>5 DEF InformedAt
  <1>6. ASSUME NEW p \in Phones, sock'[p] = t, ReceivesSnapshot(t)
        PROVE  InformedAt(p, t)'
    <2> DEFINE m == Head(down[t])
    <2>1. /\ down[t] # <<>> /\ down' = [down EXCEPT ![t] = Tail(@)] /\ sock' = sock
          /\ Snapshot(m)
      BY <1>6 DEF ReceivesSnapshot, Arrives, Snapshot
    <2>2. down[t] \in Seq(Message) /\ down'[t] = Tail(down[t]) BY <1>0, <2>1 DEF TypeOK
    <2>3. p = owner[t] BY <1>0, <1>3, <1>6, <2>1 DEF OwnerInv, Ownership, Sockets, None
    <2>4. /\ shown'[p] = m.version /\ source'[p].type = m.type
          /\ heard'[p] = IF m.version > heard[p] THEN m.version ELSE heard[p]
      BY <1>0, <1>6, <2>3 DEF ReceivesSnapshot, TypeOK
    <2>5. /\ m.version \in Int /\ m.version <= version /\ version \in Int
          /\ heard[p] \in Int /\ heard[p] <= version
      <3>1. Head(down[t]) \in Message /\ Head(down[t]).version <= version
        BY <2>1, <2>2, TailBehind, Tailed DEF NoneAhead
      <3>2. \A k \in Message : k.version \in Int
        BY DEF Message, SomeVersion, Versions, Nothing
      <3> QED BY <1>0, <3>1, <3>2, Numbers DEF NoneAhead
    <2>6. Had(p, t) => Had(p, t)'
      <3>1. CASE heard[p] = version BY <1>1, <2>4, <2>5, <3>1 DEF Had
      <3>2. CASE m.version = version BY <1>1, <2>4, <2>5, <3>2 DEF Had
      <3>3. CASE Carries(Tail(down[t]), version) BY <1>1, <2>2, <3>3 DEF Had
      <3> QED BY <2>1, <2>2, <3>1, <3>2, <3>3, TailCarries DEF Had
    <2>7. WillShow(p, t) => WillShow(p, t)'
      BY <1>1, <2>1, <2>2, <2>4, TailEndsFine DEF WillShow
    <2>8. InformedAt(p, t) BY <1>6, <2>1 DEF Informed
    <2> QED BY <1>1, <1>2, <2>6, <2>7, <2>8 DEF InformedAt
  <1>7. ASSUME NEW p \in Phones, OnClose(t) PROVE sock'[p] # t
    BY <1>0, <1>3, <1>7 DEF OnClose, TypeOK, OwnerInv, Ownership, Sockets, None
  <1>8. SnapCurrent' BY <1>1 DEF SnapCurrent
  <1> QED BY <1>4, <1>5, <1>6, <1>7, <1>8 DEF Informed, Receives

\* The invariant of the broadcast: every phone with a served socket is informed.
THEOREM Invariance == Spec => []RestInv
  <1>1. ASSUME RestInv, [Next]_vars PROVE RestInv'
    <2>1. CASE Next
      <3>1. OwnerInv'
        BY <1>1, <2>1, DesktopInv, ServerInv, ConnectsInv, ReceivesInv, PhoneInv
        DEF RestInv, Next, Loop, TimerFires, Returns
      <3>2. NoneAhead'
        BY <1>1, <2>1, DesktopAhead, ServerAhead, ClientAhead
        DEF RestInv, Next, Loop, TimerFires, Returns
      <3>3. Informed' /\ SnapCurrent'
        BY <1>1, <2>1, DesktopInformed, LoopSendsInformed, HandlerInformed, PhoneInformed,
           ReceivesInformed
        DEF Next, Loop, TimerFires, Returns
      <3> QED BY <3>1, <3>2, <3>3 DEF RestInv
    <2>2. CASE UNCHANGED vars
      BY <1>1, <2>2
      DEF vars, RestInv, OwnerInv, SyncInv, TypeOK, Ownership, ConnectedShowsThisSocket,
          NeverStranded, NoneAhead, Informed, InformedAt, ToBeTold, Had, WillShow,
          SnapCurrent
    <2> QED BY <1>1, <2>1, <2>2
  <1> QED BY <1>1, InitRest, PTL DEF Spec

\* Only the socket a phone has now can reach its handlers, only what came over it is
\* shown as "Connected", and no phone is stranded.
THEOREM Synced == Spec => []SyncInv
  <1>1. RestInv => SyncInv BY DEF RestInv, OwnerInv
  <1> QED BY <1>1, Invariance, PTL

\* At rest, a phone has had the present state and shows it, unless the snapshot of the
\* handshake came after a newer broadcast.
THEOREM AtRestCurrent == Spec => []RestIsCurrent
  <1>1. ASSUME RestInv, NEW p \in Phones, sock[p] # None, AtRest(sock[p])
        PROVE  heard[p] = version /\ (shown[p] = version \/ source[p].type = "first")
    <2>1. PICK s \in Sockets : sock[p] = s
      BY <1>1 DEF RestInv, OwnerInv, SyncInv, TypeOK, SomeSocket
    <2>2. InformedAt(p, s) BY <1>1, <2>1 DEF RestInv, Informed
    <2>3. at[s] = "serving" /\ link[s] = "open" /\ down[s] = <<>> /\ ~ToBeTold(s)
      BY <1>1, <2>1 DEF AtRest, ToBeTold
    <2>4. Had(p, s) /\ WillShow(p, s) BY <2>2, <2>3 DEF InformedAt
    <2> QED BY <2>3, <2>4 DEF Had, WillShow, Carries, EndsFine, Fine
  <1>2. RestInv => RestIsCurrent BY <1>1 DEF RestIsCurrent
  <1> QED BY <1>2, Invariance, PTL
=============================================================================
