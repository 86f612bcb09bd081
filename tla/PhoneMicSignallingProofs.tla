---------------------- MODULE PhoneMicSignallingProofs ----------------------
(***************************************************************************)
(* For any number of presses of Enable, peers, sockets and messages on     *)
(* their way: no peer is left over and no session's route is requested     *)
(* that was not asked for after its own offer, and a stop is final on the  *)
(* phone.                                                                  *)
(*                                                                         *)
(* The second asks what the queues hold.  The phone sends its offers in    *)
(* the order of their peers, and a request for the route says how many     *)
(* peers there were: a request that is older than an offer is ahead of it, *)
(* in the same queue or on an earlier socket (QueueInv).  So a request     *)
(* that is older than a session either finds no such session, or comes     *)
(* over an earlier socket than its offer did.                              *)
(***************************************************************************)
EXTENDS PhoneMicSignalling, Integers, TLAPS

USE SignallingAssumption
USE DEF user, peers, net, desk, phoneSide

-----------------------------------------------------------------------------
(* The inductive invariant. *)

\* The call of start(), the stream and the flags of the user's wishes.
UserOK ==
    /\ wants \in BOOLEAN /\ timer \in BOOLEAN /\ silent \in BOOLEAN
    /\ start \in [Starts -> {"none", "info", "asking", "done"}]
    /\ started \in 0..MaxStarts
    /\ stream \in Starts \cup {None} /\ live \subseteq Starts /\ orphaned \subseteq Starts

\* The negotiation in flight is that of the newest peer, and every peer but the
\* present one is closed.
PeersOK ==
    /\ attached \in BOOLEAN /\ made \in 0..MaxPeers
    /\ phase \in {"idle", "requesting", "negotiating", "connected", "failed", "stopped"}
    /\ peer \in Peers \cup {None}
    /\ pc \in [Peers -> {"none", "new", "connected", "lost", "closed"}]
    /\ offered \subseteq Peers /\ remote \in [Peers -> Peers \cup {None}]
    /\ neg \in [at : {"idle", "offering", "gathering"}, pc : Peers \cup {None}]
    /\ applying \in [peer : Peers \cup {None}, session : Peers \cup {None}]
    /\ neg.at # "idle" => neg.pc = made /\ made # None
    /\ \A p \in Peers : pc[p] \in {"new", "connected", "lost"} => p = peer

\* A lost socket was not the last there may be.
NetOK ==
    /\ sock \in Sockets /\ connected \in BOOLEAN
    /\ ~connected => sock < MaxSockets
    /\ up \in [Sockets -> Seq(Message)] /\ down \in [Sockets -> Seq(Event)]

\* The one open session is the entry, whose offer came over some socket.
DeskOK ==
    /\ at \in [Sockets -> {"none", "rebinding", "serving", "gone"}]
    /\ making \in [Sockets -> Peers \cup {None}]
    /\ entry \in Peers \cup {None} /\ sess \in [Peers -> {"none", "open", "closed"}]
    /\ joined \subseteq Peers /\ sink \in [Peers -> Sockets \cup {None}]
    /\ route \subseteq Peers
    /\ armed \in [Peers -> [offered : Sockets \cup {None}, made : 0..MaxPeers,
                            socket : Sockets \cup {None}]]
    /\ \A p \in Peers : sess[p] = "open" => p = entry
    /\ route \subseteq {p \in joined : sess[p] = "open"}
    /\ entry # None => armed[entry].offered # None
    /\ NeverRearmed

\* While the user has stopped the microphone there is nothing a recovery could
\* take up.
SilentInv ==
    /\ silent => /\ ~wants /\ peer = None /\ stream = None
                 /\ \A n \in Starts : start[n] \in {"none", "done"}
    /\ live \subseteq orphaned \cup {stream}

\* Offers are of peers made; a request older than an offer is ahead of it, and
\* once the offer is taken it can come only over an earlier socket.
QueueInv ==
    /\ \A s \in Sockets : \A i \in 1..Len(up[s]) :
         /\ s <= sock
         /\ up[s][i].type = "offer" => up[s][i].peer <= made
    /\ \A p \in Peers : armed[p].offered # None => p <= made
    /\ \A s, t \in Sockets : \A i \in 1..Len(up[s]), j \in 1..Len(up[t]) :
         /\ up[s][i].type = "route" /\ up[t][j].type = "offer"
         /\ up[s][i].made < up[t][j].peer
         => s < t \/ (s = t /\ i < j)
    /\ \A s \in Sockets, p \in Peers : \A i \in 1..Len(up[s]) :
         /\ up[s][i].type = "route" /\ armed[p].offered # None /\ up[s][i].made < p
         => s < armed[p].offered

Inv == UserOK /\ PeersOK /\ NetOK /\ DeskOK /\ SilentInv /\ QueueInv

-----------------------------------------------------------------------------
(* The queues. *)

LEMMA Appended ==
  ASSUME NEW d \in Seq(Message), NEW m \in Message
  PROVE  /\ Len(Append(d, m)) = Len(d) + 1 /\ Len(d) \in Nat
         /\ \A i \in 1..Len(d) : Append(d, m)[i] = d[i]
         /\ Append(d, m)[Len(d) + 1] = m
  OBVIOUS

LEMMA Tailed ==
  ASSUME NEW d \in Seq(Message), d # <<>>
  PROVE  /\ Len(Tail(d)) = Len(d) - 1 /\ Len(d) \in Nat \ {0}
         /\ \A i \in 1..Len(d) - 1 : Tail(d)[i] = d[i + 1]
         /\ Head(d) = d[1] /\ Head(d) \in Message /\ Tail(d) \in Seq(Message)
  OBVIOUS

LEMMA Contents ==
  ASSUME NetOK, NEW s \in Sockets, NEW i \in 1..Len(up[s])
  PROVE  /\ up[s][i] \in Message
         /\ up[s][i].type = "offer" => up[s][i].peer \in Peers
         /\ up[s][i].type = "route" => up[s][i].made \in Int
  BY DEF NetOK, Message

LEMMA DeskUntouched == ASSUME DeskOK, UNCHANGED desk PROVE DeskOK'
  BY DEF DeskOK, NeverRearmed

LEMMA QueueUntouched ==
  ASSUME NetOK, PeersOK, DeskOK, QueueInv, UNCHANGED <<up, armed>>,
         sock' \in Int, sock <= sock', made' \in Int, made <= made'
  PROVE  QueueInv'
  <1>1. sock \in Int /\ made \in Int BY DEF NetOK, PeersOK, Sockets
  <1>2. \A s \in Sockets : \A i \in 1..Len(up[s]) :
          s \in Int /\ (up[s][i].type = "offer" => up[s][i].peer \in Int)
    BY Contents DEF Sockets, Peers
  <1>3. \A p \in Peers : p \in Int BY DEF Peers
  <1> QED BY <1>1, <1>2, <1>3 DEF QueueInv

\* A message that is sent is the last.
LEMMA QueueSent ==
  ASSUME NetOK, PeersOK, DeskOK, QueueInv, NEW m \in Message, Send(m),
         UNCHANGED <<sock, made, armed>>,
         m.type = "offer" => m.peer <= made, m.type = "route" => m.made = made
  PROVE  QueueInv' /\ up' \in [Sockets -> Seq(Message)]
  <1>0. sock \in Sockets /\ sock \in Int /\ made \in Int /\ up[sock] \in Seq(Message)
    BY DEF NetOK, PeersOK, Sockets
  <1>1. up' \in [Sockets -> Seq(Message)] BY <1>0 DEF NetOK, Send
  <1>2. CASE ~connected BY <1>0, <1>1, <1>2, QueueUntouched DEF Send
  <1>3. CASE connected
    <2> DEFINE d == up[sock]
    <2>1. /\ up' = [up EXCEPT ![sock] = Append(d, m)]
          /\ up'[sock] = Append(d, m) /\ Len(d) \in Nat
          /\ \A s \in Sockets : s # sock => up'[s] = up[s]
      BY <1>0, <1>3 DEF Send, NetOK
    <2>2. \A s \in Sockets : \A i \in 1..Len(up'[s]) :
            \/ i \in 1..Len(up[s]) /\ up'[s][i] = up[s][i]
            \/ s = sock /\ i = Len(d) + 1 /\ up'[s][i] = m
      BY <1>0, <2>1, Appended
    <2>3. /\ \A s \in Sockets : \A i \in 1..Len(up'[s]) :
              s <= sock /\ (up'[s][i].type = "offer" => up'[s][i].peer <= made)
      BY <1>0, <2>2 DEF QueueInv
    <2>4. ASSUME NEW s \in Sockets, NEW t \in Sockets,
                 NEW i \in 1..Len(up'[s]), NEW j \in 1..Len(up'[t]),
                 up'[s][i].type = "route", up'[t][j].type = "offer",
                 up'[s][i].made < up'[t][j].peer
          PROVE  s < t \/ (s = t /\ i < j)
      <3>1. s <= sock /\ t <= sock /\ s \in Int /\ t \in Int BY <2>3 DEF Sockets
      <3>2. CASE i \in 1..Len(up[s]) /\ up'[s][i] = up[s][i]
        <4>1. CASE j \in 1..Len(up[t]) /\ up'[t][j] = up[t][j]
          BY <2>4, <3>2, <4>1 DEF QueueInv
        <4>2. CASE t = sock /\ j = Len(d) + 1 BY <1>0, <2>1, <3>1, <3>2, <4>2
        <4> QED BY <2>2, <4>1, <4>2
      <3>3. CASE s = sock /\ i = Len(d) + 1 /\ up'[s][i] = m
        <4>1. up'[t][j].peer <= made BY <2>3, <2>4
        <4>2. up'[t][j] \in Message BY <1>1
        <4>3. up'[t][j].peer \in Int BY <2>4, <4>2 DEF Message, Peers
        <4> QED BY <1>0, <2>4, <3>3, <4>1, <4>3
      <3> QED BY <2>2, <3>2, <3>3
    <2>5. ASSUME NEW s \in Sockets, NEW p \in Peers, NEW i \in 1..Len(up'[s]),
                 up'[s][i].type = "route", armed[p].offered # None, up'[s][i].made < p
          PROVE  s < armed[p].offered
      <3>1. p <= made /\ p \in Int BY <2>5 DEF QueueInv, Peers
      <3> QED BY <1>0, <2>2, <2>5, <3>1 DEF QueueInv
    <2> QED BY <1>1, <2>3, <2>4, <2>5 DEF QueueInv
  <1> QED BY <1>1, <1>2, <1>3

\* What is behind the head stays in its order; what is dropped leaves none.
LEMMA QueueTaken ==
  ASSUME NetOK, PeersOK, DeskOK, QueueInv, NEW s \in Sockets, up[s] # <<>>,
         up' = [up EXCEPT ![s] = Tail(@)], UNCHANGED <<sock, made>>,
         \A p \in Peers :
           \/ armed'[p].offered = armed[p].offered
           \/ /\ Head(up[s]).type = "offer" /\ p = Head(up[s]).peer
              /\ armed'[p].offered = s
  PROVE  QueueInv' /\ up' \in [Sockets -> Seq(Message)]
  <1>1. up[s] \in Seq(Message) BY DEF NetOK
  <1>2. Head(up[s]) = up[s][1] /\ 1 \in 1..Len(up[s]) BY <1>1, Tailed
  <1>3. up' \in [Sockets -> Seq(Message)] BY <1>1, Tailed DEF NetOK
  <1> DEFINE k(t) == IF t = s THEN 1 ELSE 0
  <1>4. \A t \in Sockets : \A i \in 1..Len(up'[t]) :
          i + k(t) \in 1..Len(up[t]) /\ up'[t][i] = up[t][i + k(t)]
    <2> SUFFICES ASSUME NEW t \in Sockets, NEW i \in 1..Len(up'[t])
                 PROVE  i + k(t) \in 1..Len(up[t]) /\ up'[t][i] = up[t][i + k(t)]
      OBVIOUS
    <2>1. CASE t = s
      <3>1. up'[t] = Tail(up[s]) BY <2>1 DEF NetOK
      <3>2. k(t) = 1 BY <2>1
      <3> HIDE DEF k
      <3>3. /\ Len(up'[t]) = Len(up[t]) - 1 /\ Len(up[t]) \in Nat
            /\ \A n \in 1..Len(up[t]) - 1 : up'[t][n] = up[t][n + 1]
        BY <1>1, <2>1, <3>1, Tailed
      <3> QED BY <3>2, <3>3
    <2>2. CASE t # s
      <3>1. up'[t] = up[t] BY <2>2 DEF NetOK
      <3>2. k(t) = 0 /\ i \in Int BY <2>2
      <3> QED BY <3>1, <3>2
    <2> QED BY <2>1, <2>2
  <1>5. \A t, u \in Sockets : \A i \in 1..Len(up'[t]), j \in 1..Len(up'[u]) :
          t = u /\ i + k(t) < j + k(u) => i < j
    OBVIOUS
  <1> HIDE DEF k
  <1>6. \A t \in Sockets : \A i \in 1..Len(up'[t]) :
          t <= sock /\ (up'[t][i].type = "offer" => up'[t][i].peer <= made)
    BY <1>4 DEF QueueInv
  <1>7. ASSUME NEW t \in Sockets, NEW u \in Sockets,
               NEW i \in 1..Len(up'[t]), NEW j \in 1..Len(up'[u]),
               up'[t][i].type = "route", up'[u][j].type = "offer",
               up'[t][i].made < up'[u][j].peer
        PROVE  t < u \/ (t = u /\ i < j)
    <2>1. i + k(t) \in 1..Len(up[t]) /\ up'[t][i] = up[t][i + k(t)] BY <1>4
    <2>2. j + k(u) \in 1..Len(up[u]) /\ up'[u][j] = up[u][j + k(u)] BY <1>4
    <2>3. \A m \in 1..Len(up[t]), n \in 1..Len(up[u]) :
            /\ up[t][m].type = "route" /\ up[u][n].type = "offer"
            /\ up[t][m].made < up[u][n].peer
            => t < u \/ (t = u /\ m < n)
      BY DEF QueueInv
    <2>4. t < u \/ (t = u /\ i + k(t) < j + k(u)) BY <1>7, <2>1, <2>2, <2>3
    <2> QED BY <1>5, <2>4
  <1>8. ASSUME NEW t \in Sockets, NEW p \in Peers, NEW i \in 1..Len(up'[t]),
               up'[t][i].type = "route", armed'[p].offered # None, up'[t][i].made < p
        PROVE  t < armed'[p].offered
    <2>1. i + k(t) \in 1..Len(up[t]) /\ up'[t][i] = up[t][i + k(t)] BY <1>4
    <2>2. \A n \in 1..Len(up[t]) :
            up[t][n].type = "route" /\ armed[p].offered # None /\ up[t][n].made < p
            => t < armed[p].offered
      BY DEF QueueInv
    <2>3. CASE armed'[p].offered = armed[p].offered BY <1>8, <2>1, <2>2, <2>3
    <2>4. CASE up[s][1].type = "offer" /\ p = up[s][1].peer /\ armed'[p].offered = s
      <3>1. \A m \in 1..Len(up[t]), n \in 1..Len(up[s]) :
              /\ up[t][m].type = "route" /\ up[s][n].type = "offer"
              /\ up[t][m].made < up[s][n].peer
              => t < s \/ (t = s /\ m < n)
        BY DEF QueueInv
      <3>2. t < s \/ (t = s /\ i + k(t) < 1) BY <1>8, <1>2, <2>1, <2>4, <3>1
      <3> QED BY <2>1, <2>4, <3>2
    <2> QED BY <1>2, <2>3, <2>4
  <1>9. \A p \in Peers : armed'[p].offered # None => p <= made
    BY <1>2 DEF QueueInv
  <1> QED BY <1>3, <1>6, <1>7, <1>8, <1>9 DEF QueueInv

LEMMA QueueDropped ==
  ASSUME NetOK, QueueInv, NEW s \in Sockets,
         up' = [up EXCEPT ![s] = <<>>], UNCHANGED <<sock, made, armed>>
  PROVE  QueueInv' /\ up' \in [Sockets -> Seq(Message)]
  <1>1. up' \in [Sockets -> Seq(Message)] BY DEF NetOK
  <1>2. \A t \in Sockets : \A i \in 1..Len(up'[t]) : t # s /\ up'[t] = up[t]
    BY DEF NetOK
  <1> QED BY <1>1, <1>2 DEF QueueInv

-----------------------------------------------------------------------------
(* What a step leaves alone. *)

LEMMA UserUntouched == ASSUME UserOK, UNCHANGED user PROVE UserOK'
  BY DEF UserOK

LEMMA PeersUntouched ==
  ASSUME PeersOK, UNCHANGED <<phase, peers, neg, applying>> PROVE PeersOK'
  BY DEF PeersOK

LEMMA NetUntouched == ASSUME NetOK, UNCHANGED net PROVE NetOK'
  BY DEF NetOK

LEMMA SilentUntouched == ASSUME SilentInv, UNCHANGED <<user, peer>> PROVE SilentInv'
  BY DEF SilentInv

\* The only peer that may be open is the present one.
LEMMA AllClosed ==
  ASSUME PeersOK
  PROVE  /\ Closed \in [Peers -> {"none", "new", "connected", "lost", "closed"}]
         /\ \A p \in Peers : Closed[p] \notin {"new", "connected", "lost"}
  <1>1. Closed \in [Peers -> {"none", "new", "connected", "lost", "closed"}]
    BY DEF PeersOK, Closed
  <1>2. ASSUME NEW p \in Peers PROVE Closed[p] \notin {"new", "connected", "lost"}
    <2>1. pc[p] \in {"new", "connected", "lost"} => p = peer BY DEF PeersOK
    <2>2. p # None BY DEF Peers, None
    <2>3. CASE peer = None BY <2>1, <2>2, <2>3 DEF Closed
    <2>4. CASE peer # None
      <3>1. Closed = [pc EXCEPT ![peer] = "closed"] BY <2>4 DEF Closed
      <3>2. pc \in [Peers -> {"none", "new", "connected", "lost", "closed"}]
        BY DEF PeersOK
      <3>3. CASE p = peer BY <3>1, <3>2, <3>3
      <3>4. CASE p # peer BY <2>1, <3>1, <3>2, <3>4
      <3> QED BY <3>3, <3>4
    <2> QED BY <2>3, <2>4
  <1> QED BY <1>1, <1>2

LEMMA Reset ==
  ASSUME PeersOK, ResetPeer,
         phase' \in {"requesting", "failed", "stopped"},
         neg' = neg \/ neg' = Idle, applying' = applying \/ applying' = NotApplying
  PROVE  PeersOK'
  <1>1. neg' = neg \/ (neg' \in [at : {"idle", "offering", "gathering"},
                                 pc : Peers \cup {None}] /\ neg'.at = "idle")
    BY DEF Idle
  <1>2. applying' \in [peer : Peers \cup {None}, session : Peers \cup {None}]
    BY DEF PeersOK, NotApplying
  <1> QED BY <1>1, <1>2, AllClosed DEF PeersOK, ResetPeer

\* A negotiation is that of the newest peer, which is the one not closed.
LEMMA Negotiated ==
  ASSUME PeersOK, Negotiates, UNCHANGED applying
  PROVE  PeersOK' /\ made' \in Int /\ made <= made'
  <1>1. made \in Int /\ made + 1 \in Peers /\ made + 1 # None /\ made' = made + 1
    BY DEF PeersOK, Negotiates, Peers, None
  <1>4. made' \in 0..MaxPeers BY <1>1 DEF Peers
  <1>5. /\ pc' \in [Peers -> {"none", "new", "connected", "lost", "closed"}]
        /\ \A p \in Peers : pc'[p] \in {"new", "connected", "lost"} => p = peer'
    BY <1>1, AllClosed DEF Negotiates
  <1> QED BY <1>1, <1>4, <1>5 DEF PeersOK, Negotiates

LEMMA Told ==
  ASSUME NetOK, NEW p \in Peers, NEW m \in Event, Tell(p, m)
  PROVE  down' \in [Sockets -> Seq(Event)]
  BY DEF NetOK, Tell

LEMMA States == \A p \in Peers : State(p) \in Event
  BY DEF State, Event

\* What takes the head of a queue takes a message.
LEMMA Taken ==
  ASSUME NetOK, NEW s \in Sockets, NEW type, Takes(s, type)
  PROVE  /\ up[s] # <<>> /\ up' = [up EXCEPT ![s] = Tail(@)]
         /\ up' \in [Sockets -> Seq(Message)]
         /\ Head(up[s]) \in Message /\ Head(up[s]).type = type
         /\ Head(up[s]) = up[s][1] /\ 1 \in 1..Len(up[s])
  <1>1. up[s] \in Seq(Message) /\ up[s] # <<>> BY DEF NetOK, Takes
  <1>2. Tail(up[s]) \in Seq(Message) /\ Head(up[s]) \in Message /\ Head(up[s]) = up[s][1]
        /\ 1 \in 1..Len(up[s])
    BY <1>1, Tailed
  <1> QED BY <1>1, <1>2 DEF NetOK, Takes

-----------------------------------------------------------------------------
(* The steps. *)

\* What is said of the sessions is not of the sockets.
LEMMA DeskKept ==
  ASSUME DeskOK, UNCHANGED <<entry, sess, joined, route, armed>>,
         at' \in [Sockets -> {"none", "rebinding", "serving", "gone"}],
         making' \in [Sockets -> Peers \cup {None}],
         sink' \in [Peers -> Sockets \cup {None}]
  PROVE  DeskOK'
  BY DEF DeskOK, NeverRearmed

\* Without its entry the phone has no session open.
LEMMA EntryClosed ==
  ASSUME DeskOK, CloseEntry, entry' = None, route' = route \ {entry},
         making' \in [Sockets -> Peers \cup {None}], UNCHANGED <<at, joined, sink, armed>>
  PROVE  DeskOK'
  <1>1. sess' \in [Peers -> {"none", "open", "closed"}] /\ \A p \in Peers : sess'[p] # "open"
    BY DEF DeskOK, CloseEntry, Peers, None
  <1>2. route' = {} BY DEF DeskOK
  <1> QED BY <1>1, <1>2 DEF DeskOK, NeverRearmed

\* negotiateExistingStream.
LEMMA NegOffersStep == ASSUME Inv, NegOffers PROVE Inv'
  <1>0. UserOK /\ PeersOK /\ NetOK /\ DeskOK /\ SilentInv /\ QueueInv BY DEF Inv
  <1>1. UserOK' BY <1>0, UserUntouched DEF NegOffers, NegFailed
  <1>2. PeersOK'
    <2>1. CASE NegFailed BY <1>0, <2>1, Reset DEF NegFailed
    <2>2. CASE ~NegFailed BY <1>0, <2>2 DEF PeersOK, NegOffers, Peers, None
    <2> QED BY <2>1, <2>2
  <1>3. NetOK' BY <1>0, NetUntouched DEF NegOffers, NegFailed
  <1>4. DeskOK' BY <1>0, DeskUntouched DEF NegOffers, NegFailed
  <1>5. SilentInv' BY <1>0 DEF SilentInv, NegOffers, NegFailed, ResetPeer
  <1>6. QueueInv'
    BY <1>0, QueueUntouched DEF NegOffers, NegFailed, ResetPeer, NetOK, PeersOK, Sockets
  <1> QED BY <1>1, <1>2, <1>3, <1>4, <1>5, <1>6 DEF Inv

LEMMA NegSendsStep == ASSUME Inv, NegSends PROVE Inv'
  <1>0. UserOK /\ PeersOK /\ NetOK /\ DeskOK /\ SilentInv /\ QueueInv BY DEF Inv
  <1>a. CASE NegFailed
    <2>1. UserOK' /\ NetOK' /\ DeskOK'
      BY <1>0, <1>a, UserUntouched, NetUntouched, DeskUntouched DEF NegFailed
    <2>2. PeersOK' BY <1>0, <1>a, Reset DEF NegFailed
    <2>3. SilentInv' BY <1>0, <1>a DEF SilentInv, NegFailed, ResetPeer
    <2>4. QueueInv'
      BY <1>0, <1>a, QueueUntouched DEF NegFailed, ResetPeer, NetOK, PeersOK, Sockets
    <2> QED BY <2>1, <2>2, <2>3, <2>4 DEF Inv
  <1> SUFFICES ASSUME ~NegFailed PROVE Inv' BY <1>a
  <1>b. PICK m : /\ m = [type |-> "offer", peer |-> neg.pc] /\ Send(m)
                 /\ neg' = Idle /\ neg.at = "gathering"
                 /\ UNCHANGED <<user, phase, peers, applying, sock, connected, down, desk>>
    BY DEF NegSends
  <1>c. m \in Message /\ m.type = "offer" /\ m.peer = made
    BY <1>0, <1>b DEF PeersOK, Message, Peers, None
  <1>d. made \in Int BY <1>0 DEF PeersOK
  <1>e. QueueInv' /\ up' \in [Sockets -> Seq(Message)]
    BY <1>0, <1>b, <1>c, <1>d, QueueSent
  <1>1. UserOK' BY <1>0, <1>b, UserUntouched
  <1>2. PeersOK' BY <1>0, <1>b DEF PeersOK, Idle
  <1>3. NetOK' BY <1>0, <1>b, <1>e DEF NetOK
  <1>4. DeskOK' BY <1>0, <1>b, DeskUntouched
  <1>5. SilentInv' BY <1>0, <1>b, SilentUntouched
  <1>6. QueueInv' BY <1>e
  <1> QED BY <1>1, <1>2, <1>3, <1>4, <1>5, <1>6 DEF Inv

\* start, stop, and the end of a track.
LEMMA PressEnableStep == ASSUME Inv, PressEnable PROVE Inv'
  <1>0. UserOK /\ PeersOK /\ NetOK /\ DeskOK /\ SilentInv /\ QueueInv BY DEF Inv
  <1>1. UserOK'
    <2>1. started + 1 \in 0..MaxStarts BY <1>0 DEF UserOK, PressEnable
    <2>2. start' \in [Starts -> {"none", "info", "asking", "done"}]
      BY <1>0 DEF UserOK, PressEnable
    <2> QED BY <1>0, <2>1, <2>2 DEF UserOK, PressEnable
  <1>2. PeersOK' BY <1>0, PeersUntouched DEF PressEnable
  <1>3. NetOK' BY <1>0, NetUntouched DEF PressEnable
  <1>4. DeskOK' BY <1>0, DeskUntouched DEF PressEnable
  <1>5. SilentInv' BY <1>0 DEF SilentInv, PressEnable
  <1>6. QueueInv' BY <1>0, QueueUntouched DEF PressEnable, NetOK, PeersOK, Sockets
  <1> QED BY <1>1, <1>2, <1>3, <1>4, <1>5, <1>6 DEF Inv

LEMMA AsksPermissionStep == ASSUME NEW n \in Starts, Inv, AsksPermission(n) PROVE Inv'
  <1>0. UserOK /\ PeersOK /\ NetOK /\ DeskOK /\ SilentInv /\ QueueInv BY DEF Inv
  <1>1. UserOK' BY <1>0 DEF UserOK, AsksPermission, StopsTracks
  <1>2. PeersOK' BY <1>0, Reset DEF AsksPermission
  <1>3. NetOK' BY <1>0, NetUntouched DEF AsksPermission
  <1>4. DeskOK' BY <1>0, DeskUntouched DEF AsksPermission
  <1>5. SilentInv' BY <1>0 DEF SilentInv, AsksPermission, ResetPeer, StopsTracks
  <1>6. QueueInv'
    BY <1>0, QueueUntouched DEF AsksPermission, ResetPeer, NetOK, PeersOK, Sockets
  <1> QED BY <1>1, <1>2, <1>3, <1>4, <1>5, <1>6 DEF Inv

LEMMA GrantedStep == ASSUME NEW n \in Starts, Inv, Granted(n) PROVE Inv'
  <1>0. UserOK /\ PeersOK /\ NetOK /\ DeskOK /\ SilentInv /\ QueueInv BY DEF Inv
  <1>a. PeersOK' /\ made' \in Int /\ made <= made'
    <2>1. CASE Negotiates BY <1>0, <2>1, Negotiated DEF Granted
    <2>2. CASE ~Negotiates BY <1>0, <2>2, PeersUntouched DEF Granted, PeersOK
    <2> QED BY <2>1, <2>2
  <1>1. UserOK' BY <1>0 DEF UserOK, Granted
  <1>2. PeersOK' BY <1>a
  <1>3. NetOK' BY <1>0, NetUntouched DEF Granted
  <1>4. DeskOK' BY <1>0, DeskUntouched DEF Granted
  <1>5. SilentInv' BY <1>0 DEF SilentInv, UserOK, Granted, Starts, None
  <1>6. QueueInv' BY <1>0, <1>a, QueueUntouched DEF Granted, NetOK, Sockets
  <1> QED BY <1>1, <1>2, <1>3, <1>4, <1>5, <1>6 DEF Inv

LEMMA DeniedStep == ASSUME NEW n \in Starts, Inv, Denied(n) PROVE Inv'
  <1>0. UserOK /\ PeersOK /\ NetOK /\ DeskOK /\ SilentInv /\ QueueInv BY DEF Inv
  <1>1. UserOK' BY <1>0 DEF UserOK, Denied, StopsTracks
  <1>2. PeersOK' BY <1>0, Reset DEF Denied
  <1>3. NetOK' BY <1>0, NetUntouched DEF Denied
  <1>4. DeskOK' BY <1>0, DeskUntouched DEF Denied
  <1>5. SilentInv' BY <1>0 DEF SilentInv, Denied, ResetPeer, StopsTracks
  <1>6. QueueInv' BY <1>0, QueueUntouched DEF Denied, ResetPeer, NetOK, PeersOK, Sockets
  <1> QED BY <1>1, <1>2, <1>3, <1>4, <1>5, <1>6 DEF Inv

LEMMA TrackEndsStep == ASSUME NEW n \in Starts, Inv, TrackEnds(n) PROVE Inv'
  <1>0. UserOK /\ PeersOK /\ NetOK /\ DeskOK /\ SilentInv /\ QueueInv BY DEF Inv
  <1>a. [type |-> "stop"] \in Message /\ UNCHANGED made
    BY DEF Message, TrackEnds, ResetPeer
  <1>b. QueueInv' /\ up' \in [Sockets -> Seq(Message)]
    BY <1>0, <1>a, QueueSent DEF TrackEnds
  <1>1. UserOK' BY <1>0 DEF UserOK, TrackEnds
  <1>2. PeersOK' BY <1>0, Reset DEF TrackEnds
  <1>3. NetOK' BY <1>0, <1>b DEF NetOK, TrackEnds
  <1>4. DeskOK' BY <1>0, DeskUntouched DEF TrackEnds
  <1>5. SilentInv' BY <1>0 DEF SilentInv, TrackEnds, ResetPeer
  <1>6. QueueInv' BY <1>b
  <1> QED BY <1>1, <1>2, <1>3, <1>4, <1>5, <1>6 DEF Inv

LEMMA PressStopStep == ASSUME Inv, PressStop PROVE Inv'
  <1>0. UserOK /\ PeersOK /\ NetOK /\ DeskOK /\ SilentInv /\ QueueInv BY DEF Inv
  <1>a. [type |-> "stop"] \in Message /\ UNCHANGED made
    BY DEF Message, PressStop, ResetPeer
  <1>b. QueueInv' /\ up' \in [Sockets -> Seq(Message)]
    BY <1>0, <1>a, QueueSent DEF PressStop
  <1>1. UserOK' BY <1>0 DEF UserOK, PressStop, StopsTracks
  <1>2. PeersOK' BY <1>0, Reset DEF PressStop
  <1>3. NetOK' BY <1>0, <1>b DEF NetOK, PressStop
  <1>4. DeskOK' BY <1>0, DeskUntouched DEF PressStop
  <1>5. SilentInv' BY <1>0 DEF SilentInv, PressStop, ResetPeer, StopsTracks
  <1>6. QueueInv' BY <1>b
  <1> QED BY <1>1, <1>2, <1>3, <1>4, <1>5, <1>6 DEF Inv

LEMMA PressRouteStep == ASSUME NEW enabled \in BOOLEAN, Inv, PressRoute(enabled) PROVE Inv'
  <1>0. UserOK /\ PeersOK /\ NetOK /\ DeskOK /\ SilentInv /\ QueueInv BY DEF Inv
  <1> DEFINE m == [type |-> "route", enabled |-> enabled, made |-> made]
  <1>a. m \in Message /\ m.type = "route" /\ m.made = made BY <1>0 DEF Message, PeersOK
  <1>c. Send(m) /\ UNCHANGED <<sock, made, armed>> BY DEF PressRoute
  <1> HIDE DEF m
  <1>b. QueueInv' /\ up' \in [Sockets -> Seq(Message)] BY <1>0, <1>a, <1>c, QueueSent
  <1>1. UserOK' BY <1>0, UserUntouched DEF PressRoute
  <1>2. PeersOK' BY <1>0, PeersUntouched DEF PressRoute
  <1>3. NetOK' BY <1>0, <1>b DEF NetOK, PressRoute
  <1>4. DeskOK' BY <1>0, DeskUntouched DEF PressRoute
  <1>5. SilentInv' BY <1>0, SilentUntouched DEF PressRoute
  <1>6. QueueInv' BY <1>b
  <1> QED BY <1>1, <1>2, <1>3, <1>4, <1>5, <1>6 DEF Inv

LEMMA PageReturnsStep == ASSUME Inv, PageReturns PROVE Inv'
  <1>0. UserOK /\ PeersOK /\ NetOK /\ DeskOK /\ SilentInv /\ QueueInv BY DEF Inv
  <1>1. UserOK' BY <1>0 DEF UserOK, PageReturns, ScheduleRecovery
  <1>2. PeersOK' BY <1>0, PeersUntouched DEF PageReturns
  <1>3. NetOK' BY <1>0, NetUntouched DEF PageReturns
  <1>4. DeskOK' BY <1>0, DeskUntouched DEF PageReturns
  <1>5. SilentInv' BY <1>0 DEF SilentInv, PageReturns
  <1>6. QueueInv' BY <1>0, QueueUntouched DEF PageReturns, NetOK, PeersOK, Sockets
  <1> QED BY <1>1, <1>2, <1>3, <1>4, <1>5, <1>6 DEF Inv

LEMMA TimerFiresStep == ASSUME Inv, TimerFires PROVE Inv'
  <1>0. UserOK /\ PeersOK /\ NetOK /\ DeskOK /\ SilentInv /\ QueueInv BY DEF Inv
  <1>a. PeersOK' /\ made' \in Int /\ made <= made'
    <2>1. CASE Negotiates BY <1>0, <2>1, Negotiated DEF TimerFires
    <2>2. CASE ~Negotiates
      BY <1>0, <2>2, PeersUntouched DEF TimerFires, RecoverIfPossible, PeersOK
    <2> QED BY <2>1, <2>2
  <1>1. UserOK' BY <1>0 DEF UserOK, TimerFires
  <1>2. PeersOK' BY <1>a
  <1>3. NetOK' BY <1>0, NetUntouched DEF TimerFires
  <1>4. DeskOK' BY <1>0, DeskUntouched DEF TimerFires
  <1>5. SilentInv' BY <1>0 DEF SilentInv, TimerFires, RecoverIfPossible
  <1>6. QueueInv' BY <1>0, <1>a, QueueUntouched DEF TimerFires, NetOK, Sockets
  <1> QED BY <1>1, <1>2, <1>3, <1>4, <1>5, <1>6 DEF Inv

\* The phone's peer and what it hears.
LEMMA PeerConnectsStep == ASSUME Inv, PeerConnects PROVE Inv'
  <1>0. UserOK /\ PeersOK /\ NetOK /\ DeskOK /\ SilentInv /\ QueueInv BY DEF Inv
  <1>1. UserOK' BY <1>0 DEF UserOK, PeerConnects
  <1>2. PeersOK' BY <1>0 DEF PeersOK, PeerConnects
  <1>3. NetOK' BY <1>0, NetUntouched DEF PeerConnects
  <1>4. DeskOK' BY <1>0, DeskUntouched DEF PeerConnects
  <1>5. SilentInv' BY <1>0 DEF SilentInv, PeerConnects
  <1>6. QueueInv' BY <1>0, QueueUntouched DEF PeerConnects, NetOK, PeersOK, Sockets
  <1> QED BY <1>1, <1>2, <1>3, <1>4, <1>5, <1>6 DEF Inv

LEMMA PeerLostStep == ASSUME Inv, PeerLost PROVE Inv'
  <1>0. UserOK /\ PeersOK /\ NetOK /\ DeskOK /\ SilentInv /\ QueueInv BY DEF Inv
  <1>1. UserOK' BY <1>0 DEF UserOK, PeerLost, ScheduleRecovery
  <1>2. PeersOK' BY <1>0 DEF PeersOK, PeerLost
  <1>3. NetOK' BY <1>0, NetUntouched DEF PeerLost
  <1>4. DeskOK' BY <1>0, DeskUntouched DEF PeerLost
  <1>5. SilentInv' BY <1>0 DEF SilentInv, PeerLost
  <1>6. QueueInv' BY <1>0, QueueUntouched DEF PeerLost, NetOK, PeersOK, Sockets
  <1> QED BY <1>1, <1>2, <1>3, <1>4, <1>5, <1>6 DEF Inv

LEMMA ReceivesAnswerStep == ASSUME Inv, ReceivesAnswer PROVE Inv'
  <1>0. UserOK /\ PeersOK /\ NetOK /\ DeskOK /\ SilentInv /\ QueueInv BY DEF Inv
  <1>a. /\ down[sock] \in Seq(Event) /\ down[sock] # <<>> /\ sock \in Sockets
        /\ Head(down[sock]).type = "answer"
    BY <1>0 DEF NetOK, ReceivesAnswer
  <1>b. Tail(down[sock]) \in Seq(Event) /\ Head(down[sock]) \in Event BY <1>a
  <1>c. Head(down[sock]).session \in Peers BY <1>a, <1>b DEF Event
  <1>1. UserOK' BY <1>0, UserUntouched DEF ReceivesAnswer
  <1>2. PeersOK' BY <1>0, <1>c DEF PeersOK, ReceivesAnswer
  <1>3. NetOK' BY <1>0, <1>b DEF NetOK, ReceivesAnswer
  <1>4. DeskOK' BY <1>0, DeskUntouched DEF ReceivesAnswer
  <1>5. SilentInv' BY <1>0, SilentUntouched DEF ReceivesAnswer
  <1>6. QueueInv' BY <1>0, QueueUntouched DEF ReceivesAnswer, NetOK, PeersOK, Sockets
  <1> QED BY <1>1, <1>2, <1>3, <1>4, <1>5, <1>6 DEF Inv

LEMMA AnswerAppliedStep == ASSUME Inv, AnswerApplied PROVE Inv'
  <1>0. UserOK /\ PeersOK /\ NetOK /\ DeskOK /\ SilentInv /\ QueueInv BY DEF Inv
  <1>1. UserOK' BY <1>0, UserUntouched DEF AnswerApplied
  <1>2. PeersOK' BY <1>0 DEF PeersOK, AnswerApplied, NotApplying, None
  <1>3. NetOK' BY <1>0, NetUntouched DEF AnswerApplied
  <1>4. DeskOK' BY <1>0, DeskUntouched DEF AnswerApplied
  <1>5. SilentInv' BY <1>0, SilentUntouched DEF AnswerApplied
  <1>6. QueueInv' BY <1>0, QueueUntouched DEF AnswerApplied, NetOK, PeersOK, Sockets
  <1> QED BY <1>1, <1>2, <1>3, <1>4, <1>5, <1>6 DEF Inv

LEMMA AnswerRejectedStep == ASSUME Inv, AnswerRejected PROVE Inv'
  <1>0. UserOK /\ PeersOK /\ NetOK /\ DeskOK /\ SilentInv /\ QueueInv BY DEF Inv
  <1>1. UserOK' BY <1>0, UserUntouched DEF AnswerRejected
  <1>2. PeersOK'
    <2>1. CASE ResetPeer /\ phase' = "failed" BY <1>0, <2>1, Reset DEF AnswerRejected
    <2>2. CASE UNCHANGED <<phase, peers>>
      BY <1>0, <2>2 DEF PeersOK, AnswerRejected, NotApplying
    <2> QED BY <2>1, <2>2 DEF AnswerRejected
  <1>3. NetOK' BY <1>0, NetUntouched DEF AnswerRejected
  <1>4. DeskOK' BY <1>0, DeskUntouched DEF AnswerRejected
  <1>5. SilentInv' BY <1>0 DEF SilentInv, AnswerRejected, ResetPeer
  <1>6. QueueInv'
    BY <1>0, QueueUntouched DEF AnswerRejected, ResetPeer, NetOK, PeersOK, Sockets
  <1> QED BY <1>1, <1>2, <1>3, <1>4, <1>5, <1>6 DEF Inv

LEMMA ReceivesStateStep == ASSUME Inv, ReceivesState PROVE Inv'
  <1>0. UserOK /\ PeersOK /\ NetOK /\ DeskOK /\ SilentInv /\ QueueInv BY DEF Inv
  <1>a. /\ down[sock] \in Seq(Event) /\ down[sock] # <<>> /\ sock \in Sockets
        /\ Head(down[sock]).type = "state"
    BY <1>0 DEF NetOK, ReceivesState
  <1>b. Tail(down[sock]) \in Seq(Event) /\ Head(down[sock]) \in Event BY <1>a
  <1>c. Head(down[sock]).state \in {"negotiating", "connected", "failed"}
    BY <1>a, <1>b DEF Event
  <1>1. UserOK' BY <1>0, UserUntouched DEF ReceivesState
  <1>2. PeersOK' BY <1>0, <1>c DEF PeersOK, ReceivesState
  <1>3. NetOK' BY <1>0, <1>b DEF NetOK, ReceivesState
  <1>4. DeskOK' BY <1>0, DeskUntouched DEF ReceivesState
  <1>5. SilentInv' BY <1>0, SilentUntouched DEF ReceivesState
  <1>6. QueueInv' BY <1>0, QueueUntouched DEF ReceivesState, NetOK, PeersOK, Sockets
  <1> QED BY <1>1, <1>2, <1>3, <1>4, <1>5, <1>6 DEF Inv

\* The socket.
LEMMA SocketLostStep == ASSUME Inv, SocketLost PROVE Inv'
  <1>0. UserOK /\ PeersOK /\ NetOK /\ DeskOK /\ SilentInv /\ QueueInv BY DEF Inv
  <1>1. UserOK' BY <1>0, UserUntouched DEF SocketLost
  <1>2. PeersOK' BY <1>0, PeersUntouched DEF SocketLost
  <1>3. NetOK'
    <2>1. <<>> \in Seq(Event) OBVIOUS
    <2> QED BY <1>0, <2>1 DEF NetOK, SocketLost
  <1>4. DeskOK' BY <1>0, DeskUntouched DEF SocketLost
  <1>5. SilentInv' BY <1>0, SilentUntouched DEF SocketLost
  <1>6. QueueInv' BY <1>0, QueueUntouched DEF SocketLost, NetOK, PeersOK, Sockets
  <1> QED BY <1>1, <1>2, <1>3, <1>4, <1>5, <1>6 DEF Inv

LEMMA ReconnectsStep == ASSUME Inv, Reconnects PROVE Inv'
  <1>0. UserOK /\ PeersOK /\ NetOK /\ DeskOK /\ SilentInv /\ QueueInv BY DEF Inv
  <1>1. UserOK' BY <1>0 DEF UserOK, Reconnects, ScheduleRecovery
  <1>2. PeersOK' BY <1>0, PeersUntouched DEF Reconnects
  <1>3. NetOK'
    <2>1. sock' \in Sockets BY <1>0 DEF NetOK, Reconnects, Sockets
    <2> QED BY <1>0, <2>1 DEF NetOK, Reconnects
  <1>4. DeskOK'
    <2>1. /\ at' \in [Sockets -> {"none", "rebinding", "serving", "gone"}]
          /\ making' \in [Sockets -> Peers \cup {None}]
          /\ sink' \in [Peers -> Sockets \cup {None}]
      BY <1>0 DEF DeskOK, Reconnects
    <2> QED BY <1>0, <2>1, DeskKept DEF Reconnects
  <1>5. SilentInv' BY <1>0 DEF SilentInv, Reconnects
  <1>6. QueueInv' BY <1>0, QueueUntouched DEF Reconnects, NetOK, PeersOK, Sockets
  <1> QED BY <1>1, <1>2, <1>3, <1>4, <1>5, <1>6 DEF Inv

LEMMA LoopEndsStep == ASSUME NEW s \in Sockets, Inv, LoopEnds(s) PROVE Inv'
  <1>0. UserOK /\ PeersOK /\ NetOK /\ DeskOK /\ SilentInv /\ QueueInv BY DEF Inv
  <1>a. QueueInv' /\ up' \in [Sockets -> Seq(Message)] BY <1>0, QueueDropped DEF LoopEnds
  <1>1. UserOK' BY <1>0, UserUntouched DEF LoopEnds
  <1>2. PeersOK' BY <1>0, PeersUntouched DEF LoopEnds
  <1>3. NetOK' BY <1>0, <1>a DEF NetOK, LoopEnds
  <1>4. DeskOK' BY <1>0 DEF DeskOK, NeverRearmed, LoopEnds
  <1>5. SilentInv' BY <1>0, SilentUntouched DEF LoopEnds
  <1>6. QueueInv' BY <1>a
  <1> QED BY <1>1, <1>2, <1>3, <1>4, <1>5, <1>6 DEF Inv

\* The desktop.
LEMMA RebindsStep == ASSUME NEW s \in Sockets, Inv, Rebinds(s) PROVE Inv'
  <1>0. UserOK /\ PeersOK /\ NetOK /\ DeskOK /\ SilentInv /\ QueueInv BY DEF Inv
  <1>1. UserOK' BY <1>0, UserUntouched DEF Rebinds
  <1>2. PeersOK' BY <1>0, PeersUntouched DEF Rebinds
  <1>3. NetOK'
    <2>1. entry # None => entry \in Peers BY <1>0 DEF DeskOK
    <2>2. entry # None => State(entry) \in Event BY <2>1, States
    <2>3. entry # None => Append(down[s], State(entry)) \in Seq(Event)
      BY <1>0, <2>2 DEF NetOK
    <2>4. down' \in [Sockets -> Seq(Event)] BY <1>0, <2>3 DEF NetOK, Rebinds
    <2> QED BY <1>0, <2>4 DEF NetOK, Rebinds
  <1>4. DeskOK'
    <2>1. /\ at' \in [Sockets -> {"none", "rebinding", "serving", "gone"}]
          /\ making' \in [Sockets -> Peers \cup {None}]
      BY <1>0 DEF DeskOK, Rebinds
    <2>2. sink' \in [Peers -> Sockets \cup {None}] BY <1>0 DEF DeskOK, Rebinds
    <2> QED BY <1>0, <2>1, <2>2, DeskKept DEF Rebinds
  <1>5. SilentInv' BY <1>0, SilentUntouched DEF Rebinds
  <1>6. QueueInv' BY <1>0, QueueUntouched DEF Rebinds, NetOK, PeersOK, Sockets
  <1> QED BY <1>1, <1>2, <1>3, <1>4, <1>5, <1>6 DEF Inv

LEMMA TakesOfferStep == ASSUME NEW s \in Sockets, Inv, TakesOffer(s) PROVE Inv'
  <1>0. UserOK /\ PeersOK /\ NetOK /\ DeskOK /\ SilentInv /\ QueueInv BY DEF Inv
  <1>a. /\ up' \in [Sockets -> Seq(Message)] /\ Head(up[s]).type = "offer"
        /\ up[s] # <<>> /\ up' = [up EXCEPT ![s] = Tail(@)] /\ Head(up[s]) \in Message
        /\ Head(up[s]) = up[s][1] /\ 1 \in 1..Len(up[s])
    BY <1>0, Taken DEF TakesOffer
  <1> DEFINE p == Head(up[s]).peer
  <1>b. p \in Peers /\ s # None /\ p # None BY <1>a DEF Message, Peers, Sockets, None
  <1>c. route' = {} BY <1>0 DEF DeskOK, TakesOffer, SessionRoute
  <1>1. UserOK' BY <1>0, UserUntouched DEF TakesOffer
  <1>2. PeersOK' BY <1>0, PeersUntouched DEF TakesOffer
  <1>3. NetOK' BY <1>0, <1>a DEF NetOK, TakesOffer
  <1>4. DeskOK'
    <2>1. /\ armed' = [armed EXCEPT ![p].offered = s] /\ entry' = p
          /\ sess' = [q \in Peers |-> CASE q = p -> "open" [] q = entry /\ q # p -> "closed"
                                       [] OTHER -> sess[q]]
      BY DEF TakesOffer
    <2>2. armed' \in [Peers -> [offered : Sockets \cup {None}, made : 0..MaxPeers,
                                socket : Sockets \cup {None}]]
          /\ armed'[p].offered = s
      BY <1>0, <1>b, <2>1 DEF DeskOK
    <2>3. sess' \in [Peers -> {"none", "open", "closed"}]
      <3>1. ASSUME NEW q \in Peers PROVE sess'[q] \in {"none", "open", "closed"}
        BY <1>0, <2>1 DEF DeskOK
      <3> QED BY <2>1, <3>1
    <2>4. \A q \in Peers : sess'[q] = "open" => q = entry'
      BY <1>0, <2>1 DEF DeskOK
    <2>5. /\ making' \in [Sockets -> Peers \cup {None}] /\ UNCHANGED <<at, joined>>
          /\ sink' \in [Peers -> Sockets \cup {None}]
      BY <1>0, <1>b DEF DeskOK, TakesOffer
    <2> QED BY <1>0, <1>b, <1>c, <2>1, <2>2, <2>3, <2>4, <2>5 DEF DeskOK, NeverRearmed
  <1>5. SilentInv' BY <1>0, SilentUntouched DEF TakesOffer
  <1>6. QueueInv'
    <2>1. \A q \in Peers : armed'[q].offered = armed[q].offered
                           \/ (q = p /\ armed'[q].offered = s)
      BY <1>0, <1>b DEF DeskOK, TakesOffer
    <2> QED BY <1>0, <1>a, <2>1, QueueTaken DEF TakesOffer
  <1> QED BY <1>1, <1>2, <1>3, <1>4, <1>5, <1>6 DEF Inv

LEMMA RefusesOfferStep == ASSUME NEW s \in Sockets, Inv, RefusesOffer(s) PROVE Inv'
  <1>0. UserOK /\ PeersOK /\ NetOK /\ DeskOK /\ SilentInv /\ QueueInv BY DEF Inv
  <1>a. /\ up' \in [Sockets -> Seq(Message)] /\ Head(up[s]).type = "offer"
        /\ up[s] # <<>> /\ up' = [up EXCEPT ![s] = Tail(@)] /\ Head(up[s]) \in Message
        /\ Head(up[s]) = up[s][1] /\ 1 \in 1..Len(up[s])
    BY <1>0, Taken DEF RefusesOffer
  <1>1. UserOK' BY <1>0, UserUntouched DEF RefusesOffer
  <1>2. PeersOK' BY <1>0, PeersUntouched DEF RefusesOffer
  <1>3. NetOK' BY <1>0, <1>a DEF NetOK, RefusesOffer
  <1>4. DeskOK' BY <1>0, EntryClosed DEF RefusesOffer, DeskOK
  <1>5. SilentInv' BY <1>0, SilentUntouched DEF RefusesOffer
  <1>6. QueueInv' BY <1>0, <1>a, QueueTaken DEF RefusesOffer
  <1> QED BY <1>1, <1>2, <1>3, <1>4, <1>5, <1>6 DEF Inv

LEMMA TakesStopStep == ASSUME NEW s \in Sockets, Inv, TakesStop(s) PROVE Inv'
  <1>0. UserOK /\ PeersOK /\ NetOK /\ DeskOK /\ SilentInv /\ QueueInv BY DEF Inv
  <1>a. /\ up' \in [Sockets -> Seq(Message)] /\ Head(up[s]).type = "stop"
        /\ up[s] # <<>> /\ up' = [up EXCEPT ![s] = Tail(@)] /\ Head(up[s]) \in Message
        /\ Head(up[s]) = up[s][1] /\ 1 \in 1..Len(up[s])
    BY <1>0, Taken DEF TakesStop
  <1>1. UserOK' BY <1>0, UserUntouched DEF TakesStop
  <1>2. PeersOK' BY <1>0, PeersUntouched DEF TakesStop
  <1>3. NetOK' BY <1>0, <1>a DEF NetOK, TakesStop
  <1>4. DeskOK' BY <1>0, EntryClosed DEF TakesStop, DeskOK
  <1>5. SilentInv' BY <1>0, SilentUntouched DEF TakesStop
  <1>6. QueueInv' BY <1>0, <1>a, QueueTaken DEF TakesStop
  <1> QED BY <1>1, <1>2, <1>3, <1>4, <1>5, <1>6 DEF Inv

LEMMA AnswersStep == ASSUME NEW s \in Sockets, Inv, Answers(s) PROVE Inv'
  <1>0. UserOK /\ PeersOK /\ NetOK /\ DeskOK /\ SilentInv /\ QueueInv BY DEF Inv
  <1>a. making[s] \in Peers BY <1>0 DEF DeskOK, Answers
  <1>1. UserOK' BY <1>0, UserUntouched DEF Answers
  <1>2. PeersOK' BY <1>0, PeersUntouched DEF Answers
  <1>3. NetOK'
    <2>1. [type |-> "answer", session |-> making[s]] \in Event BY <1>a DEF Event
    <2>2. down' \in [Sockets -> Seq(Event)]
      BY <1>0, <1>a, <2>1, Told DEF Answers, NetOK
    <2> QED BY <1>0, <2>2 DEF NetOK, Answers
  <1>4. DeskOK' BY <1>0 DEF DeskOK, NeverRearmed, Answers
  <1>5. SilentInv' BY <1>0, SilentUntouched DEF Answers
  <1>6. QueueInv' BY <1>0, QueueUntouched DEF Answers, NetOK, PeersOK, Sockets
  <1> QED BY <1>1, <1>2, <1>3, <1>4, <1>5, <1>6 DEF Inv

LEMMA FailsToAnswerStep == ASSUME NEW s \in Sockets, Inv, FailsToAnswer(s) PROVE Inv'
  <1>0. UserOK /\ PeersOK /\ NetOK /\ DeskOK /\ SilentInv /\ QueueInv BY DEF Inv
  <1>1. UserOK' BY <1>0, UserUntouched DEF FailsToAnswer
  <1>2. PeersOK' BY <1>0, PeersUntouched DEF FailsToAnswer
  <1>3. NetOK' BY <1>0, NetUntouched DEF FailsToAnswer
  <1>4. DeskOK' BY <1>0, EntryClosed DEF FailsToAnswer, DeskOK
  <1>5. SilentInv' BY <1>0, SilentUntouched DEF FailsToAnswer
  <1>6. QueueInv' BY <1>0, QueueUntouched DEF FailsToAnswer, NetOK, PeersOK, Sockets
  <1> QED BY <1>1, <1>2, <1>3, <1>4, <1>5, <1>6 DEF Inv

\* The request at the head of the queue is older than the entry only if it comes
\* over an earlier socket than the entry's offer did.
LEMMA TakesRouteStep == ASSUME NEW s \in Sockets, Inv, TakesRoute(s) PROVE Inv'
  <1>0. UserOK /\ PeersOK /\ NetOK /\ DeskOK /\ SilentInv /\ QueueInv BY DEF Inv
  <1>a. /\ up' \in [Sockets -> Seq(Message)] /\ Head(up[s]).type = "route"
        /\ up[s] # <<>> /\ up' = [up EXCEPT ![s] = Tail(@)] /\ Head(up[s]) \in Message
        /\ Head(up[s]) = up[s][1] /\ 1 \in 1..Len(up[s])
    BY <1>0, Taken DEF TakesRoute
  <1> DEFINE m == Head(up[s])
  <1>b. m.made \in 0..MaxPeers /\ s # None BY <1>a DEF Message, Sockets, None
  <1>c. entry # None => entry \in Peers BY <1>0 DEF DeskOK
  <1>d. entry # None => m.made >= entry \/ s < armed[entry].offered
    <2>1. armed[entry].offered # None /\ up[s][1].made < entry /\ entry \in Peers
          => s < armed[entry].offered
      BY <1>0, <1>a DEF QueueInv
    <2> QED BY <1>0, <1>a, <1>b, <1>c, <2>1 DEF DeskOK, Peers
  <1>e. armed' \in [Peers -> [offered : Sockets \cup {None}, made : 0..MaxPeers,
                              socket : Sockets \cup {None}]]
        /\ \A q \in Peers : armed'[q].offered = armed[q].offered
                            /\ (q # entry => armed'[q] = armed[q])
    BY <1>0, <1>b DEF DeskOK, TakesRoute
  <1>1. UserOK' BY <1>0, UserUntouched DEF TakesRoute
  <1>2. PeersOK' BY <1>0, PeersUntouched DEF TakesRoute
  <1>3. NetOK'
    <2>1. down' \in [Sockets -> Seq(Event)]
      BY <1>0, <1>c, States, Told DEF NetOK, TakesRoute
    <2> QED BY <1>0, <1>a, <2>1 DEF NetOK, TakesRoute
  <1>4. DeskOK'
    <2>1. CASE UNCHANGED route /\ UNCHANGED armed
      BY <1>0, <2>1 DEF DeskOK, NeverRearmed, TakesRoute
    <2>2. CASE route' = route \ {entry} /\ UNCHANGED armed
      BY <1>0, <2>2 DEF DeskOK, NeverRearmed, TakesRoute
    <2>3. CASE /\ entry # None /\ sess[entry] = "open" /\ entry \in joined
               /\ route' = route \cup {entry}
               /\ armed' = [armed EXCEPT ![entry] =
                              [@ EXCEPT !.made = m.made, !.socket = s]]
      <3>1. armed'[entry].made = m.made /\ armed'[entry].socket = s
        BY <1>0, <1>c, <2>3 DEF DeskOK
      <3>2. route' \subseteq {q \in joined : sess[q] = "open"}
        BY <1>0, <1>c, <2>3 DEF DeskOK
      <3>3. NeverRearmed'
        BY <1>0, <1>b, <1>c, <1>d, <1>e, <2>3, <3>1 DEF DeskOK, NeverRearmed
      <3> QED BY <1>0, <1>e, <2>3, <3>2, <3>3 DEF DeskOK, TakesRoute
    <2> QED BY <2>1, <2>2, <2>3 DEF TakesRoute
  <1>5. SilentInv' BY <1>0, SilentUntouched DEF TakesRoute
  <1>6. QueueInv' BY <1>0, <1>a, <1>e, QueueTaken DEF TakesRoute
  <1> QED BY <1>1, <1>2, <1>3, <1>4, <1>5, <1>6 DEF Inv

LEMMA SessionConnectsStep == ASSUME NEW p \in Peers, Inv, SessionConnects(p) PROVE Inv'
  <1>0. UserOK /\ PeersOK /\ NetOK /\ DeskOK /\ SilentInv /\ QueueInv BY DEF Inv
  <1>1. UserOK' BY <1>0, UserUntouched DEF SessionConnects
  <1>2. PeersOK' BY <1>0, PeersUntouched DEF SessionConnects
  <1>3. NetOK'
    <2>1. [type |-> "state", state |-> "connected"] \in Event BY DEF Event
    <2> QED BY <1>0, <2>1, Told DEF NetOK, SessionConnects
  <1>4. DeskOK' BY <1>0 DEF DeskOK, NeverRearmed, SessionConnects
  <1>5. SilentInv' BY <1>0, SilentUntouched DEF SessionConnects
  <1>6. QueueInv' BY <1>0, QueueUntouched DEF SessionConnects, NetOK, PeersOK, Sockets
  <1> QED BY <1>1, <1>2, <1>3, <1>4, <1>5, <1>6 DEF Inv

LEMMA PublishesStep == ASSUME NEW p \in Peers, Inv, Publishes(p) PROVE Inv'
  <1>0. UserOK /\ PeersOK /\ NetOK /\ DeskOK /\ SilentInv /\ QueueInv BY DEF Inv
  <1>1. UserOK' BY <1>0, UserUntouched DEF Publishes
  <1>2. PeersOK' BY <1>0, PeersUntouched DEF Publishes
  <1>3. NetOK' BY <1>0, States, Told DEF NetOK, Publishes
  <1>4. DeskOK' BY <1>0, DeskUntouched DEF Publishes
  <1>5. SilentInv' BY <1>0, SilentUntouched DEF Publishes
  <1>6. QueueInv' BY <1>0, QueueUntouched DEF Publishes, NetOK, PeersOK, Sockets
  <1> QED BY <1>1, <1>2, <1>3, <1>4, <1>5, <1>6 DEF Inv

LEMMA SessionFailsStep == ASSUME NEW p \in Peers, Inv, SessionFails(p) PROVE Inv'
  <1>0. UserOK /\ PeersOK /\ NetOK /\ DeskOK /\ SilentInv /\ QueueInv BY DEF Inv
  <1>1. UserOK' BY <1>0, UserUntouched DEF SessionFails
  <1>2. PeersOK' BY <1>0, PeersUntouched DEF SessionFails
  <1>3. NetOK'
    <2>1. [type |-> "state", state |-> "failed"] \in Event BY DEF Event
    <2> QED BY <1>0, <2>1, Told DEF NetOK, SessionFails
  <1>4. DeskOK' BY <1>0 DEF DeskOK, NeverRearmed, SessionFails, SessionClose
  <1>5. SilentInv' BY <1>0, SilentUntouched DEF SessionFails
  <1>6. QueueInv' BY <1>0, QueueUntouched DEF SessionFails, NetOK, PeersOK, Sockets
  <1> QED BY <1>1, <1>2, <1>3, <1>4, <1>5, <1>6 DEF Inv

-----------------------------------------------------------------------------

LEMMA InitInv == Init => Inv
  <1> SUFFICES ASSUME Init PROVE Inv OBVIOUS
  <1> USE DEF Init, None
  <1>a. 0 \in 0..MaxStarts /\ 0 \in 0..MaxPeers OBVIOUS
  <1>1. UserOK BY <1>a DEF UserOK
  <1>2. PeersOK
    <2>1. /\ Idle \in [at : {"idle", "offering", "gathering"}, pc : Peers \cup {None}]
          /\ NotApplying \in [peer : Peers \cup {None}, session : Peers \cup {None}]
          /\ Idle.at = "idle"
      BY DEF Idle, NotApplying
    <2> QED BY <1>a, <2>1 DEF PeersOK
  <1>3. NetOK
    <2>1. 1 \in Sockets BY DEF Sockets
    <2>2. up \in [Sockets -> Seq(Message)] /\ down \in [Sockets -> Seq(Event)] OBVIOUS
    <2> QED BY <2>1, <2>2 DEF NetOK
  <1>4. DeskOK
    <2>1. NotArmed \in [offered : Sockets \cup {None}, made : 0..MaxPeers,
                        socket : Sockets \cup {None}]
      BY DEF NotArmed
    <2> QED BY <2>1 DEF DeskOK, NeverRearmed
  <1>5. SilentInv BY DEF SilentInv
  <1>6. QueueInv
    <2>1. \A s \in Sockets : up[s] = <<>> OBVIOUS
    <2>2. \A p \in Peers : armed[p].offered = None BY DEF NotArmed
    <2> QED BY <2>1, <2>2 DEF QueueInv
  <1> QED BY <1>1, <1>2, <1>3, <1>4, <1>5, <1>6 DEF Inv

LEMMA ServesStep == ASSUME Inv, NEW s \in Sockets, LoopEnds(s) \/ Serves(s) PROVE Inv'
  BY LoopEndsStep, RebindsStep, TakesOfferStep, RefusesOfferStep, AnswersStep,
     FailsToAnswerStep, TakesStopStep, TakesRouteStep
  DEF Serves

LEMMA NextInv == ASSUME Inv, Next PROVE Inv'
  <1>1. ASSUME NEW n \in Starts,
               AsksPermission(n) \/ Granted(n) \/ Denied(n) \/ TrackEnds(n)
        PROVE  Inv'
    BY <1>1, AsksPermissionStep, GrantedStep, DeniedStep, TrackEndsStep
  <1>2. ASSUME NEW p \in Peers, SessionConnects(p) \/ Publishes(p) \/ SessionFails(p)
        PROVE  Inv'
    BY <1>2, SessionConnectsStep, PublishesStep, SessionFailsStep
  <1>3. CASE NegOffers \/ NegSends \/ PressEnable \/ PressStop \/ PageReturns \/ TimerFires
    BY <1>3, NegOffersStep, NegSendsStep, PressEnableStep, PressStopStep, PageReturnsStep,
       TimerFiresStep
  <1>4. CASE PeerConnects \/ PeerLost \/ ReceivesAnswer \/ AnswerApplied \/ AnswerRejected
    BY <1>4, PeerConnectsStep, PeerLostStep, ReceivesAnswerStep, AnswerAppliedStep,
       AnswerRejectedStep
  <1>5. CASE ReceivesState \/ SocketLost \/ Reconnects \/ \E e \in BOOLEAN : PressRoute(e)
    BY <1>5, ReceivesStateStep, SocketLostStep, ReconnectsStep, PressRouteStep
  <1> QED BY <1>1, <1>2, <1>3, <1>4, <1>5, ServesStep DEF Next

LEMMA StutterInv == ASSUME Inv, UNCHANGED vars PROVE Inv'
  <1> USE DEF vars
  <1>1. UserOK' /\ PeersOK' /\ NetOK' /\ DeskOK' /\ SilentInv'
    BY UserUntouched, PeersUntouched, NetUntouched, DeskUntouched, SilentUntouched DEF Inv
  <1>2. QueueInv' BY DEF Inv, QueueInv
  <1> QED BY <1>1, <1>2 DEF Inv

\* The invariant holds for every bound of the model, in every interleaving of
\* the user, the browser, the network and the desktop.
THEOREM Invariance == Spec => []Inv
  <1>1. Inv /\ [Next]_vars => Inv' BY NextInv, StutterInv
  <1> QED BY InitInv, <1>1, PTL DEF Spec

\* Every peer but the present one is closed, at most one session is open, and no
\* route is requested that was not asked for of that session.
THEOREM Signalling == Spec => []SignallingInv
  <1>1. Inv => SignallingInv
    BY DEF Inv, UserOK, PeersOK, NetOK, DeskOK, SignallingInv, TypeOK
  <1> QED BY <1>1, Invariance, PTL

\* No recovery, answer or event undoes a stop.
THEOREM Stopped == Spec => []StopIsFinal
  <1>1. Inv => StopIsFinal BY DEF Inv, UserOK, SilentInv, StopIsFinal, None, Starts
  <1> QED BY <1>1, Invariance, PTL
=============================================================================
