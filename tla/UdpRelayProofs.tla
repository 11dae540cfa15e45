----------------------------- MODULE UdpRelayProofs -----------------------------
(***************************************************************************)
(* Proofs about UdpRelay, for every set of clients and however many        *)
(* datagrams are under way.                                                *)
(***************************************************************************)
EXTENDS UdpRelay, TLAPS

LEMMA SlotIs == Slot = {0, 1} /\ MAX_CLIENTS = 2
BY DEF Slot, MAX_CLIENTS

\* The first of a set of slots is one of them.
LEMMA FirstSlot ==
  ASSUME NEW S \in SUBSET Slot, S # {}
  PROVE  Min(S) \in S
<1>1. \E x \in S : \A y \in S : x <= y
  <2>1. CASE 0 \in S
    BY <2>1, SlotIs
  <2>2. CASE 0 \notin S
    <3>1. S = {1}
      BY <2>2, SlotIs
    <3> QED
      BY <3>1
  <2> QED
    BY <2>1, <2>2
<1> QED
  BY <1>1 DEF Min

LEMMA BothSlots == \A f : {f[i] : i \in Slot} = {f[0], f[1]}
BY SlotIs

Addresses == Client \cup {Zeros, Rubbish}

(***************************************************************************)
(* What the search of lines 79-97 makes of the table: the sender is in it, *)
(* or is put into a free slot, or finds none and is taken for the client   *)
(* of slot 0.                                                              *)
(***************************************************************************)
Found(m) ==
  \E i \in Slot :
    clients[i] = m.from /\ IndexOf(m.from) = i /\ Table(m) = clients /\ Peer(m) = clients[1 - i]

Placed(m) ==
  /\ \A j \in Slot : clients[j] # m.from
  /\ \E i \in Slot :
       /\ clients[i] = Zeros /\ IndexOf(m.from) = i
       /\ Table(m) = [clients EXCEPT ![i] = m.from]
       /\ Peer(m) = clients[1 - i]

Mistaken(m) ==
  /\ \A j \in Slot : clients[j] \notin {m.from, Zeros}
  /\ Known(m.from) = {} /\ Unused = {}
  /\ Table(m) = clients /\ Peer(m) = clients[1]

LEMMA SearchCases ==
  ASSUME clients \in [Slot -> Addresses], NEW m
  PROVE  Found(m) \/ Placed(m) \/ Mistaken(m)
<1>1. CASE Known(m.from) # {}
  <2>1. Min(Known(m.from)) \in Known(m.from)
    BY <1>1, FirstSlot DEF Known
  <2>2. IndexOf(m.from) \in Slot /\ clients[IndexOf(m.from)] = m.from /\ Table(m) = clients
    BY <1>1, <2>1 DEF IndexOf, Table, Known
  <2>3. Peer(m) = clients[1 - IndexOf(m.from)]
    BY <2>2, SlotIs DEF Peer
  <2> QED
    BY <2>2, <2>3 DEF Found
<1>2. CASE Known(m.from) = {} /\ Unused # {}
  <2>1. Min(Unused) \in Unused
    BY <1>2, FirstSlot DEF Unused
  <2>2. /\ IndexOf(m.from) \in Slot /\ clients[IndexOf(m.from)] = Zeros
        /\ Table(m) = [clients EXCEPT ![IndexOf(m.from)] = m.from]
    BY <1>2, <2>1 DEF IndexOf, Table, Unused
  <2>3. \A j \in Slot : clients[j] # m.from
    BY <1>2 DEF Known
  <2>4. Peer(m) = clients[1 - IndexOf(m.from)]
    BY <2>2, SlotIs DEF Peer
  <2> QED
    BY <2>2, <2>3, <2>4 DEF Placed
<1>3. CASE Known(m.from) = {} /\ Unused = {}
  <2>1. Table(m) = clients /\ IndexOf(m.from) = 0
    BY <1>3 DEF Table, IndexOf
  <2>2. Peer(m) = clients[1]
    BY <2>1, SlotIs DEF Peer
  <2>3. \A j \in Slot : clients[j] \notin {m.from, Zeros}
    BY <1>3 DEF Known, Unused
  <2> QED
    BY <1>3, <2>1, <2>2, <2>3 DEF Mistaken
<1> QED
  BY <1>1, <1>2, <1>3

-----------------------------------------------------------------------------
(***************************************************************************)
(* The inductive invariant: no client has two slots, and two slots that    *)
(* are taken keep their clients, whoever asks.                             *)
(***************************************************************************)

OneSlotEach == clients[0] = clients[1] => clients[0] \notin Client

EmptyWhenDown == ~up => clients = [i \in Slot |-> Zeros]

RelayInv == TypeOK /\ OneSlotEach /\ EmptyWhenDown /\ RelayToOther

LEMMA RelayInit == Init => RelayInv
BY SlotIs, RelayAssumption DEF Init, RelayInv, TypeOK, OneSlotEach, EmptyWhenDown, RelayToOther

LEMMA DieInv ==
  ASSUME RelayInv, Die, requests' \subseteq requests, UNCHANGED place,
         replies' \subseteq replies \cup [to : Client, text : {"answer"}, from : Client]
  PROVE  RelayInv'
<1>1. TypeOK'
  BY DEF Die, RelayInv, TypeOK, Replies
<1>2. OneSlotEach'
  BY SlotIs, RelayAssumption DEF Die, OneSlotEach
<1>3. RelayToOther'
  BY DEF RelayInv, RelayToOther, Die
<1>4. EmptyWhenDown'
  BY DEF Die, EmptyWhenDown
<1> QED
  BY <1>1, <1>2, <1>3, <1>4 DEF RelayInv

\* The table after the search, and what it says of a text passed on.
LEMMA FromTable ==
  ASSUME RelayInv, NEW m \in requests, From(m)
  PROVE  /\ m.from \in Client
         /\ clients' \in [Slot -> Addresses] /\ OneSlotEach'
         /\ requests' \subseteq requests
         /\ third => third'
         /\ Zeros \notin {clients[i] : i \in Slot} => clients' = clients
         /\ Peer(m) # Zeros => Zeros \notin {clients'[i] : i \in Slot}
         /\ Peer(m) # m.from
         /\ Peer(m) \in Client => third' \/ {clients'[i] : i \in Slot} = {Peer(m), m.from}
<1>1. m.from \in Client /\ clients \in [Slot -> Addresses] /\ OneSlotEach
  BY DEF RelayInv, TypeOK, Addresses
<1>2. m.from # Zeros /\ m.from # Rubbish
  BY <1>1, RelayAssumption
<1>3. clients' = Table(m) /\ third' = (third \/ (Known(m.from) = {} /\ Unused = {}))
  BY DEF From
<1>4. requests' \subseteq requests
  BY DEF From
<1>b. {clients[i] : i \in Slot} = {clients[0], clients[1]} /\ {clients'[i] : i \in Slot} = {clients'[0], clients'[1]}
  BY BothSlots
<1>5. CASE Found(m)
  <2>1. PICK i \in Slot : clients[i] = m.from /\ Table(m) = clients /\ Peer(m) = clients[1 - i]
    BY <1>5 DEF Found
  <2>2. clients' = clients
    BY <1>3, <2>1
  <2>3. Peer(m) # m.from
    BY <1>1, <2>1, SlotIs DEF OneSlotEach
  <2>4. {clients'[j] : j \in Slot} = {Peer(m), m.from}
    BY <1>b, <2>1, <2>2, SlotIs
  <2>5. Peer(m) # Zeros => Zeros \notin {clients'[j] : j \in Slot}
    BY <1>2, <2>4
  <2> QED
    BY <1>1, <1>3, <1>4, <2>2, <2>3, <2>4, <2>5 DEF OneSlotEach
<1>6. CASE Placed(m)
  <2>1. PICK i \in Slot : /\ clients[i] = Zeros /\ Table(m) = [clients EXCEPT ![i] = m.from]
                          /\ Peer(m) = clients[1 - i]
    BY <1>6 DEF Placed
  <2>2. clients' \in [Slot -> Addresses] /\ clients'[i] = m.from /\ clients'[1 - i] = Peer(m)
    BY <1>1, <1>3, <2>1, SlotIs DEF Addresses
  <2>3. Peer(m) # m.from
    BY <1>6, <2>1, SlotIs DEF Placed
  <2>4. {clients'[j] : j \in Slot} = {Peer(m), m.from}
    BY <1>b, <2>2, SlotIs
  <2>5. Peer(m) # Zeros => Zeros \notin {clients'[j] : j \in Slot}
    BY <1>2, <2>4
  <2>6. OneSlotEach'
    BY <2>2, <2>3, SlotIs DEF OneSlotEach
  <2>7. Zeros \in {clients[j] : j \in Slot}
    BY <2>1
  <2> QED
    BY <1>1, <1>3, <1>4, <2>2, <2>3, <2>4, <2>5, <2>6, <2>7
<1>7. CASE Mistaken(m)
  BY <1>1, <1>2, <1>3, <1>4, <1>7, SlotIs DEF Mistaken, OneSlotEach
<1> QED
  BY <1>1, <1>5, <1>6, <1>7, SearchCases

\* A text on its way to a client keeps its meaning while the table keeps its
\* two clients.
LEMMA FromKeeps ==
  ASSUME RelayInv, NEW m \in requests, From(m), UNCHANGED <<up, place, fair>>,
         bytes_sent' \in {"none", "some"},
         bytes_sent' = "some" => bytes_sent = "some" \/ Peer(m) # Zeros,
         NEW S \in SUBSET [to : Client, text : Replies, from : Client],
         replies' = replies \cup S,
         \A r \in S : r.text = "relayed" => r.to = Peer(m) /\ r.from = m.from
  PROVE  RelayInv'
<1>1. /\ m.from \in Client /\ clients' \in [Slot -> Addresses] /\ OneSlotEach'
      /\ requests' \subseteq requests
      /\ third => third'
  BY FromTable
<1>2. /\ Zeros \notin {clients[i] : i \in Slot} => clients' = clients
      /\ Peer(m) # Zeros => Zeros \notin {clients'[i] : i \in Slot}
  BY FromTable
<1>3. /\ Peer(m) # m.from
      /\ Peer(m) \in Client => third' \/ {clients'[i] : i \in Slot} = {Peer(m), m.from}
  BY FromTable
<1>4. TypeOK /\ RelayToOther
  BY DEF RelayInv
<1>5. third' \in BOOLEAN
  BY <1>4 DEF From, TypeOK
<1>6. TypeOK'
  BY <1>1, <1>2, <1>4, <1>5 DEF TypeOK, Addresses
<1>7. RelayToOther'
  <2> SUFFICES ASSUME NEW r \in replies', r.text = "relayed"
               PROVE  /\ r.to # r.from
                      /\ fair' /\ ~third' => {clients'[i] : i \in Slot} = {r.to, r.from}
    BY DEF RelayToOther
  <2>1. CASE r \in replies
    <3>1. r.to # r.from /\ (fair /\ ~third => {clients[i] : i \in Slot} = {r.to, r.from})
      BY <1>4, <2>1 DEF RelayToOther
    <3>2. r.to # Zeros /\ r.from # Zeros
      BY <1>4, <2>1, RelayAssumption DEF TypeOK
    <3> QED
      BY <1>1, <1>2, <3>1, <3>2
  <2>2. CASE r \in S
    BY <1>3, <2>2
  <2> QED
    BY <2>1, <2>2
<1>8. EmptyWhenDown'
  BY DEF From, EmptyWhenDown
<1> QED
  BY <1>1, <1>6, <1>7, <1>8 DEF RelayInv

LEMMA HandleInv ==
  ASSUME RelayInv, NEW m \in requests, Handle(m)
  PROVE  RelayInv'
<1> DEFINE answer == [to |-> m.from, text |-> "answer", from |-> m.from]
<1>1. m.from \in Client /\ m.text \in Texts /\ bytes_sent \in {"none", "some"}
  BY DEF RelayInv, TypeOK
<1>2. answer \in [to : Client, text : Replies, from : Client]
  BY <1>1 DEF Replies
<1>3. ASSUME From(m), Answer(m), UNCHANGED <<up, bytes_sent, place, fair>>
      PROVE  RelayInv'
  <2> DEFINE S == {answer}
  <2>1. replies' = replies \cup S
    BY <1>3 DEF Answer
  <2>2. S \subseteq [to : Client, text : Replies, from : Client]
    BY <1>2
  <2>3. \A r \in S : r.text = "relayed" => r.to = Peer(m) /\ r.from = m.from
    OBVIOUS
  <2> HIDE DEF S
  <2> QED
    BY <1>1, <1>3, <2>1, <2>2, <2>3, FromKeeps
<1>4. CASE HandleEmpty(m)
  BY <1>3, <1>4 DEF HandleEmpty
<1>5. CASE HandleAlone(m)
  <2> DEFINE S == {}
  <2>1. From(m) /\ replies' = replies \cup S /\ UNCHANGED <<up, bytes_sent, place, fair>>
    BY <1>5 DEF HandleAlone
  <2>2. /\ S \subseteq [to : Client, text : Replies, from : Client]
        /\ \A r \in S : r.text = "relayed" => r.to = Peer(m) /\ r.from = m.from
    OBVIOUS
  <2> HIDE DEF S
  <2> QED
    BY <1>1, <2>1, <2>2, FromKeeps
<1>6. CASE HandleInvalid(m)
  <2>1. CASE From(m) /\ UNCHANGED <<up, bytes_sent, fair>>
    BY <1>3, <1>6, <2>1 DEF HandleInvalid
  <2>2. CASE Die /\ requests' = requests \ {m}
    <3>1. replies' = replies \cup {answer} /\ UNCHANGED place
      BY <1>6 DEF HandleInvalid, Answer
    <3>2. answer \in [to : Client, text : {"answer"}, from : Client]
      BY <1>1
    <3> QED
      BY <2>2, <3>1, <3>2, DieInv
  <2> QED
    BY <1>6, <2>1, <2>2 DEF HandleInvalid
<1>7. CASE HandleValid(m)
  <2>1. CASE Die
    <3>1. requests' \subseteq requests /\ replies' = replies /\ UNCHANGED place
      BY <1>7, <2>1 DEF HandleValid, Die
    <3> QED
      BY <2>1, <3>1, DieInv
  <2>2. CASE ~Die
    <3> DEFINE S == IF Peer(m) = Rubbish THEN {}
                    ELSE {[to |-> Peer(m), text |-> "relayed", from |-> m.from]}
    <3>1. /\ From(m) /\ bytes_sent' = "some" /\ replies' = replies \cup S
          /\ UNCHANGED <<up, place, fair>> /\ Peer(m) # Zeros
      BY <1>7, <2>2 DEF HandleValid
    <3>2. Peer(m) \in Addresses
      BY SearchCases, <1>1, SlotIs DEF Found, Placed, Mistaken, RelayInv, TypeOK, Addresses
    <3>3. S \subseteq [to : Client, text : Replies, from : Client]
      BY <1>1, <3>1, <3>2 DEF Addresses, Replies
    <3>4. \A r \in S : r.text = "relayed" => r.to = Peer(m) /\ r.from = m.from
      OBVIOUS
    <3> HIDE DEF S
    <3> QED
      BY <3>1, <3>3, <3>4, FromKeeps
  <2> QED
    BY <2>1, <2>2
<1> QED
  BY <1>4, <1>5, <1>6, <1>7 DEF Handle

\* What a client does, and a loss, leaves the server and its answers.
LEMMA ClientInv ==
  ASSUME RelayInv, UNCHANGED <<up, clients, bytes_sent, fair, third>>,
         requests' \subseteq [from : Client, text : Texts],
         replies' \subseteq replies,
         place' \in [Client -> {"off", "probe", "run", "quit"}]
  PROVE  RelayInv'
<1>1. TypeOK'
  BY DEF RelayInv, TypeOK
<1>2. OneSlotEach' /\ EmptyWhenDown'
  BY DEF RelayInv, OneSlotEach, EmptyWhenDown
<1>3. RelayToOther'
  BY DEF RelayInv, RelayToOther
<1> QED
  BY <1>1, <1>2, <1>3 DEF RelayInv

LEMMA RequestType ==
  ASSUME TypeOK, NEW c \in Client, NEW text \in Texts, Send(c, text)
  PROVE  requests' \subseteq [from : Client, text : Texts]
<1>1. [from |-> c, text |-> text] \in [from : Client, text : Texts]
  OBVIOUS
<1> QED
  BY <1>1 DEF Send, TypeOK

LEMMA RelayStep == RelayInv /\ [Next]_vars => RelayInv'
<1> SUFFICES ASSUME RelayInv, [Next]_vars
             PROVE  RelayInv'
  OBVIOUS
<1>t. TypeOK /\ OneSlotEach /\ EmptyWhenDown /\ RelayToOther
  BY DEF RelayInv
<1>1. CASE Start
  <2>1. clients' \in [Slot -> {Zeros, Rubbish}] /\ ~up
    BY <1>1 DEF Start
  <2>2. OneSlotEach'
    BY <2>1, SlotIs, RelayAssumption DEF OneSlotEach
  <2>3. \A i \in Slot : clients[i] = Zeros
    BY <1>t, <2>1 DEF EmptyWhenDown
  <2>4. TypeOK'
    BY <1>1, <1>t, <2>1, <2>3, SlotIs DEF TypeOK, Start, net
  <2>5. RelayToOther'
    <3> SUFFICES ASSUME NEW m \in replies, m.text = "relayed", fair, ~third
                 PROVE  FALSE
      BY <1>1, <1>t DEF Start, net, RelayToOther
    <3>1. m.to \in {clients[i] : i \in Slot} /\ m.to \in Client
      BY <1>t DEF RelayToOther, TypeOK
    <3> QED
      BY <2>3, <3>1, RelayAssumption
  <2> QED
    BY <1>1, <2>2, <2>4, <2>5 DEF RelayInv, Start, EmptyWhenDown
<1>2. CASE Kill
  <2>1. Die /\ UNCHANGED <<requests, replies, place>>
    BY <1>2 DEF Kill, net
  <2> QED
    BY <2>1, DieInv
<1>3. CASE Lose
  <2>1. requests' \subseteq requests /\ replies' \subseteq replies /\ fair' = FALSE
    BY <1>3 DEF Lose
  <2>2. UNCHANGED <<up, clients, bytes_sent, place, third>>
    BY <1>3 DEF Lose
  <2> QED
    BY <1>t, <2>1, <2>2 DEF RelayInv, TypeOK, OneSlotEach, EmptyWhenDown, RelayToOther
<1>p. place \in [Client -> {"off", "probe", "run", "quit"}] /\ requests \subseteq [from : Client, text : Texts]
  BY <1>t DEF TypeOK
<1>4. CASE Drop
  <2>1. replies' \subseteq replies /\ UNCHANGED <<up, clients, bytes_sent, requests, place, fair, third>>
    BY <1>4 DEF Drop
  <2> QED
    BY <1>p, <2>1, ClientInv
<1>5. ASSUME NEW c \in Client, Launch(c)
      PROVE  RelayInv'
  <2>1. requests' \subseteq [from : Client, text : Texts]
    BY <1>5, <1>t, RequestType DEF Launch, Texts
  <2>2. place' \in [Client -> {"off", "probe", "run", "quit"}]
    BY <1>5, <1>p DEF Launch
  <2>3. replies' \subseteq replies /\ UNCHANGED <<up, clients, bytes_sent, fair, third>>
    BY <1>5 DEF Launch
  <2> QED
    BY <2>1, <2>2, <2>3, ClientInv
<1>6. ASSUME NEW c \in Client, SendLine(c)
      PROVE  RelayInv'
  <2>1. PICK text \in Texts :
          Send(c, text) /\ place' = [place EXCEPT ![c] = IF text = "" THEN "quit" ELSE "run"]
    BY <1>6 DEF SendLine
  <2>2. requests' \subseteq [from : Client, text : Texts]
    BY <1>t, <2>1, RequestType
  <2>3. place' \in [Client -> {"off", "probe", "run", "quit"}]
    BY <1>p, <2>1
  <2>4. replies' \subseteq replies /\ UNCHANGED <<up, clients, bytes_sent, fair, third>>
    BY <1>6 DEF SendLine
  <2> QED
    BY <2>2, <2>3, <2>4, ClientInv
<1>7. ASSUME NEW c \in Client, Receive(c)
      PROVE  RelayInv'
  <2>1. place' \in [Client -> {"off", "probe", "run", "quit"}]
    BY <1>7, <1>p DEF Receive
  <2>2. replies' \subseteq replies /\ UNCHANGED <<up, clients, bytes_sent, requests, fair, third>>
    BY <1>7 DEF Receive
  <2> QED
    BY <1>p, <2>1, <2>2, ClientInv
<1>8. ASSUME NEW c \in Client, End(c)
      PROVE  RelayInv'
  <2>1. place' \in [Client -> {"off", "probe", "run", "quit"}]
    BY <1>8, <1>p DEF End
  <2>2. UNCHANGED <<up, clients, bytes_sent, requests, replies, fair, third>>
    BY <1>8 DEF End, net
  <2> QED
    BY <1>p, <2>1, <2>2, ClientInv
<1>9. ASSUME NEW m \in requests, Handle(m)
      PROVE  RelayInv'
  BY <1>9, HandleInv
<1>10. CASE UNCHANGED vars
  BY <1>10, <1>t DEF vars, net, RelayInv, TypeOK, OneSlotEach, EmptyWhenDown, RelayToOther
<1> QED
  BY <1>1, <1>2, <1>3, <1>4, <1>5, <1>6, <1>7, <1>8, <1>9, <1>10 DEF Next

LEMMA RelayAlways == Spec => []RelayInv
BY RelayInit, RelayStep, PTL DEF Spec

\* The variables keep their types, and no text has been relayed before both
\* slots were taken (lines 104-106).
THEOREM RelayTypes == Spec => []TypeOK
<1>1. RelayInv => TypeOK
  BY DEF RelayInv
<1> QED
  BY <1>1, RelayAlways, PTL

\* Nobody's text comes back to him, and of any number of clients the first
\* two keep the relay to themselves (lines 79-97, 116-126), whatever the
\* network does with their datagrams.
THEOREM RelayStaysWithTwo == Spec => []RelayToOther
<1>1. RelayInv => RelayToOther
  BY DEF RelayInv
<1> QED
  BY <1>1, RelayAlways, PTL
=============================================================================
