-------------------------------- MODULE UdpRelay --------------------------------
(***************************************************************************)
(* Homework 3: a UDP server that passes the letters and the digits of what *)
(* one client sends to the other one (server.c), and its client, which     *)
(* sends an empty datagram first and goes on when it is answered, then has *)
(* a thread that sends lines and a thread that prints what arrives         *)
(* (client.c).  The network loses, duplicates and reorders datagrams.      *)
(*                                                                         *)
(* The array clients is on the stack and never initialised, so each slot   *)
(* starts as zeros, which the code takes for a free slot, or as rubbish,   *)
(* and bytes_sent has no value until something has been relayed.           *)
(***************************************************************************)
EXTENDS Integers, FiniteSetsExt

CONSTANTS
  Client,       \* each a host and a port that one process after another uses
  Zeros,        \* the content of a slot not in use
  Rubbish,      \* what else a slot can hold at first: no client's address
  MaxNet        \* bound on the datagrams under way when another is sent

ASSUME RelayAssumption == {Zeros, Rubbish} \cap Client = {} /\ MaxNet \in Nat

MAX_CLIENTS == 2
Slot == 0..(MAX_CLIENTS - 1)

\* A datagram to the server says nothing, or a text that process_message
\* accepts or not.  One to a client answers it, with nothing or with "Error",
\* or brings what another one has said: letters and digits, in two datagrams
\* that go the same way and are taken as one here.
Texts   == {"", "valid", "invalid"}
Replies == {"answer", "relayed"}

VARIABLES
  up,
  clients,
  bytes_sent,   \* "none" until line 116 has set it, then "some"
  requests,     \* [from, text] under way to the server
  replies,      \* [to, text, from] under way to a client; the client whose
                \* text it is, for whoever asks
  place,        \* of a client: "off", "probe", "run", "quit"
  fair,         \* history: no datagram lost on its way, no end of the server
  third         \* history: a client without a slot was heard

net  == <<requests, replies>>
vars == <<up, clients, bytes_sent, net, place, fair, third>>

Send(c, text) == requests' = requests \cup {[from |-> c, text |-> text]}

Init ==
  /\ up = FALSE /\ clients = [i \in Slot |-> Zeros] /\ bytes_sent = "none"
  /\ requests = {} /\ replies = {}
  /\ place = [c \in Client |-> "off"]
  /\ fair = TRUE /\ third = FALSE

(***************************************************************************)
(* The client.                                                             *)
(***************************************************************************)

Room == Cardinality(requests) + Cardinality(replies) < MaxNet

Launch(c) ==
  /\ place[c] = "off" /\ up /\ Room
  /\ Send(c, "")
  /\ place' = [place EXCEPT ![c] = "probe"]
  /\ UNCHANGED <<up, clients, bytes_sent, replies, fair, third>>

\* send_thread: a line, and with an empty one the end of the loop and close.
SendLine(c) ==
  /\ place[c] = "run" /\ Room
  /\ \E text \in Texts :
       /\ Send(c, text)
       /\ place' = [place EXCEPT ![c] = IF text = "" THEN "quit" ELSE "run"]
  /\ UNCHANGED <<up, clients, bytes_sent, replies, fair, third>>

\* Mutant of Receive: recv_thread leaves its loop only for an error.
ReceiveForever(c) ==
  \E m \in replies :
    /\ m.to = c
    /\ replies' = replies \ {m}
    /\ place' = [place EXCEPT ![c] = IF @ = "probe" THEN "run" ELSE @]
    /\ UNCHANGED <<up, clients, bytes_sent, requests, fair, third>>

\* Any datagram answers the probe.  recv_thread sits in recvfrom, which
\* close in the other thread does not end: it takes one more datagram, then
\* finds the socket closed, and the process ends.
Receive(c) ==
  \E m \in replies :
    /\ m.to = c
    /\ replies' = replies \ {m}
    /\ place' = [place EXCEPT ![c] = CASE @ = "probe" -> "run"
                                       [] @ = "quit"  -> "off"
                                       [] OTHER       -> @]
    /\ UNCHANGED <<up, clients, bytes_sent, requests, fair, third>>

\* recv_thread was between two calls of recvfrom when the socket was closed;
\* or the process is killed.
End(c) ==
  /\ place[c] # "off"
  /\ place' = [place EXCEPT ![c] = "off"]
  /\ UNCHANGED <<up, clients, bytes_sent, net, fair, third>>

(***************************************************************************)
(* The network loses a datagram on its way, and one for a socket that is   *)
(* not open is dropped.  A duplicate is a request that stays under way     *)
(* when it is received; bound: only with no reply under way.               *)
(***************************************************************************)

Lose ==
  /\ \/ \E m \in requests : requests' = requests \ {m} /\ UNCHANGED replies
     \/ \E m \in replies : replies' = replies \ {m} /\ UNCHANGED requests
  /\ fair' = FALSE
  /\ UNCHANGED <<up, clients, bytes_sent, place, third>>

Drop ==
  /\ \E m \in replies : place[m.to] = "off" /\ replies' = replies \ {m}
  /\ UNCHANGED <<up, clients, bytes_sent, requests, place, fair, third>>

(***************************************************************************)
(* The server.                                                             *)
(***************************************************************************)

Start ==
  /\ ~up /\ up' = TRUE
  /\ clients' \in [Slot -> {Zeros, Rubbish}]
  /\ UNCHANGED <<bytes_sent, net, place, fair, third>>

Die ==
  /\ up' = FALSE
  /\ clients' = [i \in Slot |-> Zeros] /\ bytes_sent' = "none"
  /\ fair' = FALSE /\ UNCHANGED third

Kill == up /\ Die /\ UNCHANGED <<net, place>>

Known(c) == {i \in Slot : clients[i] = c}
Unused   == {i \in Slot : clients[i] = Zeros}

\* Mutant of IndexOf: line 83 is missing.
IndexOfNew(c) == IF Known(c) = {} /\ Unused # {} THEN Min(Unused) ELSE 0

\* A client that finds no free slot is handled as the one of slot 0.
IndexOf(c) ==
  IF Known(c) # {} THEN Min(Known(c)) ELSE IF Unused # {} THEN Min(Unused) ELSE 0

\* The table with the sender in it, and the slot his text goes to.
Table(m) ==
  IF Known(m.from) = {} /\ Unused # {}
  THEN [clients EXCEPT ![IndexOf(m.from)] = m.from] ELSE clients

Peer(m) == Table(m)[MAX_CLIENTS - IndexOf(m.from) - 1]

\* recvfrom, and the search for the sender.
From(m) ==
  /\ up /\ m \in requests
  /\ requests' = requests \ {m} \/ (replies = {} /\ requests' = requests)
  /\ clients' = Table(m)
  /\ third' = (third \/ (Known(m.from) = {} /\ Unused = {}))

Answer(m) == replies' = replies \cup {[to |-> m.from, text |-> "answer", from |-> m.from]}

HandleEmpty(m) ==
  /\ From(m) /\ m.text = ""
  /\ Answer(m)
  /\ UNCHANGED <<up, bytes_sent, place, fair>>

\* Mutant of HandleAlone: lines 104-106 are missing.
HandleAloneSends(m) ==
  /\ From(m) /\ m.text # "" /\ Peer(m) = Zeros
  /\ bytes_sent' = "some" /\ UNCHANGED <<up, replies, place, fair>>

HandleAlone(m) ==
  /\ From(m) /\ m.text # "" /\ Peer(m) = Zeros
  /\ UNCHANGED <<up, bytes_sent, replies, place, fair>>

\* What line 108 sends is not what line 110 tests.
HandleInvalid(m) ==
  /\ m.text = "invalid" /\ Peer(m) # Zeros
  /\ \/ From(m) /\ UNCHANGED <<up, bytes_sent, fair>>
     \/ up /\ m \in requests /\ bytes_sent = "none" /\ Die /\ requests' = requests \ {m}
  /\ Answer(m)
  /\ UNCHANGED place

\* What goes to a slot of rubbish goes nowhere, or fails.
HandleValid(m) ==
  /\ m.text = "valid" /\ Peer(m) # Zeros
  /\ \/ /\ From(m) /\ bytes_sent' = "some"
        /\ replies' = replies \cup
             (IF Peer(m) = Rubbish THEN {} ELSE {[to |-> Peer(m), text |-> "relayed", from |-> m.from]})
        /\ UNCHANGED <<up, fair>>
     \/ /\ up /\ m \in requests /\ Peer(m) = Rubbish
        /\ Die /\ requests' = requests \ {m} /\ UNCHANGED replies
  /\ UNCHANGED place

Handle(m) == HandleEmpty(m) \/ HandleAlone(m) \/ HandleInvalid(m) \/ HandleValid(m)

Next ==
  \/ Start \/ Kill \/ Lose \/ Drop
  \/ \E m \in requests : Handle(m)
  \/ \E c \in Client : Launch(c) \/ SendLine(c) \/ Receive(c) \/ End(c)

\* The server takes whatever is in the queue of its socket, and a process in
\* recvfrom returns when there is something.  No more is needed than that the
\* empty datagrams have their turn.
Spec     == Init /\ [][Next]_vars
FairSpec == /\ Spec
            /\ \A c \in Client : WF_vars(Handle([from |-> c, text |-> ""])) /\ WF_vars(Receive(c))

(***************************************************************************)
(* Properties.                                                             *)
(***************************************************************************)

\* The variables keep their types, and no text has been relayed before both
\* slots were taken (lines 104-106).
TypeOK ==
  /\ up \in BOOLEAN /\ fair \in BOOLEAN /\ third \in BOOLEAN
  /\ clients \in [Slot -> Client \cup {Zeros, Rubbish}]
  /\ bytes_sent \in {"none", "some"}
  /\ requests \subseteq [from : Client, text : Texts]
  /\ replies \subseteq [to : Client, text : Replies, from : Client]
  /\ place \in [Client -> {"off", "probe", "run", "quit"}]
  /\ bytes_sent = "some" => Zeros \notin {clients[i] : i \in Slot}

\* Nobody's letters and digits come back to him, and as long as only two
\* clients were heard and the server lives they pass between these two,
\* however datagrams are lost, repeated and reordered (lines 79-97, 116-126).
RelayToOther ==
  \A m \in replies :
    m.text = "relayed" =>
      /\ m.to # m.from
      /\ fair /\ ~third => {clients[i] : i \in Slot} = {m.to, m.from}

\* A client that asks whether the server is alive is answered, and one that
\* ends finds its way out of recvfrom by the echo of its last, empty line,
\* unless a datagram is lost or the server ends (client.c:66-72, 130-142).
ClientEnds ==
  \A c \in Client :
    place[c] \in {"probe", "quit"} ~> place[c] \in {"run", "off"} \/ ~fair

=============================================================================
