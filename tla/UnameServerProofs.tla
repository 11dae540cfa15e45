---------------------------- MODULE UnameServerProofs ----------------------------
(***************************************************************************)
(* Proofs about UnameServer, for every number of clients, of descriptors   *)
(* and of entries of the arrays.                                           *)
(***************************************************************************)
EXTENDS UnameServer, SequenceTheorems, FiniteSetTheorems, TLAPS

\* A nonempty set of numbers has a least one.
LEMMA LeastNat ==
  ASSUME NEW T, T \subseteq Nat, T # {}
  PROVE  \E m \in T : \A n \in T : m <= n
<1> DEFINE Below(n) == 0..n
           Segments == {Below(n) : n \in T}
<1>1. Segments \subseteq FiniteSubsetsOf(Nat)
  <2> SUFFICES ASSUME NEW n \in T
               PROVE  Below(n) \in FiniteSubsetsOf(Nat)
    OBVIOUS
  <2>1. IsFiniteSet(0..n)
    BY FS_Interval
  <2> QED
    BY <2>1 DEF FiniteSubsetsOf
<1>2. IsWellFoundedOn(StrictSubsetOrdering(Nat), FiniteSubsetsOf(Nat))
  BY FS_StrictSubsetOrderingWellFounded
<1>3. Segments # {}
  OBVIOUS
<1>4. \E x \in Segments : \A y \in Segments : <<y, x>> \notin StrictSubsetOrdering(Nat)
  <2> HIDE DEF Segments
  <2> QED
    BY <1>1, <1>2, <1>3, WFMin
<1>5. PICK m \in T : \A n \in T : <<Below(n), Below(m)>> \notin StrictSubsetOrdering(Nat)
  BY <1>4
<1>6. ASSUME NEW n \in T, n < m
      PROVE  FALSE
  <2>1. Below(n) \subseteq Below(m) /\ m \in Below(m) /\ m \notin Below(n)
    BY <1>6
  <2>2. Below(n) # Below(m)
    BY <2>1
  <2>3. Below(n) \subseteq Nat /\ Below(m) \subseteq Nat
    OBVIOUS
  <2> HIDE DEF Below
  <2>4. <<Below(n), Below(m)>> \in StrictSubsetOrdering(Nat)
    BY <2>1, <2>2, <2>3 DEF StrictSubsetOrdering
  <2> QED
    BY <2>4, <1>5
<1> QED
  BY <1>6

LEMMA MinProperty ==
  ASSUME NEW T, T \subseteq Nat, T # {}
  PROVE  Min(T) \in T /\ \A n \in T : Min(T) <= n
BY LeastNat DEF Min

LEMMA FdFacts ==
  /\ MAX_CLIENTS \in Nat \ {0} /\ ServerFd \in Nat /\ Fd \subseteq Nat
  /\ IsFiniteSet(Fd) /\ Cardinality(Fd) > MAX_CLIENTS
  /\ ServerFd \notin Fd /\ None \notin Fd /\ \A fd \in Fd : fd > ServerFd
BY UnameAssumption DEF None

-----------------------------------------------------------------------------
(***************************************************************************)
(* The arrays.                                                             *)
(***************************************************************************)

\* Moving the last entry to index j drops the entry j.
LEMMA MoveProperties ==
  ASSUME NEW S, NEW s \in Seq(S), NEW j \in 1..Len(s)
  PROVE  /\ Move(s, j) \in Seq(S) /\ Len(Move(s, j)) = Len(s) - 1
         /\ \A k \in 1..(Len(s) - 1) : Move(s, j)[k] = IF k = j THEN s[Len(s)] ELSE s[k]
<1>1. Len(s) \in Nat /\ s[Len(s)] \in S
  BY LenProperties, ElementOfSeq
<1> DEFINE t == [s EXCEPT ![j] = s[Len(s)]]
           m == Len(t) - 1
<1>2. t \in Seq(S) /\ Len(t) = Len(s) /\ \A k \in 1..Len(s) : t[k] = IF k = j THEN s[Len(s)] ELSE s[k]
  BY <1>1, ExceptSeq
<1>3. Move(s, j) = SubSeq(t, 1, m)
  BY DEF Move, Front, Last
<1> HIDE DEF t
<1>4. 1 \in Int /\ m \in Int /\ \A k \in 1..m : t[k] \in S
  <2>1. \A k \in 1..Len(t) : t[k] \in S
    BY <1>2, ElementOfSeq
  <2> QED
    BY <1>1, <1>2, <2>1
<1>5. /\ SubSeq(t, 1, m) \in Seq(S)
      /\ Len(SubSeq(t, 1, m)) = IF 1 <= m THEN m - 1 + 1 ELSE 0
      /\ \A k \in 1..(m - 1 + 1) : SubSeq(t, 1, m)[k] = t[1 + k - 1]
  <2> HIDE DEF m
  <2> QED
    BY <1>4, SubSeqProperties
<1> QED
  BY <1>1, <1>2, <1>3, <1>5

\* Entries with different values are no more than the values.
LEMMA EntriesBound ==
  ASSUME NEW S, NEW s \in Seq(S), IsInjective(s), NEW T, IsFiniteSet(T),
         NEW J, J \subseteq 1..Len(s), \A j \in J : s[j] \in T
  PROVE  IsFiniteSet(J) /\ Cardinality(J) <= Cardinality(T)
<1> DEFINE f == [j \in J |-> s[j]]
<1>1. f \in [J -> T]
  OBVIOUS
<1>2. IsInjective(f)
  BY LenProperties DEF IsInjective
<1>3. f \in Injection(J, T)
  BY <1>1, <1>2 DEF Injection
<1> QED
  BY <1>3, FS_Injection

\* The values of a sequence are no more than its entries.
LEMMA ValuesBound ==
  ASSUME NEW S, NEW s \in Seq(S)
  PROVE  /\ IsFiniteSet({s[j] : j \in 1..Len(s)})
         /\ Cardinality({s[j] : j \in 1..Len(s)}) <= Len(s)
<1> DEFINE T == {s[j] : j \in 1..Len(s)}
           J == 1..Len(s)
<1>1. Len(s) \in Nat /\ s \in [J -> T]
  BY LenProperties
<1>2. s \in Surjection(J, T)
  BY <1>1 DEF Surjection
<1>3. IsFiniteSet(J) /\ Cardinality(J) = Len(s)
  BY <1>1, FS_Interval
<1> HIDE DEF T, J
<1>4. IsFiniteSet(T) /\ Cardinality(T) <= Cardinality(J)
  BY <1>2, <1>3, FS_Surjection
<1> QED
  BY <1>3, <1>4 DEF T, J

-----------------------------------------------------------------------------
(***************************************************************************)
(* The inductive invariant.                                                *)
(***************************************************************************)

Entry == 1..connected_clients

\* The arrays and the kernel's table: each entry has the descriptor of the
\* client it names, and each connection has an entry.
TableInv ==
  /\ client_sockets \in Seq(Fd) /\ client_names \in Seq(Peer)
  /\ Len(client_names) = connected_clients /\ connected_clients <= MAX_CLIENTS
  /\ fdOf \in [Peer -> Fd \cup {None}]
  /\ IsInjective(client_sockets)
  /\ \A j \in Entry : fdOf[client_names[j]] = client_sockets[j]
  /\ \A p \in Peer : fdOf[p] # None => \E j \in Entry : client_names[j] = p
  /\ read_fds = {client_sockets[j] : j \in Entry} \cup {ServerFd}
  /\ max_fd \in Fd \cup {ServerFd} /\ \A fd \in read_fds : fd <= max_fd

\* The backlog: each client that waits is there once and has no descriptor.
BacklogInv ==
  /\ backlog \in Seq(Peer) /\ IsInjective(backlog)
  /\ \A k \in 1..Len(backlog) : fdOf[backlog[k]] = None

\* A pass counts at least the entries it has still to handle.
PassInv ==
  /\ at \in {"select", "accept", "scan", "down", "undefined"}
  /\ i \in 1..(MAX_CLIENTS + 1) /\ activity \in 0..(MAX_CLIENTS + 1)
  /\ temp_fds \subseteq Fd \cup {ServerFd}
  /\ at \notin {"accept", "scan"} => i = 1 /\ activity = 0 /\ temp_fds = {}
  /\ at = "accept" => /\ backlog # <<>> /\ i = 1 /\ ServerFd \in temp_fds
                      /\ temp_fds \subseteq read_fds /\ activity = Cardinality(temp_fds)
  /\ at = "scan" => Cardinality(Current) <= activity

FileTypes ==
  /\ files \in [Peer -> Seq(Peer)]
  /\ closed \in [Peer -> {"no", "end", "reset"}]
  /\ place \in [Peer -> {"off", "connected", "done"}] /\ sent \in [Peer -> BOOLEAN]

\* What a client has sent is on its way or in its file.
ClientOk(p) ==
  /\ files[p] \in {NoFile, <<p>>}
  /\ sent[p] => Linked(p) /\ place[p] # "connected"
  /\ closed[p] # "no" => Linked(p) /\ place[p] = "off"
  /\ fdOf[p] # None /\ (sent[p] \/ place[p] = "connected") => files[p] = NoFile
  /\ fdOf[p] # None /\ ~sent[p] /\ place[p] = "done" => files[p] = <<p>>
  /\ fdOf[p] = None /\ Linked(p) /\ place[p] = "done" => sent[p]

FileInv == FileTypes /\ \A p \in Peer : ClientOk(p)

-----------------------------------------------------------------------------
(***************************************************************************)
(* The table.                                                              *)
(***************************************************************************)

TableFrame == UNCHANGED <<client_sockets, client_names, fdOf, read_fds, max_fd>>

LEMMA TableKept == TableInv /\ TableFrame => TableInv'
BY DEF TableFrame, TableInv, Entry, connected_clients

LEMMA TableFacts ==
  ASSUME TableInv
  PROVE  /\ connected_clients \in 0..MAX_CLIENTS
         /\ \A j \in Entry : /\ client_sockets[j] \in Fd /\ client_sockets[j] # None
                             /\ client_names[j] \in Peer
                             /\ fdOf[client_names[j]] = client_sockets[j]
         /\ \A j, k \in Entry : client_sockets[j] = client_sockets[k] => j = k
<1>1. connected_clients \in 0..MAX_CLIENTS
  BY LenProperties, FdFacts DEF TableInv, connected_clients
<1>2. \A j \in Entry : client_sockets[j] \in Fd /\ client_names[j] \in Peer
  BY ElementOfSeq DEF TableInv, Entry, connected_clients
<1>3. \A j, k \in Entry : client_sockets[j] = client_sockets[k] => j = k
  BY LenProperties DEF TableInv, Entry, connected_clients, IsInjective
<1> QED
  BY <1>1, <1>2, <1>3, FdFacts DEF TableInv

\* A client with a descriptor is named by one entry, which has it.
LEMMA EntryOf ==
  ASSUME TableInv, NEW p \in Peer, NEW j \in Entry, fdOf[p] = client_sockets[j]
  PROVE  client_names[j] = p
<1>1. fdOf[p] # None
  BY TableFacts
<1>2. PICK k \in Entry : client_names[k] = p
  BY <1>1 DEF TableInv
<1>3. client_sockets[k] = client_sockets[j]
  BY <1>2, TableFacts
<1> QED
  BY <1>2, <1>3, TableFacts

\* Step j of a pass is about an entry that exists, and p is its client.
LEMMA TurnFacts ==
  ASSUME TableInv, i \in 1..(MAX_CLIENTS + 1), NEW j, NEW p \in Peer, Turn(j, p)
  PROVE  /\ j \in Entry /\ j >= i /\ client_sockets[j] \in temp_fds
         /\ client_names[j] = p /\ fdOf[p] = client_sockets[j] /\ fdOf[p] # None
         /\ \A k \in Current : j <= k
<1>1. Current \subseteq Nat
  BY TableFacts, FdFacts DEF Current
<1>2. j \in Current /\ \A k \in Current : j <= k
  BY <1>1, MinProperty DEF Turn
<1>3. j \in Entry /\ j >= i /\ client_sockets[j] \in temp_fds
  BY <1>2, TableFacts, FdFacts DEF Current, Entry
<1>4. fdOf[p] = client_sockets[j] /\ fdOf[p] # None
  BY <1>3, TableFacts DEF Turn
<1> QED
  BY <1>2, <1>3, <1>4, EntryOf

\* accept finds a descriptor that nobody has: there are more of them than
\* entries.
LEMMA FreeFd ==
  ASSUME TableInv
  PROVE  Min(Fd \ {fdOf[p] : p \in Peer}) \in Fd \ {fdOf[p] : p \in Peer}
<1> DEFINE taken == {client_sockets[j] : j \in Entry}
<1>1. Fd \cap {fdOf[p] : p \in Peer} \subseteq taken
  <2> SUFFICES ASSUME NEW p \in Peer, fdOf[p] \in Fd
               PROVE  fdOf[p] \in taken
    OBVIOUS
  <2>1. fdOf[p] # None
    BY FdFacts
  <2>2. PICK j \in Entry : client_names[j] = p
    BY <2>1 DEF TableInv
  <2> QED
    BY <2>2, TableFacts
<1>2. IsFiniteSet(taken) /\ Cardinality(taken) <= MAX_CLIENTS
  <2>1. Cardinality(taken) <= connected_clients /\ IsFiniteSet(taken)
    <3>1. taken = {client_sockets[j] : j \in 1..Len(client_sockets)}
      BY DEF Entry, connected_clients
    <3>2. client_sockets \in Seq(Fd)
      BY DEF TableInv
    <3> QED
      BY <3>1, <3>2, ValuesBound, Zenon DEF connected_clients
  <2>2. Cardinality(taken) \in Nat
    BY <2>1, FS_CardinalityType
  <2> QED
    BY <2>1, <2>2, TableFacts, FdFacts
<1>3. ~(Fd \subseteq taken)
  <2> SUFFICES ASSUME Fd \subseteq taken
               PROVE  FALSE
    OBVIOUS
  <2>1. Cardinality(Fd) <= Cardinality(taken)
    BY <1>2, FS_Subset
  <2>2. Cardinality(taken) \in Nat /\ Cardinality(Fd) \in Nat
    BY <1>2, FdFacts, FS_CardinalityType
  <2> QED
    BY <1>2, <2>1, <2>2, FdFacts
<1>4. Fd \ {fdOf[p] : p \in Peer} # {}
  BY <1>1, <1>3
<1> HIDE DEF taken
<1> QED
  BY <1>4, MinProperty, FdFacts


\* accept adds an entry.
LEMMA AcceptTable ==
  ASSUME TableInv, BacklogInv, backlog # <<>>, connected_clients # MAX_CLIENTS,
         NEW fd \in Fd, \A p \in Peer : fdOf[p] # fd,
         fdOf' = [fdOf EXCEPT ![Head(backlog)] = fd],
         client_sockets' = Append(client_sockets, fd),
         client_names' = Append(client_names, Head(backlog)),
         read_fds' = read_fds \cup {fd}, Raised(fd)
  PROVE  TableInv'
<1> DEFINE n == Len(client_sockets)
           h == Head(backlog)
<1>1. n \in Nat /\ n < MAX_CLIENTS /\ connected_clients = n
  BY TableFacts, FdFacts DEF connected_clients
<1>2. h \in Peer /\ fdOf[h] = None
  BY HeadTailProperties, EmptySeq DEF BacklogInv
<1>3. /\ client_sockets' \in Seq(Fd) /\ Len(client_sockets') = n + 1
      /\ \A j \in 1..n : client_sockets'[j] = client_sockets[j]
      /\ client_sockets'[n + 1] = fd
  BY AppendProperties DEF TableInv
<1>4. /\ client_names' \in Seq(Peer) /\ Len(client_names') = n + 1
      /\ \A j \in 1..n : client_names'[j] = client_names[j]
      /\ client_names'[n + 1] = h
  <2>1. client_names \in Seq(Peer) /\ Len(client_names) = n
    BY DEF TableInv, connected_clients
  <2> QED
    BY <1>2, <2>1, AppendProperties
<1>5. fd # None /\ \A p \in Peer : fdOf'[p] = IF p = h THEN fd ELSE fdOf[p]
  BY <1>2, FdFacts DEF TableInv
<1>6. fdOf' \in [Peer -> Fd \cup {None}]
  BY <1>2 DEF TableInv
<1>7. /\ \A j \in 1..n : client_sockets[j] \in Fd /\ client_sockets[j] # fd
                         /\ client_names[j] \in Peer /\ client_names[j] # h
                         /\ fdOf[client_names[j]] = client_sockets[j]
      /\ \A j, k \in 1..n : client_sockets[j] = client_sockets[k] => j = k
  BY <1>2, TableFacts DEF Entry, connected_clients
<1> HIDE DEF n, h
<1>8. \A j \in 1..(n + 1) : j \in 1..n \/ j = n + 1
  BY <1>1
<1>9. IsInjective(client_sockets')
  <2>1. DOMAIN client_sockets' = 1..(n + 1)
    BY <1>3, LenProperties
  <2> SUFFICES ASSUME NEW a \in 1..(n + 1), NEW b \in 1..(n + 1),
                      client_sockets'[a] = client_sockets'[b]
               PROVE  a = b
    BY <2>1 DEF IsInjective
  <2> QED
    BY <1>3, <1>7, <1>8
<1>10. \A j \in 1..(n + 1) : fdOf'[client_names'[j]] = client_sockets'[j]
  BY <1>2, <1>3, <1>4, <1>5, <1>7, <1>8
<1>11. \A p \in Peer : fdOf'[p] # None => \E j \in 1..(n + 1) : client_names'[j] = p
  <2> SUFFICES ASSUME NEW p \in Peer, fdOf'[p] # None
               PROVE  \E j \in 1..(n + 1) : client_names'[j] = p
    OBVIOUS
  <2>1. CASE p = h
    BY <1>1, <1>4, <2>1
  <2>2. CASE p # h
    <3>1. PICK j \in 1..n : client_names[j] = p
      BY <1>1, <1>5, <2>2 DEF TableInv, Entry
    <3>2. j \in 1..(n + 1)
      BY <1>1
    <3> QED
      BY <1>4, <3>1, <3>2
  <2> QED
    BY <2>1, <2>2
<1>12. read_fds' = {client_sockets'[j] : j \in 1..(n + 1)} \cup {ServerFd}
  <2>1. {client_sockets'[j] : j \in 1..(n + 1)} = {client_sockets[j] : j \in 1..n} \cup {fd}
    <3>1. n + 1 \in 1..(n + 1) /\ \A j \in 1..n : j \in 1..(n + 1)
      BY <1>1
    <3> QED
      BY <1>3, <1>8, <3>1
  <2> QED
    BY <1>1, <2>1 DEF TableInv, Entry
<1>13. max_fd' \in Fd \cup {ServerFd} /\ \A g \in read_fds' : g <= max_fd'
  <2>1. read_fds \subseteq Fd \cup {ServerFd}
    BY <1>1, <1>7 DEF TableInv, Entry
  <2>2. \A g \in read_fds : g <= max_fd
    BY DEF TableInv
  <2>3. max_fd \in Nat /\ fd \in Nat /\ max_fd \in Fd \cup {ServerFd}
    BY FdFacts DEF TableInv
  <2>4. read_fds \subseteq Nat
    BY <2>1, FdFacts
  <2> QED
    BY <2>2, <2>3, <2>4 DEF Raised
<1>14. connected_clients' = n + 1 /\ Entry' = 1..(n + 1) /\ n + 1 <= MAX_CLIENTS
  BY <1>1, <1>3, FdFacts DEF Entry, connected_clients
<1> QED
  BY <1>3, <1>4, <1>6, <1>9, <1>10, <1>11, <1>12, <1>13, <1>14, Zenon DEF TableInv


\* The end of a connection takes its entry out.
LEMMA EndTable ==
  ASSUME TableInv, NEW p \in Peer, NEW j \in Entry, client_names[j] = p,
         fdOf' = [fdOf EXCEPT ![p] = None],
         client_sockets' = Move(client_sockets, j), client_names' = Move(client_names, j),
         read_fds' = read_fds \ {client_sockets[j]}, max_fd' = max_fd
  PROVE  TableInv'
<1> DEFINE n == Len(client_sockets)
           from(k) == IF k = j THEN n ELSE k
<1>1. n \in Nat /\ n <= MAX_CLIENTS /\ connected_clients = n /\ j \in 1..n
  BY TableFacts, FdFacts DEF connected_clients, Entry
<1>2. /\ client_sockets' \in Seq(Fd) /\ Len(client_sockets') = n - 1
      /\ \A k \in 1..(n - 1) : client_sockets'[k] = client_sockets[from(k)]
  <2>1. client_sockets \in Seq(Fd)
    BY DEF TableInv
  <2> QED
    BY <1>1, <2>1, MoveProperties
<1>3. /\ client_names' \in Seq(Peer) /\ Len(client_names') = n - 1
      /\ \A k \in 1..(n - 1) : client_names'[k] = client_names[from(k)]
  <2>1. client_names \in Seq(Peer) /\ Len(client_names) = n
    BY <1>1 DEF TableInv
  <2>2. j \in 1..Len(client_names)
    BY <1>1, <2>1
  <2>3. /\ Move(client_names, j) \in Seq(Peer) /\ Len(Move(client_names, j)) = Len(client_names) - 1
        /\ \A k \in 1..(Len(client_names) - 1) :
             Move(client_names, j)[k] = IF k = j THEN client_names[Len(client_names)]
                                        ELSE client_names[k]
    BY <2>1, <2>2, MoveProperties
  <2> HIDE DEF n
  <2> QED
    BY <2>1, <2>3
<1>4. /\ \A k \in 1..n : client_sockets[k] \in Fd /\ client_sockets[k] # None
                         /\ client_names[k] \in Peer
                         /\ fdOf[client_names[k]] = client_sockets[k]
      /\ \A k, l \in 1..n : client_sockets[k] = client_sockets[l] => k = l
  BY TableFacts DEF Entry, connected_clients
<1>5. /\ \A k \in 1..(n - 1) : from(k) \in 1..n /\ from(k) # j
      /\ \A k, l \in 1..(n - 1) : from(k) = from(l) => k = l
      /\ \A k \in 1..n : k # j => \E l \in 1..(n - 1) : from(l) = k
  <2>1. \A k \in 1..(n - 1) : from(k) \in 1..n /\ from(k) # j
    BY <1>1
  <2>2. \A k, l \in 1..(n - 1) : from(k) = from(l) => k = l
    BY <1>1
  <2>3. ASSUME NEW k \in 1..n, k # j
        PROVE  \E l \in 1..(n - 1) : from(l) = k
    <3>1. CASE k = n
      <4>1. j \in 1..(n - 1) /\ from(j) = k
        BY <1>1, <2>3, <3>1
      <4> QED
        BY <4>1
    <3>2. CASE k # n
      <4>1. k \in 1..(n - 1) /\ from(k) = k
        BY <1>1, <2>3, <3>2
      <4> QED
        BY <4>1
    <3> QED
      BY <3>1, <3>2
  <2> QED
    BY <2>1, <2>2, <2>3
<1>6. \A q \in Peer : fdOf'[q] = IF q = p THEN None ELSE fdOf[q]
  BY DEF TableInv
<1>7. fdOf' \in [Peer -> Fd \cup {None}]
  BY DEF TableInv
<1>8. \A k \in 1..n : k # j => client_names[k] # p
  BY <1>1, <1>4
<1> HIDE DEF n, from
<1>9. IsInjective(client_sockets')
  <2>1. DOMAIN client_sockets' = 1..(n - 1)
    BY <1>2, LenProperties
  <2> SUFFICES ASSUME NEW a \in 1..(n - 1), NEW b \in 1..(n - 1),
                      client_sockets'[a] = client_sockets'[b]
               PROVE  a = b
    BY <2>1 DEF IsInjective
  <2> QED
    BY <1>2, <1>4, <1>5
<1>10. \A k \in 1..(n - 1) : fdOf'[client_names'[k]] = client_sockets'[k]
  <2> SUFFICES ASSUME NEW k \in 1..(n - 1)
               PROVE  fdOf'[client_names'[k]] = client_sockets'[k]
    OBVIOUS
  <2>1. from(k) \in 1..n /\ from(k) # j
    BY <1>5
  <2>2. client_names'[k] = client_names[from(k)] /\ client_sockets'[k] = client_sockets[from(k)]
    BY <1>2, <1>3
  <2> QED
    BY <1>4, <1>6, <1>8, <2>1, <2>2
<1>11. \A q \in Peer : fdOf'[q] # None => \E k \in 1..(n - 1) : client_names'[k] = q
  <2> SUFFICES ASSUME NEW q \in Peer, fdOf'[q] # None
               PROVE  \E k \in 1..(n - 1) : client_names'[k] = q
    OBVIOUS
  <2>1. q # p /\ fdOf[q] # None
    BY <1>6
  <2>2. PICK k \in 1..n : client_names[k] = q
    BY <1>1, <2>1 DEF TableInv, Entry
  <2>3. PICK l \in 1..(n - 1) : from(l) = k
    BY <1>5, <2>1, <2>2
  <2> QED
    BY <1>3, <2>2, <2>3
<1>12. read_fds' = {client_sockets'[k] : k \in 1..(n - 1)} \cup {ServerFd}
  <2>1. {client_sockets'[k] : k \in 1..(n - 1)} = {client_sockets[k] : k \in 1..n} \ {client_sockets[j]}
    BY <1>1, <1>2, <1>4, <1>5
  <2>2. read_fds = {client_sockets[k] : k \in 1..n} \cup {ServerFd}
    BY <1>1 DEF TableInv, Entry
  <2>3. client_sockets[j] # ServerFd
    BY <1>1, <1>4, FdFacts
  <2> QED
    BY <2>1, <2>2, <2>3
<1>13. max_fd' \in Fd \cup {ServerFd} /\ \A g \in read_fds' : g <= max_fd'
  BY DEF TableInv
<1>14. connected_clients' = n - 1 /\ Entry' = 1..(n - 1) /\ n - 1 <= MAX_CLIENTS
  BY <1>1, <1>2, FdFacts DEF Entry, connected_clients
<1> QED
  BY <1>2, <1>3, <1>7, <1>9, <1>10, <1>11, <1>12, <1>13, <1>14, Zenon DEF TableInv

LEMMA DieTable == TableInv /\ Die => TableInv' /\ BacklogInv'
<1> SUFFICES ASSUME TableInv, Die
             PROVE  TableInv' /\ BacklogInv'
  OBVIOUS
<1>1. client_sockets' = <<>> /\ client_names' = <<>> /\ backlog' = <<>>
      /\ connected_clients' = 0 /\ Entry' = {} /\ connected_clients' <= MAX_CLIENTS
  BY EmptySeq, FdFacts DEF Die, connected_clients, Entry
<1>2. /\ client_sockets' \in Seq(Fd) /\ client_names' \in Seq(Peer) /\ backlog' \in Seq(Peer)
      /\ Len(client_names') = 0 /\ Len(backlog') = 0
  BY <1>1, EmptySeq
<1>3. IsInjective(client_sockets') /\ IsInjective(backlog')
  BY <1>1 DEF IsInjective
<1>4. fdOf' \in [Peer -> Fd \cup {None}] /\ \A p \in Peer : fdOf'[p] = None
  BY DEF Die, NoConnections
<1>5. /\ read_fds' = {ServerFd} /\ max_fd' = ServerFd
      /\ {client_sockets'[j] : j \in Entry'} = {}
      /\ ServerFd <= ServerFd
  BY <1>1, FdFacts DEF Die
<1> QED
  BY <1>1, <1>2, <1>3, <1>4, <1>5 DEF TableInv, BacklogInv


-----------------------------------------------------------------------------
(***************************************************************************)
(* The count of the pass.  It starts as the number of descriptors that     *)
(* select reported, which are those of as many entries, and of the         *)
(* listening socket; a turn takes one entry and one of the count.          *)
(***************************************************************************)

LEMMA ReportedBound ==
  ASSUME TableInv, NEW T, T \subseteq read_fds
  PROVE  IsFiniteSet(T) /\ Cardinality(T) \in 0..(MAX_CLIENTS + 1)
<1> DEFINE V == {client_sockets[j] : j \in 1..Len(client_sockets)}
<1>1. client_sockets \in Seq(Fd) /\ Len(client_sockets) \in 0..MAX_CLIENTS
  BY TableFacts DEF TableInv, connected_clients
<1>2. IsFiniteSet(V) /\ Cardinality(V) <= Len(client_sockets)
  BY <1>1, ValuesBound
<1>3. T \subseteq V \cup {ServerFd}
  BY DEF TableInv, Entry, connected_clients
<1> HIDE DEF V
<1>4. IsFiniteSet(V \cup {ServerFd}) /\ Cardinality(V \cup {ServerFd}) <= Cardinality(V) + 1
      /\ Cardinality(V) \in Nat /\ Cardinality(V \cup {ServerFd}) \in Nat
  BY <1>2, FS_AddElement, FS_CardinalityType
<1>5. IsFiniteSet(T) /\ Cardinality(T) <= Cardinality(V \cup {ServerFd}) /\ Cardinality(T) \in Nat
  BY <1>3, <1>4, FS_Subset, FS_CardinalityType
<1> QED
  BY <1>1, <1>2, <1>4, <1>5, FdFacts

LEMMA CurrentFacts ==
  ASSUME TableInv, PassInv
  PROVE  /\ Current \subseteq Entry /\ IsFiniteSet(Current) /\ Cardinality(Current) \in Nat
         /\ \A k : k \in Current <=> k \in Entry /\ k >= i /\ client_sockets[k] \in temp_fds
<1>1. connected_clients \in Nat /\ i \in Nat \ {0}
  BY TableFacts, FdFacts DEF PassInv
<1>2. \A k : k \in Current <=> k \in Entry /\ k >= i /\ client_sockets[k] \in temp_fds
  BY <1>1 DEF Current, Entry
<1>3. IsFiniteSet(1..connected_clients)
  BY <1>1, FS_Interval
<1>4. Current \in SUBSET (1..connected_clients)
  BY <1>2 DEF Entry
<1> QED
  BY <1>2, <1>3, <1>4, FS_Subset, FS_CardinalityType DEF Entry

\* Entries whose descriptors were reported are no more than these.
LEMMA CurrentBound ==
  ASSUME TableInv, NEW T, IsFiniteSet(T),
         NEW J, J \subseteq Entry, \A j \in J : client_sockets[j] \in T
  PROVE  Cardinality(J) <= Cardinality(T)
<1>1. client_sockets \in Seq(Fd) /\ IsInjective(client_sockets) /\ J \subseteq 1..Len(client_sockets)
  BY DEF TableInv, Entry, connected_clients
<1> QED
  BY <1>1, EntriesBound

LEMMA SelectPass == TableInv /\ PassInv /\ Select => PassInv'
<1> SUFFICES ASSUME TableInv, PassInv, Select
             PROVE  PassInv'
  OBVIOUS
<1>1. temp_fds' \subseteq read_fds /\ activity' = Cardinality(temp_fds') /\ i' = 1
      /\ UNCHANGED <<tableVars, setVars, backlog>>
  BY DEF Select, Ready, PassInv, kernelVars
<1>2. read_fds \subseteq Fd \cup {ServerFd}
  BY TableFacts DEF TableInv
<1>3. activity' \in 0..(MAX_CLIENTS + 1)
  BY <1>1, ReportedBound
<1>4. CASE at' = "accept"
  <2>1. ServerFd \in temp_fds' /\ backlog # <<>>
    BY <1>4 DEF Select, Ready, Readable
  <2> QED
    BY <1>1, <1>2, <1>3, <1>4, <2>1, FdFacts DEF PassInv, setVars
<1>5. CASE at' = "scan"
  <2> DEFINE J == {j \in Entry : client_sockets[j] \in temp_fds'}
  <2>1. Current' = J
    BY <1>1 DEF Current, Entry, connected_clients, tableVars
  <2>2. Cardinality(J) <= Cardinality(temp_fds')
    BY <1>1, ReportedBound, CurrentBound
  <2> QED
    BY <1>1, <1>2, <1>3, <1>5, <2>1, <2>2, FdFacts DEF PassInv
<1> QED
  BY <1>4, <1>5 DEF Select

\* After an accept the pass has one descriptor less to count.
LEMMA AcceptPass ==
  ASSUME TableInv, TableInv', PassInv, at = "accept", Handled(1)
  PROVE  PassInv'
<1>1. activity = Cardinality(temp_fds) /\ ServerFd \in temp_fds /\ activity \in 0..(MAX_CLIENTS + 1)
      /\ temp_fds \subseteq Fd \cup {ServerFd}
  BY DEF PassInv
<1>2. CASE activity - 1 <= 0
  BY <1>2, FdFacts DEF Handled, PassInv
<1>3. CASE ~(activity - 1 <= 0)
  <2>1. at' = "scan" /\ i' = 1 /\ activity' = activity - 1 /\ temp_fds' = temp_fds
    BY <1>3 DEF Handled
  <2> DEFINE J == {j \in Entry' : client_sockets'[j] \in temp_fds}
  <2>2. Current' = J
    BY <2>1 DEF Current, Entry
  <2>3. J \subseteq Entry' /\ \A j \in J : client_sockets'[j] \in temp_fds
    OBVIOUS
  <2> HIDE DEF J
  <2>4. Cardinality(J) <= Cardinality(temp_fds) - 1
    <3>1. client_sockets' \in Seq(Fd) /\ IsInjective(client_sockets')
          /\ J \subseteq 1..Len(client_sockets')
      BY <2>3 DEF TableInv, Entry, connected_clients
    <3> DEFINE U == temp_fds \ {ServerFd}
    <3>2. IsFiniteSet(Fd \cup {ServerFd})
      BY FdFacts, FS_AddElement
    <3>3. IsFiniteSet(temp_fds)
      BY <1>1, <3>2, FS_Subset
    <3>4. IsFiniteSet(U) /\ Cardinality(U) = Cardinality(temp_fds) - 1
      BY <1>1, <3>3, FS_RemoveElement
    <3>5. \A j \in J : client_sockets'[j] \in U
      BY <2>3, <3>1, FdFacts, ElementOfSeq
    <3> HIDE DEF U
    <3> QED
      BY <3>1, <3>4, <3>5, EntriesBound
  <2> QED
    BY <1>1, <1>3, <2>1, <2>2, <2>4, FdFacts DEF PassInv
<1> QED
  BY <1>2, <1>3

\* A turn takes its entry from those to be handled, and adds none: a moved
\* entry is behind it.
LEMMA TurnPass ==
  ASSUME TableInv, PassInv, NEW j, NEW p \in Peer, Turn(j, p), Handled(j + 1),
         \A k \in Entry' : k > j => k \in Entry /\ client_sockets'[k] = client_sockets[k],
         connected_clients' \in Nat
  PROVE  PassInv'
<1>1. i \in 1..(MAX_CLIENTS + 1) /\ activity \in 0..(MAX_CLIENTS + 1) /\ at = "scan"
      /\ temp_fds \subseteq Fd \cup {ServerFd} /\ Cardinality(Current) <= activity
  BY DEF PassInv, Turn
<1>2. j \in Current /\ j \in 1..MAX_CLIENTS
  BY <1>1, TurnFacts, CurrentFacts, TableFacts, FdFacts DEF Entry
<1>3. CASE activity - 1 <= 0
  BY <1>3, FdFacts DEF Handled, PassInv
<1>4. CASE ~(activity - 1 <= 0)
  <2>1. at' = "scan" /\ i' = j + 1 /\ activity' = activity - 1 /\ temp_fds' = temp_fds
    BY <1>4 DEF Handled
  <2>2. Current' \subseteq Current \ {j}
    <3> SUFFICES ASSUME NEW k \in Current'
                 PROVE  k \in Current /\ k # j
      OBVIOUS
    <3>1. k \in Entry' /\ k >= j + 1 /\ client_sockets'[k] \in temp_fds
      BY <1>2, <2>1 DEF Current, Entry
    <3>2. k \in Entry /\ k > j /\ client_sockets[k] \in temp_fds
      <4>1. k \in Nat
        BY <3>1 DEF Entry
      <4>2. k > j
        BY <1>2, <3>1, <4>1
      <4> QED
        BY <3>1, <4>2
    <3>3. k >= i
      <4>1. j >= i
        BY <1>2, CurrentFacts
      <4> QED
        BY <1>1, <1>2, <3>1, <3>2, <4>1, TableFacts DEF Entry
    <3> QED
      BY <1>2, <3>2, <3>3, CurrentFacts
  <2>3. IsFiniteSet(Current \ {j}) /\ Cardinality(Current \ {j}) = Cardinality(Current) - 1
    BY <1>2, CurrentFacts, FS_RemoveElement
  <2>4. Cardinality(Current') <= Cardinality(Current \ {j}) /\ Cardinality(Current') \in Nat
        /\ Cardinality(Current \ {j}) \in Nat
    BY <2>2, <2>3, FS_Subset, FS_CardinalityType
  <2>5. Cardinality(Current') <= activity'
    BY <1>1, <2>1, <2>3, <2>4, CurrentFacts
  <2> QED
    BY <1>1, <1>2, <1>4, <2>1, <2>5, FdFacts DEF PassInv
<1> QED
  BY <1>3, <1>4


-----------------------------------------------------------------------------
(***************************************************************************)
(* The files.                                                              *)
(***************************************************************************)

\* A client none of whose variables change keeps its facts.
LEMMA ClientKept ==
  ASSUME NEW p \in Peer, ClientOk(p), files'[p] = files[p], sent'[p] = sent[p],
         closed'[p] = closed[p], place'[p] = place[p], fdOf'[p] = fdOf[p],
         Linked(p)' <=> Linked(p)
  PROVE  ClientOk(p)'
BY DEF ClientOk

LEMMA FileKept ==
  FileInv /\ UNCHANGED <<files, fdOf, sent, closed, place, backlog>> => FileInv'
BY DEF FileInv, FileTypes, ClientOk, Linked

LEMMA DieFile == FileInv /\ Die => FileInv'
<1> SUFFICES ASSUME FileInv, Die
             PROVE  FileInv'
  OBVIOUS
<1>1. FileTypes'
  BY DEF FileInv, FileTypes, Die, NothingSent, NothingClosed
<1>2. ASSUME NEW p \in Peer
      PROVE  ClientOk(p)'
  <2>1. ~Linked(p)' /\ ~sent'[p] /\ closed'[p] = "no" /\ fdOf'[p] = None /\ files'[p] = files[p]
    BY EmptySeq DEF Die, Linked, NothingSent, NothingClosed, NoConnections
  <2> QED
    BY <2>1 DEF ClientOk, FileInv
<1> QED
  BY <1>1, <1>2 DEF FileInv

LEMMA ConnectFile ==
  ASSUME BacklogInv, FileInv, NEW p \in Peer, Connect(p)
  PROVE  FileInv'
<1>1. FileTypes'
  BY DEF FileInv, FileTypes, Connect
<1>2. \A q \in Peer : Linked(q)' <=> Linked(q) \/ q = p
  <2>1. /\ Len(backlog') = Len(backlog) + 1 /\ Len(backlog) \in Nat
        /\ \A k \in 1..Len(backlog) : backlog'[k] = backlog[k]
        /\ backlog'[Len(backlog) + 1] = p
    BY AppendProperties, LenProperties DEF BacklogInv, Connect
  <2>2. \A k \in 1..(Len(backlog) + 1) : k \in 1..Len(backlog) \/ k = Len(backlog) + 1
    BY <2>1
  <2>3. \A k \in 1..Len(backlog) : k \in 1..(Len(backlog) + 1)
    BY <2>1
  <2>4. Len(backlog) + 1 \in 1..(Len(backlog) + 1)
    BY <2>1
  <2> QED
    BY <2>1, <2>2, <2>3, <2>4 DEF Linked, Connect
<1>3. ASSUME NEW q \in Peer, q # p
      PROVE  ClientOk(q)'
  BY <1>2, <1>3, ClientKept DEF Connect, FileTypes, FileInv
<1>4. ClientOk(p)'
  <2>1. ~Linked(p) /\ ~sent[p] /\ closed[p] = "no" /\ fdOf[p] = None
    BY DEF Connect, FileInv, FileTypes, ClientOk, Linked
  <2>2. place'[p] = "connected" /\ UNCHANGED <<files, fdOf, sent, closed>>
    BY DEF Connect, FileInv, FileTypes
  <2> QED
    BY <2>1, <2>2 DEF ClientOk, FileInv
<1> QED
  BY <1>1, <1>3, <1>4 DEF FileInv

LEMMA SendFile ==
  ASSUME FileInv, NEW p \in Peer, Send(p)
  PROVE  FileInv'
<1>1. FileTypes'
  BY DEF FileInv, FileTypes, Send
<1>2. \A q \in Peer : Linked(q)' <=> Linked(q)
  BY DEF Linked, Send
<1>3. ASSUME NEW q \in Peer, q # p
      PROVE  ClientOk(q)'
  BY <1>2, <1>3, ClientKept DEF Send, FileTypes, FileInv
<1>4. ClientOk(p)'
  <2>1. place[p] = "connected" /\ Linked(p) /\ closed[p] = "no"
    BY DEF Send, FileInv, FileTypes, ClientOk
  <2>2. place'[p] = "done" /\ sent'[p] /\ UNCHANGED <<files, fdOf, closed>>
    BY DEF Send, FileInv, FileTypes, ClientOk
  <2> QED
    BY <1>2, <2>1, <2>2 DEF ClientOk, FileInv
<1> QED
  BY <1>1, <1>3, <1>4 DEF FileInv

LEMMA LeaveFile ==
  ASSUME FileInv, NEW p \in Peer, Leave(p)
  PROVE  FileInv'
<1>1. FileTypes'
  BY DEF FileInv, FileTypes, Leave
<1>2. \A q \in Peer : Linked(q)' <=> Linked(q)
  BY DEF Linked, Leave
<1>3. ASSUME NEW q \in Peer, q # p
      PROVE  ClientOk(q)'
  BY <1>2, <1>3, ClientKept DEF Leave, FileTypes, FileInv
<1>4. ClientOk(p)'
  <2>1. place'[p] = "off" /\ UNCHANGED <<files, fdOf, sent>>
    BY DEF Leave, FileInv, FileTypes, ClientOk
  <2>2. closed'[p] # "no" => Linked(p)
    BY DEF Leave, FileInv, FileTypes, ClientOk
  <2> QED
    BY <1>2, <2>1, <2>2 DEF ClientOk, FileInv
<1> QED
  BY <1>1, <1>3, <1>4 DEF FileInv


LEMMA HeadFacts ==
  ASSUME BacklogInv, backlog # <<>>
  PROVE  /\ Len(backlog) \in Nat \ {0} /\ backlog[1] = Head(backlog)
         /\ Head(backlog) \in Peer /\ fdOf[Head(backlog)] = None /\ Linked(Head(backlog))
         /\ Tail(backlog) \in Seq(Peer) /\ Len(Tail(backlog)) = Len(backlog) - 1
         /\ \A k \in 1..(Len(backlog) - 1) : Tail(backlog)[k] = backlog[k + 1]
         /\ \A k \in 2..Len(backlog) : backlog[k] # Head(backlog)
<1>1. /\ Len(backlog) \in Nat \ {0} /\ Head(backlog) \in Peer
      /\ Tail(backlog) \in Seq(Peer) /\ Len(Tail(backlog)) = Len(backlog) - 1
      /\ \A k \in 1..(Len(backlog) - 1) : Tail(backlog)[k] = backlog[k + 1]
  BY HeadTailProperties, EmptySeq DEF BacklogInv
<1>2. backlog[1] = Head(backlog)
  BY DEF BacklogInv
<1>3. 1 \in 1..Len(backlog) /\ DOMAIN backlog = 1..Len(backlog)
  BY <1>1, LenProperties DEF BacklogInv
<1>4. fdOf[Head(backlog)] = None /\ Linked(Head(backlog))
  BY <1>2, <1>3 DEF BacklogInv, Linked
<1>5. \A k \in 2..Len(backlog) : backlog[k] # backlog[1]
  BY <1>1, <1>3 DEF BacklogInv, IsInjective
<1> QED
  BY <1>1, <1>2, <1>4, <1>5

LEMMA AcceptBacklog ==
  ASSUME TableInv, BacklogInv, backlog # <<>>, NEW fd, backlog' = Tail(backlog),
         fdOf' = [fdOf EXCEPT ![Head(backlog)] = fd]
  PROVE  BacklogInv'
<1>1. /\ backlog' \in Seq(Peer) /\ Len(backlog') = Len(backlog) - 1 /\ Len(backlog) \in Nat \ {0}
      /\ \A k \in 1..(Len(backlog) - 1) :
           /\ backlog'[k] = backlog[k + 1] /\ k + 1 \in 2..Len(backlog)
           /\ k + 1 \in 1..Len(backlog)
  BY HeadFacts
<1>2. DOMAIN backlog' = 1..(Len(backlog) - 1) /\ DOMAIN backlog = 1..Len(backlog)
  BY <1>1, LenProperties DEF BacklogInv
<1>3. IsInjective(backlog')
  <2> SUFFICES ASSUME NEW a \in 1..(Len(backlog) - 1), NEW b \in 1..(Len(backlog) - 1),
                      backlog'[a] = backlog'[b]
               PROVE  a = b
    BY <1>2 DEF IsInjective
  <2>1. a + 1 = b + 1
    BY <1>1, <1>2 DEF BacklogInv, IsInjective
  <2> QED
    BY <2>1
<1>4. ASSUME NEW k \in 1..(Len(backlog) - 1)
      PROVE  fdOf'[backlog'[k]] = None
  <2>1. backlog'[k] # Head(backlog) /\ backlog'[k] \in Peer /\ fdOf[backlog'[k]] = None
    BY <1>1, HeadFacts, ElementOfSeq DEF BacklogInv
  <2> QED
    BY <2>1 DEF TableInv
<1> QED
  BY <1>1, <1>3, <1>4 DEF BacklogInv

LEMMA ConnectBacklog ==
  ASSUME BacklogInv, NEW p \in Peer, Connect(p)
  PROVE  BacklogInv' /\ backlog' # <<>>
<1> DEFINE n == Len(backlog)
<1>1. /\ backlog' \in Seq(Peer) /\ backlog' # <<>> /\ Len(backlog') = n + 1 /\ n \in Nat
      /\ \A k \in 1..n : backlog'[k] = backlog[k]
      /\ backlog'[n + 1] = p
  BY AppendProperties, LenProperties DEF BacklogInv, Connect
<1>2. \A k \in 1..(n + 1) : k \in 1..n \/ k = n + 1
  BY <1>1
<1>3. fdOf' = fdOf /\ fdOf[p] = None /\ \A k \in 1..n : backlog[k] # p
  BY DEF Connect, Linked
<1>4. DOMAIN backlog' = 1..(n + 1) /\ DOMAIN backlog = 1..n
  BY <1>1, LenProperties DEF BacklogInv
<1> HIDE DEF n
<1>5. IsInjective(backlog')
  <2> SUFFICES ASSUME NEW a \in 1..(n + 1), NEW b \in 1..(n + 1), backlog'[a] = backlog'[b]
               PROVE  a = b
    BY <1>4 DEF IsInjective
  <2> QED
    BY <1>1, <1>2, <1>3, <1>4 DEF BacklogInv, IsInjective
<1>6. \A k \in 1..(n + 1) : fdOf'[backlog'[k]] = None
  BY <1>1, <1>2, <1>3 DEF BacklogInv, n
<1> QED
  BY <1>1, <1>5, <1>6 DEF BacklogInv

LEMMA AcceptFile ==
  ASSUME TableInv, BacklogInv, FileInv, backlog # <<>>, backlog' = Tail(backlog),
         NEW fd \in Fd, fdOf' = [fdOf EXCEPT ![Head(backlog)] = fd], Removed(Head(backlog)),
         UNCHANGED <<sent, closed, place>>
  PROVE  FileInv'
<1>0. PICK h : h = Head(backlog)
  OBVIOUS
<1>1. h \in Peer /\ fdOf[h] = None /\ Linked(h)
  BY <1>0, HeadFacts
<1>2. \A q \in Peer : /\ fdOf'[q] = IF q = h THEN fd ELSE fdOf[q]
                      /\ files'[q] = IF q = h THEN NoFile ELSE files[q]
  BY <1>0, <1>1 DEF TableInv, FileInv, FileTypes, Removed
<1>3. FileTypes'
  BY <1>0, <1>1, EmptySeq DEF FileInv, FileTypes, Removed, NoFile
<1>4. ASSUME NEW q \in Peer, q # h
      PROVE  ClientOk(q)'
  <2>1. (\E k \in 1..Len(backlog') : backlog'[k] = q) <=> (\E k \in 1..Len(backlog) : backlog[k] = q)
    <3>1. ASSUME NEW k \in 1..Len(backlog'), backlog'[k] = q
          PROVE  \E l \in 1..Len(backlog) : backlog[l] = q
      <4>1. k + 1 \in 1..Len(backlog) /\ backlog[k + 1] = q
        BY <3>1, HeadFacts
      <4> QED
        BY <4>1
    <3>2. ASSUME NEW k \in 1..Len(backlog), backlog[k] = q
          PROVE  \E l \in 1..Len(backlog') : backlog'[l] = q
      <4>1. k # 1
        BY <1>0, <1>4, <3>2, HeadFacts
      <4>2. k - 1 \in 1..Len(backlog') /\ backlog'[k - 1] = q
        BY <3>2, <4>1, HeadFacts
      <4> QED
        BY <4>2
    <3> QED
      BY <3>1, <3>2
  <2>2. Linked(q)' <=> Linked(q)
    BY <1>2, <1>4, <2>1 DEF Linked
  <2> QED
    BY <1>2, <1>4, <2>2, ClientKept DEF FileInv
<1>5. ClientOk(h)'
  <2>1. fdOf'[h] # None /\ files'[h] = NoFile
    BY <1>1, <1>2, FdFacts
  <2>2. Linked(h)'
    BY <2>1 DEF Linked
  <2> QED
    BY <1>1, <2>1, <2>2 DEF FileInv, ClientOk
<1> QED
  BY <1>3, <1>4, <1>5 DEF FileInv

\* A record goes into the file of the client that sent it, which is empty.
LEMMA RecordFile ==
  ASSUME TableInv, PassInv, FileInv, NEW j, NEW p \in Peer, RecvRecord(j, p)
  PROVE  FileInv'
<1>1. client_names[j] = p /\ fdOf[p] # None
  BY TurnFacts DEF RecvRecord, PassInv
<1>2. sent[p] /\ files[p] = NoFile /\ place[p] # "connected"
  BY <1>1 DEF RecvRecord, FileInv, ClientOk
<1>3. files' = [files EXCEPT ![p] = <<p>>]
  <2>1. Append(files[p], p) = <<p>>
    BY <1>2 DEF NoFile
  <2> QED
    BY <1>1, <2>1 DEF RecvRecord, File
<1>4. sent' = [sent EXCEPT ![p] = FALSE] /\ UNCHANGED <<backlog, fdOf, closed, place>>
  BY DEF RecvRecord
<1>5. FileTypes'
  BY <1>3, <1>4 DEF FileInv, FileTypes
<1>6. \A q \in Peer : Linked(q)' <=> Linked(q)
  BY <1>4 DEF Linked
<1>7. ASSUME NEW q \in Peer, q # p
      PROVE  ClientOk(q)'
  BY <1>3, <1>4, <1>6, <1>7, ClientKept DEF FileInv, FileTypes
<1>8. ClientOk(p)'
  <2>1. files'[p] = <<p>> /\ ~sent'[p]
    BY <1>3, <1>4 DEF FileInv, FileTypes
  <2> QED
    BY <1>1, <1>2, <1>4, <1>6, <2>1 DEF FileInv, ClientOk
<1> QED
  BY <1>5, <1>7, <1>8 DEF FileInv

LEMMA EndFile ==
  ASSUME TableInv, BacklogInv, FileInv, NEW j, NEW p \in Peer, RecvEnd(j, p)
  PROVE  FileInv'
<1>1. /\ fdOf' = [fdOf EXCEPT ![p] = None] /\ closed' = [closed EXCEPT ![p] = "no"]
      /\ UNCHANGED <<files, backlog, sent, place>> /\ ~sent[p] /\ closed[p] = "end"
  BY DEF RecvEnd
<1>2. FileTypes'
  BY <1>1 DEF FileInv, FileTypes
<1>3. \A q \in Peer : fdOf'[q] = IF q = p THEN None ELSE fdOf[q]
  BY <1>1 DEF TableInv
<1>4. ASSUME NEW q \in Peer, q # p
      PROVE  ClientOk(q)'
  <2>1. Linked(q)' <=> Linked(q)
    BY <1>1, <1>3, <1>4 DEF Linked
  <2> QED
    BY <1>1, <1>3, <1>4, <2>1, ClientKept DEF FileInv, FileTypes
<1>5. ClientOk(p)'
  <2>1. closed'[p] = "no" /\ ~sent'[p] /\ fdOf'[p] = None
    BY <1>1, <1>3 DEF FileInv, FileTypes
  <2>2. place[p] = "off" /\ files[p] \in {NoFile, <<p>>}
    BY <1>1 DEF FileInv, ClientOk
  <2> QED
    BY <1>1, <2>1, <2>2 DEF ClientOk
<1> QED
  BY <1>2, <1>4, <1>5 DEF FileInv

LEMMA ErrorFile ==
  ASSUME FileInv, NEW j, NEW p \in Peer, RecvError(j, p)
  PROVE  FileInv'
<1>1. /\ closed' = [closed EXCEPT ![p] = "end"] /\ sent' = [sent EXCEPT ![p] = FALSE]
      /\ UNCHANGED <<files, backlog, fdOf, place>> /\ closed[p] = "reset"
  BY DEF RecvError
<1>2. FileTypes'
  BY <1>1 DEF FileInv, FileTypes
<1>3. \A q \in Peer : Linked(q)' <=> Linked(q)
  BY <1>1 DEF Linked
<1>4. ASSUME NEW q \in Peer, q # p
      PROVE  ClientOk(q)'
  BY <1>1, <1>3, <1>4, ClientKept DEF FileInv, FileTypes
<1>5. ClientOk(p)'
  <2>1. closed'[p] = "end" /\ ~sent'[p]
    BY <1>1 DEF FileInv, FileTypes
  <2>2. place[p] = "off" /\ Linked(p) /\ files[p] \in {NoFile, <<p>>}
    BY <1>1 DEF FileInv, ClientOk
  <2> QED
    BY <1>1, <1>3, <2>1, <2>2 DEF ClientOk
<1> QED
  BY <1>2, <1>4, <1>5 DEF FileInv


-----------------------------------------------------------------------------
(***************************************************************************)
(* The step, and the theorems.                                             *)
(***************************************************************************)

UnameInv == TableInv /\ BacklogInv /\ PassInv /\ FileInv

LEMMA BacklogKept == BacklogInv /\ UNCHANGED <<backlog, fdOf>> => BacklogInv'
BY DEF BacklogInv

LEMMA PassKept ==
  PassInv /\ UNCHANGED <<at, scanVars, client_sockets, read_fds>>
    /\ (backlog # <<>> => backlog' # <<>>) => PassInv'
BY DEF PassInv, scanVars, Current, connected_clients

LEMMA DieInv == UnameInv /\ Die /\ at' \in {"down", "undefined"} => UnameInv'
<1> SUFFICES ASSUME UnameInv, Die, at' \in {"down", "undefined"}
             PROVE  UnameInv'
  OBVIOUS
<1>1. TableInv' /\ BacklogInv'
  BY DieTable DEF UnameInv
<1>2. PassInv'
  <2>1. /\ i' = 1 /\ activity' = 0 /\ temp_fds' = {}
    BY DEF Die
  <2>2. 1 \in 1..(MAX_CLIENTS + 1) /\ 0 \in 0..(MAX_CLIENTS + 1)
    BY FdFacts
  <2> QED
    BY <2>1, <2>2 DEF PassInv
<1>3. FileInv'
  BY DieFile DEF UnameInv
<1> QED
  BY <1>1, <1>2, <1>3 DEF UnameInv

LEMMA AcceptInv == UnameInv /\ Accept => UnameInv'
<1> SUFFICES ASSUME UnameInv, Accept
             PROVE  UnameInv'
  OBVIOUS
<1> USE DEF UnameInv
<1>1. at = "accept" /\ backlog # <<>>
  BY DEF Accept, PassInv
<1>2. CASE connected_clients = MAX_CLIENTS
  BY <1>2, DieInv DEF Accept
<1>3. CASE connected_clients # MAX_CLIENTS
  <2>1. PICK fd : fd = Min(Fd \ {fdOf[p] : p \in Peer})
    OBVIOUS
  <2>2. /\ backlog' = Tail(backlog) /\ fdOf' = [fdOf EXCEPT ![Head(backlog)] = fd]
        /\ client_sockets' = Append(client_sockets, fd)
        /\ client_names' = Append(client_names, Head(backlog))
        /\ Removed(Head(backlog)) /\ read_fds' = read_fds \cup {fd} /\ Raised(fd)
        /\ Handled(1) /\ UNCHANGED <<sent, closed, place>>
    BY <1>3, <2>1 DEF Accept
  <2>3. fd \in Fd /\ \A p \in Peer : fdOf[p] # fd
    BY <2>1, FreeFd
  <2>4. TableInv'
    BY <1>1, <1>3, <2>2, <2>3, AcceptTable
  <2>5. BacklogInv'
    BY <1>1, <2>2, AcceptBacklog
  <2>6. PassInv'
    BY <1>1, <2>2, <2>4, AcceptPass
  <2>7. FileInv'
    BY <1>1, <2>2, <2>3, AcceptFile
  <2> QED
    BY <2>4, <2>5, <2>6, <2>7
<1> QED
  BY <1>2, <1>3

LEMMA RecvInv ==
  ASSUME UnameInv, NEW j, NEW p \in Peer,
         RecvRecord(j, p) \/ RecvEnd(j, p) \/ RecvError(j, p)
  PROVE  UnameInv'
<1> USE DEF UnameInv
<1>1. Turn(j, p) /\ Handled(j + 1)
  BY DEF RecvRecord, RecvEnd, RecvError
<1>2. j \in Entry /\ client_names[j] = p
  BY <1>1, TurnFacts DEF PassInv
<1>3. TableInv' /\ \A k \in Entry' : k > j => k \in Entry /\ client_sockets'[k] = client_sockets[k]
  <2>1. CASE TableFrame
    BY <2>1, TableKept DEF TableFrame, Entry, connected_clients
  <2>2. CASE RecvEnd(j, p)
    <3>1. TableInv'
      BY <1>2, <2>2, EndTable DEF RecvEnd
    <3>2. /\ Len(client_sockets') = Len(client_sockets) - 1
          /\ \A k \in 1..(Len(client_sockets) - 1) :
               client_sockets'[k] = IF k = j THEN client_sockets[Len(client_sockets)]
                                    ELSE client_sockets[k]
      <4>1. client_sockets \in Seq(Fd) /\ j \in 1..Len(client_sockets)
        BY <1>2 DEF TableInv, Entry, connected_clients
      <4> QED
        BY <2>2, <4>1, MoveProperties DEF RecvEnd
    <3>3. Len(client_sockets) \in Nat /\ j \in Nat
      BY <1>2, TableFacts DEF connected_clients, Entry
    <3> QED
      BY <3>1, <3>2, <3>3 DEF Entry, connected_clients
  <2> QED
    BY <2>1, <2>2 DEF RecvRecord, RecvError, TableFrame, setVars, tableVars
<1>4. BacklogInv'
  <2>1. CASE UNCHANGED <<backlog, fdOf>>
    BY <2>1, BacklogKept
  <2>2. CASE RecvEnd(j, p)
    <3>1. backlog' = backlog /\ fdOf' = [fdOf EXCEPT ![p] = None]
      BY <2>2 DEF RecvEnd
    <3> QED
      BY <3>1, ElementOfSeq DEF BacklogInv, TableInv
  <2> QED
    BY <2>1, <2>2 DEF RecvRecord, RecvError
<1>5. PassInv'
  <2>1. connected_clients' \in Nat
    BY <1>3, LenProperties DEF TableInv, connected_clients
  <2> QED
    BY <1>1, <1>3, <2>1, TurnPass
<1>6. FileInv'
  BY RecordFile, EndFile, ErrorFile
<1> QED
  BY <1>3, <1>4, <1>5, <1>6

LEMMA UnameStep == UnameInv /\ [Next]_vars => UnameInv'
<1> SUFFICES ASSUME UnameInv, [Next]_vars
             PROVE  UnameInv'
  OBVIOUS
<1> USE DEF UnameInv
<1>1. CASE Select
  <2>1. TableFrame /\ UNCHANGED <<files, fdOf, sent, closed, place, backlog>>
    BY <1>1 DEF Select, TableFrame, tableVars, setVars, kernelVars
  <2> QED
    BY <1>1, <2>1, TableKept, BacklogKept, SelectPass, FileKept
<1>2. CASE Accept
  BY <1>2, AcceptInv
<1>3. CASE EndScan \/ Start
  <2>1. TableFrame /\ UNCHANGED <<files, fdOf, sent, closed, place, backlog>>
    BY <1>3 DEF EndScan, Start, TableFrame, tableVars, setVars, kernelVars
  <2>2. PassInv'
    <3>1. at' = "select" /\ i' = 1 /\ activity' = 0 /\ temp_fds' = {}
      BY <1>3 DEF EndScan, Start, PassInv, scanVars
    <3>2. 1 \in 1..(MAX_CLIENTS + 1) /\ 0 \in 0..(MAX_CLIENTS + 1)
      BY FdFacts
    <3> QED
      BY <3>1, <3>2 DEF PassInv
  <2> QED
    BY <2>1, <2>2, TableKept, BacklogKept, FileKept
<1>4. CASE Kill
  BY <1>4, DieInv DEF Kill
<1>5. ASSUME NEW j \in 1..MAX_CLIENTS, NEW p \in Peer, RecordFails(j, p)
      PROVE  UnameInv'
  BY <1>5, DieInv DEF RecordFails
<1>6. ASSUME NEW j \in 1..MAX_CLIENTS, NEW p \in Peer,
             RecvRecord(j, p) \/ RecvEnd(j, p) \/ RecvError(j, p)
      PROVE  UnameInv'
  BY <1>6, RecvInv
<1>7. ASSUME NEW p \in Peer, Connect(p)
      PROVE  UnameInv'
  <2>1. TableFrame /\ UNCHANGED <<at, scanVars, client_sockets, read_fds>>
    BY <1>7 DEF Connect, TableFrame, tableVars, setVars
  <2>2. BacklogInv' /\ backlog' # <<>>
    BY <1>7, ConnectBacklog
  <2> QED
    BY <1>7, <2>1, <2>2, TableKept, PassKept, ConnectFile
<1>8. ASSUME NEW p \in Peer, Send(p) \/ Leave(p)
      PROVE  UnameInv'
  <2>1. /\ TableFrame /\ UNCHANGED <<at, scanVars, client_sockets, read_fds>>
        /\ UNCHANGED <<backlog, fdOf>>
    BY <1>8 DEF Send, Leave, TableFrame, tableVars, setVars
  <2> QED
    BY <1>8, <2>1, TableKept, BacklogKept, PassKept, SendFile, LeaveFile
<1>9. CASE UNCHANGED vars
  <2>1. /\ TableFrame /\ UNCHANGED <<at, scanVars, client_sockets, read_fds>>
        /\ UNCHANGED <<files, fdOf, sent, closed, place, backlog>>
    BY <1>9 DEF vars, TableFrame, tableVars, setVars, kernelVars
  <2> QED
    BY <2>1, TableKept, BacklogKept, PassKept, FileKept
<1> QED
  BY <1>1, <1>2, <1>3, <1>4, <1>5, <1>6, <1>7, <1>8, <1>9 DEF Next, Server

LEMMA UnameInit == Init => UnameInv
<1> SUFFICES ASSUME Init
             PROVE  UnameInv
  OBVIOUS
<1>1. connected_clients = 0 /\ Entry = {} /\ Len(client_names) = 0 /\ Len(backlog) = 0
      /\ connected_clients <= MAX_CLIENTS
  BY EmptySeq, FdFacts DEF Init, connected_clients, Entry
<1>2. TableInv
  <2>1. client_sockets \in Seq(Fd) /\ client_names \in Seq(Peer) /\ IsInjective(client_sockets)
    BY EmptySeq DEF Init, IsInjective
  <2>2. fdOf \in [Peer -> Fd \cup {None}] /\ \A p \in Peer : fdOf[p] = None
    BY DEF Init, NoConnections
  <2>3. /\ read_fds = {ServerFd} /\ max_fd = ServerFd /\ ServerFd <= ServerFd
        /\ {client_sockets[j] : j \in Entry} = {}
    BY <1>1, FdFacts DEF Init
  <2> QED
    BY <1>1, <2>1, <2>2, <2>3 DEF TableInv
<1>3. BacklogInv
  BY <1>1, EmptySeq DEF Init, BacklogInv, IsInjective
<1>4. PassInv
  BY FdFacts DEF Init, PassInv
<1>5. FileInv
  <2>1. FileTypes
    BY EmptySeq DEF Init, FileTypes, NoFile, NothingSent, NothingClosed
  <2>2. ASSUME NEW p \in Peer
        PROVE  ClientOk(p)
    BY DEF Init, ClientOk, NoFile, NothingSent, NothingClosed, NoConnections
  <2> QED
    BY <2>1, <2>2 DEF FileInv
<1> QED
  BY <1>2, <1>3, <1>4, <1>5 DEF UnameInv

LEMMA UnameAlways == Spec => []UnameInv
BY UnameInit, UnameStep, PTL DEF Spec


\* The variables have the values the code can give them: the arrays are
\* never longer than MAX_CLIENTS, the index and the count of a pass stay in
\* their range, and no file has more than one record.
THEOREM UnameTypes == Spec => []TypeOK
<1>1. UnameInv => TypeOK
  <2> SUFFICES ASSUME UnameInv
               PROVE  TypeOK
    OBVIOUS
  <2>1. read_fds \subseteq Fd \cup {ServerFd}
    BY TableFacts DEF UnameInv, TableInv
  <2>2. \A p \in Peer : Len(files[p]) <= 1
    <3> SUFFICES ASSUME NEW p \in Peer
                 PROVE  Len(files[p]) <= 1
      OBVIOUS
    <3>1. files[p] = <<>> \/ files[p] = <<p>>
      BY DEF UnameInv, FileInv, ClientOk, NoFile
    <3>2. CASE files[p] = <<>>
      BY <3>2, EmptySeq
    <3>3. CASE files[p] = <<p>>
      BY <3>3
    <3> QED
      BY <3>1, <3>2, <3>3
  <2> QED
    BY <2>1, <2>2 DEF UnameInv, TableInv, PassInv, FileInv, FileTypes, TypeOK
<1> QED
  BY <1>1, UnameAlways, PTL

\* However the entries were moved, each open connection is in the table once
\* and under its own name, and select watches these and the listening socket.
THEOREM UnameTable == Spec => []TableMatchesKernel
<1>1. UnameInv => TableMatchesKernel
  <2> SUFFICES ASSUME TableInv
               PROVE  TableMatchesKernel
    BY DEF UnameInv
  <2>1. ToSet(client_sockets) = {client_sockets[j] : j \in Entry}
    BY LenProperties DEF ToSet, TableInv, Entry, connected_clients
  <2>2. ToSet(client_sockets) = {fdOf[p] : p \in Peer} \ {None}
    <3>1. ASSUME NEW j \in Entry
          PROVE  client_sockets[j] \in {fdOf[p] : p \in Peer} \ {None}
      BY TableFacts
    <3>2. ASSUME NEW p \in Peer, fdOf[p] # None
          PROVE  fdOf[p] \in {client_sockets[j] : j \in Entry}
      <4>1. PICK j \in Entry : client_names[j] = p
        BY <3>2 DEF TableInv
      <4> QED
        BY <4>1, TableFacts
    <3> QED
      BY <2>1, <3>1, <3>2
  <2> QED
    BY <2>1, <2>2 DEF TableInv, TableMatchesKernel, Entry
<1> QED
  BY <1>1, UnameAlways, PTL

\* While a client is connected its file holds what it has sent on this
\* connection, once, and nothing else.
THEOREM UnameSaves == Spec => []SavedAsSent
<1>1. UnameInv => SavedAsSent
  <2> SUFFICES ASSUME UnameInv, NEW p \in Peer, fdOf[p] # None
               PROVE  /\ files[p] \in {NoFile, <<p>>}
                      /\ place[p] = "done" => (files[p] = NoFile <=> sent[p])
    BY DEF SavedAsSent
  <2>1. ClientOk(p) /\ sent[p] \in BOOLEAN
    BY DEF UnameInv, FileInv, FileTypes
  <2>2. <<p>> # NoFile
    BY DEF NoFile
  <2> QED
    BY <2>1, <2>2 DEF ClientOk
<1> QED
  BY <1>1, UnameAlways, PTL

\* The pass is left early only when no entry is still to be handled.
THEOREM UnameWholePass == Spec => NoEarlyBreak
<1> DEFINE Step == /\ at = "accept" /\ at' = "select" => Current = {}
                   /\ at = "scan" /\ at' = "select"   => Cardinality(Current) <= 1
<1>1. UnameInv /\ [Next]_vars => [Step]_vars
  <2> SUFFICES ASSUME UnameInv, Next
               PROVE  Step
    BY DEF Step
  <2> USE DEF UnameInv
  <2>1. ASSUME at = "accept", at' = "select"
        PROVE  Current = {}
    <3>1. Accept
      BY <2>1 DEF Next, Server, Select, EndScan, RecvRecord, RecordFails, RecvEnd, RecvError, Turn,
                  Kill, Start, Connect, Send, Leave
    <3>2. activity - 1 <= 0
      BY <2>1, <3>1 DEF Accept, Handled
    <3>3. activity = Cardinality(temp_fds) /\ ServerFd \in temp_fds /\ activity \in 0..(MAX_CLIENTS + 1)
          /\ IsFiniteSet(temp_fds)
      BY <2>1, ReportedBound DEF PassInv
    <3>4. Cardinality(temp_fds \ {ServerFd}) = Cardinality(temp_fds) - 1
          /\ IsFiniteSet(temp_fds \ {ServerFd})
      BY <3>3, FS_RemoveElement
    <3>5. Cardinality(temp_fds \ {ServerFd}) = 0
      <4>1. Cardinality(temp_fds \ {ServerFd}) \in Nat
        BY <3>4, FS_CardinalityType
      <4> QED
        BY <3>2, <3>3, <3>4, <4>1
    <3>6. temp_fds \ {ServerFd} = {}
      BY <3>4, <3>5, FS_EmptySet
    <3> QED
      BY <3>6, CurrentFacts, TableFacts, FdFacts
  <2>2. ASSUME at = "scan", at' = "select"
        PROVE  Cardinality(Current) <= 1
    <3>1. Cardinality(Current) <= activity /\ activity \in Nat /\ Cardinality(Current) \in Nat
      BY <2>2, CurrentFacts, FdFacts DEF PassInv
    <3>2. CASE EndScan
      BY <3>2, FS_EmptySet DEF EndScan
    <3>3. ASSUME NEW j, Handled(j)
          PROVE  activity - 1 <= 0
      BY <2>2, <3>3 DEF Handled
    <3>4. EndScan \/ \E j : Handled(j)
      BY <2>2 DEF Next, Server, Select, Accept, RecvRecord, RecordFails, RecvEnd, RecvError,
                  Kill, Start, Connect, Send, Leave
    <3> QED
      BY <3>1, <3>2, <3>3, <3>4
  <2> QED
    BY <2>1, <2>2
<1> QED
  BY <1>1, UnameAlways, PTL DEF Spec, NoEarlyBreak
=============================================================================
