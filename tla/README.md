# Verification of the IT4062E network programs

TLA+ modules, TLC runs and TLAPS proofs about the homework programs of the
course *Network Programming* (`src/`). Each `NguyenHoangHai_20200193_HWn`
directory, HWn below, is a program of its own; what they have in common is a
list of accounts kept in `account.txt` and servers that serve several clients at
once in different ways: `select` (HW7, HW7b, HW8), threads (HW6), datagrams
(HW3, HW4), one after the other (HW5).

## 1. The system

| Component | State | Operations | Hard parts |
|---|---|---|---|
| **HW7 `server.c`** login server, one process, `select` | `checkfds`, `readfds`, `maxfd`; per slot `client`, `clientStatus`, `username` | accept, close, username, password, signout; a save at every close | the result of `select` is used while slots open and close; `accept` is not tested; a session can end in three ways |
| **HW7 `account.c`** (same text in HW7b) | linked list: active, attempts, signed in; `account.txt` | `read_account`, `process_login`, `process_logout`, `save_to_file` | truncate-then-write, a NULL list, duplicate names, blocking |
| **HW7 `client.c`** (HW6 the same) | none | connect, send a line, read a reply, close | may go away at any time |
| **HW6 `server.c`, `account.c`** login server, a thread per connection | one list and one file shared by all threads, no lock; per thread status, username | as HW7 without signed-in flag and logout | `attempts++` and saves race |
| **HW4 `server.c`, `account.c`** UDP login and relay server | `clients[2]`, `clients_status[2]`, **one** `username` and `password` buffer; list with `client_idx` | sign-in over two datagrams, change password, bye, relay to the other client | shared buffers, a third address, datagrams in any order |
| **HW7b `server.c`, `client.c`** HW7 plus echo and image upload | HW7's, `image[i]`, uploaded files; the client's status | two more states of a connection | the end of an upload is a NUL byte in a stream; the client's status follows the text of replies; `image[i]` is read before it is written; two users' files may have one path |
| **HW5 `server.c`, `client.c`** message splitting and file display, one client at a time | `client_status` on both sides | choose, send, upload, exit | end of file as an empty string in a stream |
| **HW3 `server.c`, `client.c`** UDP relay | `clients[2]`, never initialised; the client's two threads | echo an empty datagram, relay digits and letters | uninitialised table, third client, a client that waits for a datagram with no timeout |
| **HW8 `server.c`** collects `uname` data, `select` | arrays of five, `connected_clients` | accept, record, close by moving the last entry | no test of the length, skipped entries |
| **HW1** account manager, one user | accounts, failed attempts, current user, file | register, sign in, search, sign out | counting attempts over sign-ins of others |
| HW2 `resolver.c`; `TCP samples`, `UDP samples`, `TCP concurrent server samples` | none that outlives a message | resolve; echo | – |

What makes each correct: the tables of a server and of the kernel agree and the
one thread never waits where it need not; an account is used from one window
(HW7) or slot (HW4); three wrong passwords block and a block stays; what the
list says reaches the file; nobody starves. `PROJECT.json` lists the hazards
one by one with their lines.

## 2. What is modelled

The account programs, and the servers of other kinds:

| Module | Models |
|---|---|
| `AccountList` | HW7/HW7b `account.c`, `account.h`: operators, no variables |
| `SelectServer` | HW7 `server.c` with its clients, restarts and kills |
| `LoginRegistry` | abstract specification: who is signed in to what, what is on disk |
| `SelectServerRegistry` | the refinement mapping from `SelectServer` to `LoginRegistry` |
| `ThreadServer` | HW6 `server.c`, `account.c` |
| `UdpLoginServer` | HW4 `server.c`, `account.c` |
| `UploadStream` | HW5 `server.c` with `client.c` over a byte stream |
| `UnameServer` | HW8 `server.c` with its clients |
| `ChatServer` | HW7b `server.c` with `client.c`: modes, messages, uploads |
| `AccountManager` | HW1, with its file, ends and restarts |
| `AccountStore` | abstract specification: what HW1 promises its user; `AccountManager` holds the mapping |
| `UdpRelay` | HW3 `server.c` with `client.c` over a network that loses, repeats and reorders |
| `SelectServerProofs`, `ThreadServerProofs`, `UdpLoginServerProofs`, `UploadStreamProofs`, `UnameServerProofs`, `ChatServerProofs`, `AccountManagerProofs`, `UdpRelayProofs` | TLAPS proofs about the module of that name, section 4 |
| `MCSelectServer`, `MCThreadServer`, `MCUdpLoginServer`, `MCUploadStream`, `MCUnameServer`, `MCChatServer` | instances for TLC |

### AccountList
Names and passwords never change in HW7, so they are constant functions `Name`
and `Pass` over the lines of the file; the state of a node is a record. The
first node with a name hides later ones (`Lookup`), as in the loops of
`process_login`. `LoginAnswer` is the answer, `LoginEffect` what is left in the
node; `attempts` is only compared with `MAX_ATTEMPTS`, so it is kept up to that.

### SelectServer
One step per point where the kernel or a peer can interfere: `Select`,
`Accept`/`AcceptFails`, one step per ready slot (`RecvFails`, `EnterUsername`,
`EnterPassword`, `Command`, each with its reply, whose `send` may fail and close
the slot), `EndScan`, and two steps for a save, `Truncate` and `Write`. `pc`
is the place in the loop, `cursor` the `i` of the scan. The kernel's side is
`open`, `pending`, `hungUp` and `backlog`. Descriptors are numbers and `accept`
takes the lowest free one, so they are reused as in the program. `Kill` and
`Start` are the end of the process and its next start on the same file.
The text a `recv` returns is chosen when it is read: a stream may split and join
lines, so any text may come whatever the client typed.
`accept` returning -1 is modelled with what the build can do next: `FD_SET(-1)`
aborts (checked build) or sets a bit that was already set.

### ThreadServer
Cut at each access to the shared list: `attempts++` is `ReadAttempts` and
`WriteAttempts`; the second look at `attempts` may see either value; the test of
`is_active` and the clearing of `attempts` are two steps. `save_to_file` is
`OpenFile` (truncates), one `PrintNode` for each `fprintf` into the stream's own
buffer, and `Flush` at `fclose`. The variables `wrong`, `disturbed` and `raced` are history:
nothing but properties and their own updates reads them.

### UdpLoginServer
A datagram is handled to its end before the next, so a handler is one step.
`IndexOf` is lines 103–131, including the index 0 that an address without a slot
keeps. Passwords change, so they are in the list and in the file. `given`,
`owner` and `actor` are history; `owner[a]` is the address that last signed in to
`a`, `actor[a]` the one that last signed in to it, acted for it (a text to relay, a
change of the password) or signed it out, and both are kept after a sign-out.
`SameClientActs` compares the two: `TakenFor` is the client the server takes an
address for, which is the client of slot 0 for an address that found no slot.

### UploadStream
The stream `c2s[c]` is a sequence of bytes, and a `recv` takes what is there, up
to `BUFF_SIZE`: sends are joined when the server does not listen in between, and
split at the end of its buffer. Bytes are the two that mean something, NUL and
newline, and characters; a file and a message may look like a choice. `Line` and
`CString` are what the code compares: the last byte cut off, and all up to a NUL.
The code relies on time, and so does the model, with one assumption: a user, and a
client in `sleep(2)`, are slower than a server that has something to read
(`ServerWaits`). A server that sleeps, or serves someone else, hears nothing, so
there the assumption gives nothing. `plain[c]` is history: the client has
sent only while the server was in `recv` on its connection, and no file with a
NUL. While that holds, both sides are in step; without it they are not: a client
in the queue that chooses, uploads and pauses has all of it read as one piece,
which is no choice. Long lines that TCP splits are left out.

### UnameServer
The three arrays up to `connected_clients` are two sequences, of descriptors and
of names (address and port). `Handled` is the count of `activity` that may leave
the pass early. Step `RecvEnd` closes and moves the last entry, and the pass goes
on behind it. A connection more than `MAX_CLIENTS` is a write behind the arrays:
the step goes to `"undefined"`, of which nothing is said until the next start.

### ChatServer
Slots, `select` and the two halves of a save are those of `SelectServer` and are
not repeated: a connection is its client, and what the server does with one `recv`
is one step, named for the `case` it is (`EnterUsername`, `SignIn`/`Refuse`,
`SignOut`, `Command`, `Message`, and in upload mode `LeaveUpload`, `EndImage`,
`AppendImage`, `NameImage`). Of the account list only the marks are kept, so that
any login may be refused and one at an unmarked account may succeed. The stream
`c2s[c]` is as in `UploadStream`; a string is a sequence of words and bytes, so
that `strcmp`, the cut of the last byte and the text up to a NUL are what they are
in C. `Parts` says which words contain an underscore, and thereby which paths
`username_filename` are the same. `freed` is what memory returned by `malloc` may
still hold: `image[i]` of a new connection is empty or the path of an old one.
The client's steps are a line, the name of a file, a piece of it, the NUL, and the
`recv`; `Follow` is its status after a reply, in which `strstr` finds a text
anywhere: the echo of the message "Exited send message mode" takes the client out
of a mode the server stays in.
Time is as in `UploadStream` (`ServerWaits`): the server is faster than a user and
than `sleep(1)`; pieces of a file follow each other at once and may be joined.
History: `sent`, what the client has sent of its file; `apart`, the two have
stopped to agree, because of such an echo or because a piece that is read alone is
a newline or begins with a NUL; `shared`, the file may hold what others upload,
because it has the path of theirs or the name was in the memory of `image[i]`.
The properties are conditional on these, which is what the code can keep.

### AccountManager
Each choice of the menu that changes something is an action: `Register`, `SignIn`,
`SignInFails` (which counts and, at the third, blocks), `SignOut`. Registration and
a block go on to `Truncate` and `Write`. `End` is possible at every point. The list
of failed attempts is a function that is 0 for names not in the list. The file may
name an account twice, and then the first counts.
`AccountStore` has the accounts as a function and knows no file; the mapping takes
the accounts from the file, and from the list while the file is empty because it
is being written. So a registration or a block that never reached the file, and a
count that outlives a right password, are not steps of the store.

### UdpRelay
The server handles a datagram to its end, so a handler is one step: `HandleEmpty`
(echo), `HandleAlone` (nobody else known), `HandleInvalid` ("Error"), `HandleValid`
(relay). `Start` fills `clients` with zeros or rubbish, as the stack may be.
`bytes_sent`, tested at line 110 although line 108 does not set it, has no value
before the first relay, and the server may end there. `IndexOf` is the search,
with the index 0 an address without a slot keeps. The client is `Launch` (an empty
datagram, then a `recvfrom` with no timeout), `SendLine`, `Receive`, and an empty
line to end: `close` does not wake the other thread out of `recvfrom`, the echo of
the empty datagram does. Requests and replies under way are sets: order is lost,
`Lose` takes one away, and a request that stays when it is received is a duplicate.

### LoginRegistry
Five things can happen to an account: sign in, sign out, its window goes away
(the account is then *gone* until the next start), a block, and a save in two
halves. The mapping takes a window to be a slot of the table.

## 3. Runs

All runs finish in less than five minutes with two workers.

| Run | Bounds | Shows |
|---|---|---|
| `SelectServer` | 1 account, 2 connections, 3 attempts, backlog 1, fairness | tables agree, `recv` never blocks, one window per account, saved when idle, blocks final; lines are read and ends noticed |
| `SelectServerRegistry` | 2 accounts, 2 connections, 1 attempt, `fopen` may fail | refines `LoginRegistry`; the file is empty only because of a save; a block on disk stays |
| `SelectServerHeld` | 1 account, 2 connections | **violated**, see 6 |
| `ThreadServer` | 2 threads, 2 accounts, 2 attempts, `fopen` may fail | updates are lost only by saves that fail or overlap, counts only by two logins at one account; races invent no block |
| `ThreadServerSave` | 2 threads, 1 account, 2 attempts | **violated**, see 6 |
| `UdpLoginServer` | 3 addresses for 2 slots, 2 accounts, 1 attempt | slots, accounts and addresses correspond; who acts for an account or signs it out is taken for the client that signed in; a block on disk stays |
| `UdpLoginServerName` | 2 addresses, 2 accounts | **violated**, see 6 |
| `UploadStream` | 2 clients, files of 2 bytes, 3 bytes under way, fairness | both sides in step and files whole when the server listens; everyone is served if nobody stays |
| `UnameServer` | 3 clients, table of 2, fairness | moved entries, early end of a pass, files of their own client; all data read, all ends noticed |
| `ChatServer` | 2 clients and accounts whose files can share a path, files of 2 and 1 bytes, fairness | client and server in one mode whenever the user can type; a file is written for its own user and is whole when "image uploaded" is said; who waits is answered |
| `AccountManager` | 3 words, 3 attempts, 2 accounts | implements `AccountStore`, with the block at the third attempt and none after it (see 6) |
| `UdpRelay` | 3 clients, 2 datagrams under way at a send, fairness | texts go to the other client, never back; who asks or ends is not kept waiting while nothing is lost |

Why the bounds are enough. Two connections give every interaction the code has
between slots (the code compares slots only by position and descriptor), reuse
of descriptors and slots, a full table and a failing `accept`. Two accounts make
"the other account" exist; the proofs cover every number of both. The
texts are those the code tells apart: nothing, "signout", a name, a password,
something else. `MaxBacklog` bounds connections not yet accepted; one is enough
because a second waits in the kernel and changes nothing. With `MaxAttempts` 1
or 2 the path to a block is shorter, not different; `SelectServer` and
`AccountManager` use the code's 3. `SelectServerRegistry` takes each password for the
name of the other account, which keeps texts few. `UdpLoginServer` has one address
more than slots, so that the table can be full and an address be taken for the client
of slot 0; to afford it, names and passwords are the two commands, each account having
the other's name for its password, which the status of the slot tells apart. For
`UploadStream` three bytes hold a line joined with a piece or an end, and a buffer
of two splits it; longer files and streams repeat the same steps. A table of two
has an entry to move and an entry that is skipped, and a third client fills it
beyond its end. For
`ChatServer` a file of two bytes has two pieces that are joined or split, one that
is a NUL or a newline, and a byte too many is still seen (`MaxFile` and one);
only files that `image[i]` names are kept (`Keep`), and when client and server have stopped
to agree the user gives up after that upload (`Turn`): what a client out of step does
further is not followed. The first client signs in, uploads, sends messages and
signs out, the second only uploads, to the same path. In `UdpRelay` three clients
are one more than the slots, two datagrams under way overtake each other, and a
duplicate is made only while no reply is under way. `AccountManager` stops at two
accounts: the counts of two names and a hidden second line of one name.
Threads are interchangeable, and `SYMMETRY`
is used only in runs of invariants. Deadlock is checked in all runs.

**Fairness.** `FairSpec` of `SelectServer`, `UploadStream` and `UnameServer` is weak
fairness of the process as a whole: it is one thread that the system schedules.
`EveryoneServed` says in its own premise that clients leave. Nothing is assumed of peers,
kills or restarts. In `ChatServer` it is weak fairness of each connection, since a
pass over the slots handles all that are ready and starts anew only then, and of
a client's return from `recv`; in `UdpRelay`, of the answer to an empty datagram and of
a client's return from `recvfrom`. Nothing is assumed of users and of the network;
`ClientEnds` holds as long as `fair`, that is, no datagram lost and no end of the server.
`send` is taken not to block, which holds while a client has
few replies unread; the client of the repository sends a line and then waits for
the reply. Nothing is claimed about liveness of `ThreadServer`, whose threads never
wait for one another, or of `UdpLoginServer`, whose datagrams may all be lost.

**Mutants.** Each property of a passing run has a variant of one definition,
named as a mutant in the module, that breaks it: a dropped test of a flag, a
missing `FD_CLR`, `checkfds` for `readfds`, an off-by-one, a save left out.

## 4. Proofs

Every invariant and every action property of the passing runs, and both
refinements, are proved for all values of the constants: any number of clients,
threads, descriptors and accounts, any texts, any lengths. Each `*Proofs` module
extends the module it is about and is laid out alike: lemmas about the operators and
about what a step leaves alone, the inductive invariant, one lemma per action, and
the theorems at the end. None of the properties below is inductive alone; the
tables name what each needed. Each strengthened invariant was model-checked
before it was proved.

**`SelectServerProofs`** (from `AccountsAssumption`, `NullAssumption`, `ServerAssumption`)

| Theorem | Argument |
|---|---|
| `TypeCorrect` | `TypeOK` is inductive |
| `TableCorrect` | `TableInv`: slots and open descriptors correspond one to one. There is always a free slot when a descriptor is free (`FreeSlotExists`), because there are fewer connection descriptors than slots: a counting argument on finite sets |
| `RecvNeverBlocks` | `ReadyInv`: bits of `readfds` still to be tested are of descriptors with bytes or an end; needs `TableInv`, since a new connection must not get a descriptor whose bit is set and yet untested |
| `OneWindow` | `SessionInv`: a session's node is marked, and two sessions do not share a node; needs the first-match lookup, since names may repeat. `SessionIsRegistered` is proved here and in no run |
| `BlockFinal` | a step property from the type invariant |
| `DiskBlockForEver` | file and list agree about the blocked account (`DiskAgrees`), which makes "not active on disk" stable |
| `FileFollowsList`, `EmptyOnlyFromSave` | `SaveInv` ties `pc`, file and list together |
| `ServerImplementsRegistry` | the refinement of `LoginRegistry`, one lemma per action: `SessionInv` makes the holder of an account unique, so the mapped step is one of the registry's or changes nothing in it |

**`ThreadServerProofs`** (from `AccountsAssumption`, `ThreadAssumption`)

| Theorem | Argument |
|---|---|
| `ThreadTypes` | with `NothingWhenDown`: no thread runs without a server |
| `DiskBehind` (`DiskNeverAhead`) | activity only ever goes from true to false in the list, so a picture in a buffer or in the file may be old, and never ahead |
| `SavedUnlessOverlap` | `SaveInv`: while no two saves have overlapped, what an account has in the list is on disk, in the buffer of the save under way, still to be read by it, or a later save is to come (`Accounted`) |
| `BlockedUnlessTwoLogins` | `CountInv`: while no two threads met at a node, what a thread has read is what the node holds (`ReadRight`, `WrittenRight`), counts are right, and an account due to be blocked is, or its thread is about to test |

**`UdpLoginServerProofs`** (from `UdpAssumption`, `UdpNullAssumption`)

| Theorem | Argument |
|---|---|
| `UdpTypes`, `SlotAndAccount`, `RelayHasTarget` | `LoginInv`: whoever has begun to sign in has a slot (`SlotsTaken`), no address has two (`OneSlotEach`), a slot in use has exactly one account and an unused one none (`HeldOnce`) |
| `BlockReachesDiskForGood` | `DiskBehind`: what the file blocks is blocked in memory |
| `ActorIsClient` (`SameClientActs`) | `OwnerInv`: the owner of an account in use is taken for the client of its slot (`OwnerOfSlot`), and owner and actor are taken for the same client (`Agree`), the same address while a slot is unused. A step that gives an unused slot away leaves the address of every slot in use; when there is none, the table no longer changes |
| `OwnerActsOfTwo` | from the same invariant, under the hypothesis `NoThirdAddress` (no more addresses than slots): then a full table has all of them, and only the address that signed in acts for an account and signs it out. Without the hypothesis that is false |

**`UploadStreamProofs`** (from `UploadAssumption`)

| Theorem | Argument |
|---|---|
| `UploadTypes`, `BothInStep`, `FilesWhole` | `UploadInv`: `InPhase` says what the stream of a client can hold that has only sent while the server listened, with the place of the client and the status of the server: nothing, one choice, a message, an empty line, a NUL, or a rest of the file which, with what is printed, makes up the file. The recv that splits and joins keeps it by facts about `SubSeq` and `\o`, for any buffer of two bytes or more |

**`UnameServerProofs`** (from `UnameAssumption`)

| Theorem | Argument |
|---|---|
| `UnameTypes`, `UnameTable` | `TableInv`: both arrays, the descriptors of the kernel and `read_fds` describe one set of connections, without repetition; `max_fd` is not below any of them. Moving the last entry into a gap is a lemma about sequences |
| `UnameWholePass` (`NoEarlyBreak`) | `PassInv`: `activity` counts at least the ready entries still to be handled, a counting argument over an array whose entries move |
| `UnameSaves` | `ClientOk`: a record is under way or in the file of its client |

**`ChatServerProofs`** (from `ChatAssumption`)

| Theorem | Argument |
|---|---|
| `ChatTypesHold` | with `Conn`: only a connection has a name, an image, bytes under way or an end to be noticed |
| `ChatInStep` | `Phase`: for each place of the client, what is under way in either direction and which states of the connection go with its status. A reply under way takes the client to the state the server is in (`Replies`) |
| `ChatOwnImage` | `Session` and `OneSession`: a session has one account that is marked, and no other session has it, so no signout of others clears the mark; with `OwnPath` in `Phase` |
| `ChatUploadWhole` | `Holds`: what the file has and what is under way make up what was sent. Only `EndImage` completes an upload (`OnlyEndImage`), and then nothing is under way but the NUL |

**`AccountManagerProofs`** (from `ManagerAssumption`)

| Theorem | Argument |
|---|---|
| `ManagerTypes`, `ManagerImplementsStore` | `StoreInv`: between truncation and write the list is one registration or one block ahead of the file (`FileOneBehind`); a name with a count is in the list, and with a full one blocked (`CountedIsListed`). From this each step is one of `AccountStore` or a stutter |

**`UdpRelayProofs`** (from `RelayAssumption`)

| Theorem | Argument |
|---|---|
| `RelayTypes`, `RelayStaysWithTwo` | `RelayInv`: no client is in both slots (`OneSlotEach`), and nothing has been relayed without both taken |

**Assumptions.** They are named in the modules, and TLC evaluates them. Most say that
a marker (`NULL`, `Blank`, `Nobody`, an unopened file) is no value of the data. Two
say more. `UploadAssumption`: a message has two bytes or more, as one that is only a
newline is modelled apart, and fits the buffer of the server, and has no NUL before the
newline, as what `fgets` reads and `strlen` measures has none; bytes of files are
arbitrary. `ChatAssumption`: typed words are neither NUL nor newline, and a name has at
least one piece, so that no path is the empty string `image[i]` is tested for.

**Model-checked only.** The liveness properties (`EveryLineRead`, `EveryEndNoticed`,
`EveryRecordRead`, `EveryoneServed`, `Answered`, `ClientEnds`), since the provers do
not handle fairness and ENABLED; and the three violated properties of section 6, which
are counterexamples. The answers of the
account list are definitions over a finite list with a first-match lookup; what the
proofs need of it are the lemmas in `SelectServerProofs`, and no theorem says
more of it.

## 5. Plan

1. **Core (done)**: the account servers, `UploadStream` and `UnameServer`, their
   runs, proofs of `SelectServer`.
2. **More of the system (done)**: `ChatServer` (HW7b), `AccountManager` with
   `AccountStore` (HW1), `UdpRelay` (HW3). Left: `process_message` of HW3, HW4 and
   HW5 against a definition by filtering, and the words of `account.txt` for HW4,
   where a password may hold a space.
3. **Proofs (done)**: the safety properties of all components and both refinements.
   Left: properties of the abstract specifications themselves (`LoginRegistry`:
   an account gone stays gone until a start; `AccountStore`: a block is permanent), which
   the refinements then carry over to the programs.

## 6. Disagreements between the code and what it says

- **HW7, `SelectServerHeld`**: a connection that closes without "signout" leaves
  its account marked (`server.c:127`), although `account.c:57` reads "account
  already signed in": nobody is, and nobody can be until a restart.
- **HW6, `ThreadServerSave`**: "save any updates to file" (`server.c:176`) is not
  so when two threads save at once; the older picture may be written last.
- **HW4, `UdpLoginServerName`**: one username buffer for all clients; status 2
  ("both username and password are provided and they are valid", `account.h:15`)
  is reached with the password of one client and the name of another.
- **HW1, `AccountManager`**: "if the number of attempts is greater than 3, the
  account is blocked" (line 109), but line 235 tests `>= 3`, so the third wrong
  password blocks. `ImplementsStore` holds with `AccountStore` as the code has it:
  `Block` at three, `MayTry` never after it, so the number is never greater than 3.
  Line 109 is therefore no part of what that property is said to promise.

Known besides, and in the models, but not the subject of a run of their own:
two threads of HW6 that count at once lose a count, so that three wrong passwords
do not block (`account.c:61`; `BlockedUnlessRaced` is what remains); a third address is
handled as the client of slot 0 in HW4 (`server.c:109`) and HW3 (`server.c:71`), so
that it can act for the first client's account and sign it out (`SameClientActs` says
that this needs a full table and goes no further); HW7b appends to a file of another user when the memory of
`image[i]` still holds its path (`server.c:252`), and ends when a file cannot be
created (`server.c:273`).

Not every hazard is covered to its whole width. Excluded by a condition of the
property, and so known but not caught: counts that two logins at one account lose
(HW6, `raced`); a piece of a file that reads like an end, and an echo that reads like
a reply (HW7b, `apart`); two uploads with one path, and the path left in `image[i]`
(HW7b, `shared`). In no property: a block of HW7 that a restart undoes before any
connection has closed. The notes in `PROJECT.json` say so hazard by hazard.

## 7. Not modelled

HW2 and the samples keep no state. Of HW7b the slots, `select`, the steps of a save
and the counting of passwords are modelled in `SelectServer` and `AccountList`, whose
code is the same, and not a second time. HW4's client has the two threads of HW3's.
Left out of what is modelled: parsing of arguments and failures of `socket`,
`bind` and `listen` (the program ends before it serves), printed messages, the
wording of replies, lengths of texts, exhaustion of memory, kernel buffers of
`send`; of HW1 the menu after the end of the input, where `scanf` stores nothing and the
last choice repeats; of HW3 the texts themselves; of HW7b a line longer than a
buffer; of HW4 the splitting of a text into digits and letters, passwords with
spaces, and an `account.txt` that cannot be opened for reading; of HW6 failures of
`pthread_create`; of HW5 the replies and a byte written behind a full buffer; of
HW8 a structure that arrives in parts and an `accept` that fails. A save writes less than a buffer of a stream, so it reaches the
file at `fclose` in one piece.
