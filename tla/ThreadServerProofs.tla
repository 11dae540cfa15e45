--------------------------- MODULE ThreadServerProofs ---------------------------
(***************************************************************************)
(* Proofs about ThreadServer, for every number of threads and accounts and *)
(* every account file.                                                     *)
(***************************************************************************)
EXTENDS ThreadServer, TLAPS

LEMMA ConstantTypes ==
  /\ EmptyLine \in Text
  /\ NumAccounts \in Nat /\ NumAccounts >= 1 /\ 1 \in AccId
  /\ MaxAttempts \in Nat /\ MaxAttempts >= 1
BY AccountsAssumption DEF AccId

Lists    == [AccId -> Node] \cup {NULL}
Statuses == {USERNAME_REQUIRED, PASSWORD_REQUIRED, VALID_CREDENTIALS}

LEMMA ReadListType ==
  ASSUME NEW f \in Files
  PROVE  ReadList(f) \in Lists
BY ConstantTypes DEF ReadList, Lists, Node, Files

LEMMA NodeType ==
  ASSUME NEW list \in [AccId -> Node], NEW a \in AccId
  PROVE  /\ list[a].is_active \in BOOLEAN
         /\ list[a].attempts \in 0..MaxAttempts
BY DEF Node

\* What an assignment to one member of a node leaves.
LEMMA SetAttempts ==
  ASSUME NEW list \in [AccId -> Node], NEW a \in AccId, NEW n \in 0..MaxAttempts,
         NEW new, new = [list EXCEPT ![a].attempts = n]
  PROVE  /\ new \in [AccId -> Node]
         /\ \A b \in AccId : new[b].is_active = list[b].is_active
         /\ new[a].attempts = n
         /\ \A b \in AccId : b # a => new[b] = list[b]
BY DEF Node

LEMMA SetInactive ==
  ASSUME NEW list \in [AccId -> Node], NEW a \in AccId,
         NEW new, new = [list EXCEPT ![a].is_active = FALSE]
  PROVE  /\ new \in [AccId -> Node]
         /\ \A b \in AccId : new[b].attempts = list[b].attempts
         /\ ~new[a].is_active
         /\ \A b \in AccId : b # a => new[b] = list[b]
BY DEF Node

LEMMA SetAttemptsType ==
  ASSUME NEW list \in [AccId -> Node], NEW a \in AccId, NEW n \in 0..MaxAttempts
  PROVE  [list EXCEPT ![a].attempts = n] \in [AccId -> Node]
BY SetAttempts

LEMMA SetAttemptsKeeps ==
  ASSUME NEW list \in [AccId -> Node], NEW a \in AccId, NEW n \in 0..MaxAttempts, NEW b \in AccId
  PROVE  [list EXCEPT ![a].attempts = n][b].is_active = list[b].is_active
BY SetAttempts

LEMMA SetAttemptsAt ==
  ASSUME NEW list \in [AccId -> Node], NEW a \in AccId, NEW n \in 0..MaxAttempts
  PROVE  [list EXCEPT ![a].attempts = n][a].attempts = n
BY SetAttempts

LEMMA SetAttemptsElse ==
  ASSUME NEW list \in [AccId -> Node], NEW a \in AccId, NEW n \in 0..MaxAttempts,
         NEW b \in AccId, b # a
  PROVE  [list EXCEPT ![a].attempts = n][b] = list[b]
BY SetAttempts

LEMMA SetInactiveType ==
  ASSUME NEW list \in [AccId -> Node], NEW a \in AccId
  PROVE  [list EXCEPT ![a].is_active = FALSE] \in [AccId -> Node]
BY SetInactive

LEMMA CappedType ==
  ASSUME NEW n \in 0..MaxAttempts
  PROVE  Capped(n + 1) \in 0..MaxAttempts
BY ConstantTypes DEF Capped

-----------------------------------------------------------------------------
(***************************************************************************)
(* The types, and that nothing is left of a process that has ended.        *)
(***************************************************************************)

NothingWhenDown ==
  ~up => /\ account_list = NULL /\ \A t \in Thread : pc[t] = "none"
         /\ buffer = [t \in Thread |-> NoBuffer]
         /\ wrong = [a \in AccId |-> 0]

TypeInv == TypeOK /\ NothingWhenDown

LEMMA NoBufferType == NoBuffer \in [AccId -> BOOLEAN]
BY DEF NoBuffer

LEMMA InitTypeInv == Init => TypeInv
<1> SUFFICES ASSUME Init
             PROVE  TypeInv
  OBVIOUS
<1>1. NothingWhenDown
  BY DEF Init, NothingWhenDown
<1>2. /\ buffer \in [Thread -> [AccId -> BOOLEAN]] /\ wrong \in [AccId -> 0..MaxAttempts]
      /\ reg \in [Thread -> 0..MaxAttempts] /\ node \in [Thread -> AccId]
  BY ConstantTypes, NoBufferType DEF Init
<1>3. TypeOK
  BY <1>2 DEF Init, TypeOK, Labels, Files
<1> QED
  BY <1>1, <1>3 DEF TypeInv

LEMMA DieTypeInv == TypeInv /\ Die /\ file' \in Files => TypeInv'
<1> SUFFICES ASSUME TypeInv, Die, file' \in Files
             PROVE  TypeInv'
  OBVIOUS
<1>1. NothingWhenDown'
  BY DEF Die, NothingWhenDown
<1>2. /\ buffer' \in [Thread -> [AccId -> BOOLEAN]] /\ wrong' \in [AccId -> 0..MaxAttempts]
      /\ reg' \in [Thread -> 0..MaxAttempts] /\ node' \in [Thread -> AccId]
  BY ConstantTypes, NoBufferType DEF Die
<1>3. TypeOK'
  BY <1>2 DEF Die, TypeOK, Labels
<1> QED
  BY <1>1, <1>3 DEF TypeInv

\* A thread that is busy has a process and, past recv, a list.
LEMMA Busy ==
  ASSUME TypeInv, NEW t \in Thread, pc[t] # "none"
  PROVE  /\ up
         /\ pc[t] \notin {"recv", "open"} => account_list \in [AccId -> Node]
BY DEF TypeInv, TypeOK, NothingWhenDown

\* What a thread does in process_login and between two lines.
LEMMA LocalType ==
  ASSUME TypeInv, up, NEW t \in Thread,
         UNCHANGED <<up, file, disturbed>>,
         NEW label \in Labels, pc' = [pc EXCEPT ![t] = label],
         label \in {"none", "recv", "open"} \/ account_list # NULL,
         status' \in [Thread -> Statuses], username' \in [Thread -> Text \cup {NULL}],
         node' \in [Thread -> AccId], reg' \in [Thread -> 0..MaxAttempts],
         buffer' \in [Thread -> [AccId -> BOOLEAN]],
         account_list' \in Lists, account_list' = NULL => account_list = NULL,
         wrong' \in [AccId -> 0..MaxAttempts], raced' \in BOOLEAN
  PROVE  TypeInv'
<1>1. \A u \in Thread : pc'[u] \notin {"none", "recv", "open"} => account_list' # NULL
  BY DEF TypeInv, TypeOK
<1>2. TypeOK'
  BY <1>1 DEF TypeInv, TypeOK, Statuses, Lists
<1> QED
  BY <1>2 DEF TypeInv, NothingWhenDown

LEMMA ReplyType ==
  ASSUME TypeInv, NEW t \in Thread, NEW st \in Statuses, NEW name \in Text \cup {NULL}, Reply(t, st, name)
  PROVE  /\ \E label \in {"recv", "open"} : pc' = [pc EXCEPT ![t] = label]
         /\ status' \in [Thread -> Statuses]
         /\ username' \in [Thread -> Text \cup {NULL}]
BY DEF Reply, Goto, TypeInv, TypeOK, Statuses

LEMMA StepTypeInv == TypeInv /\ [Next]_vars => TypeInv'
<1> SUFFICES ASSUME TypeInv, [Next]_vars
             PROVE  TypeInv'
  OBVIOUS
<1> USE DEF TypeInv
<1>t. /\ status \in [Thread -> Statuses] /\ username \in [Thread -> Text \cup {NULL}]
      /\ node \in [Thread -> AccId] /\ reg \in [Thread -> 0..MaxAttempts]
      /\ buffer \in [Thread -> [AccId -> BOOLEAN]] /\ account_list \in Lists
      /\ wrong \in [AccId -> 0..MaxAttempts] /\ raced \in BOOLEAN
      /\ pc \in [Thread -> Labels]
  BY DEF TypeOK, Statuses, Lists
<1>l. {"none", "recv", "right", "clear", "wrong", "increment", "test", "open", "print", "flush"} = Labels
  BY DEF Labels
<1>s. {USERNAME_REQUIRED, PASSWORD_REQUIRED, VALID_CREDENTIALS} = Statuses
  BY DEF Statuses
<1>1. CASE Start
  <2>1. account_list' \in Lists
    BY <1>1, ReadListType DEF Start, TypeOK, Lists
  <2> QED
    BY <1>1, <2>1 DEF Start, localVars, TypeOK, NothingWhenDown, Lists
<1>2. CASE Kill
  BY <1>2, DieTypeInv DEF Kill, TypeOK
<1>3. ASSUME NEW t \in Thread, Spawn(t)
      PROVE  TypeInv'
  <2>1. /\ up /\ \E label \in {"recv", "open"} : pc' = [pc EXCEPT ![t] = label]
        /\ status' \in [Thread -> Statuses] /\ username' \in [Thread -> Text \cup {NULL}]
    BY <1>3, <1>t, <1>s DEF Spawn, Goto
  <2> QED
    BY <1>3, <1>t, <1>l, <2>1, LocalType DEF Spawn
<1>4. ASSUME NEW t \in Thread, RecvFails(t)
      PROVE  TypeInv'
  <2>1. up /\ pc' = [pc EXCEPT ![t] = "open"]
    BY <1>4, Busy DEF RecvFails, Goto
  <2> QED
    BY <1>4, <1>t, <1>l, <2>1, LocalType DEF RecvFails
<1>5. ASSUME NEW t \in Thread, EnterUsername(t)
      PROVE  TypeInv'
  <2>1. up /\ \E st \in Statuses, name \in Text : Reply(t, st, name)
    BY <1>5, <1>s, Busy, ConstantTypes DEF EnterUsername
  <2>2. /\ \E label \in {"recv", "open"} : pc' = [pc EXCEPT ![t] = label]
        /\ status' \in [Thread -> Statuses] /\ username' \in [Thread -> Text \cup {NULL}]
    BY <2>1, ReplyType
  <2> QED
    BY <1>5, <1>t, <1>l, <2>1, <2>2, LocalType DEF EnterUsername
<1>6. ASSUME NEW t \in Thread, EnterPassword(t)
      PROVE  TypeInv'
  <2>u. up /\ UNCHANGED <<up, reg, buffer, account_list, file, wrong, disturbed>>
    BY <1>6, Busy DEF EnterPassword
  <2>1. CASE Reply(t, USERNAME_REQUIRED, EmptyLine) /\ UNCHANGED <<node, raced>>
    <3>1. /\ \E label \in {"recv", "open"} : pc' = [pc EXCEPT ![t] = label]
          /\ status' \in [Thread -> Statuses] /\ username' \in [Thread -> Text \cup {NULL}]
      BY <1>s, <2>1, ReplyType, ConstantTypes
    <3> QED
      BY <1>t, <1>l, <2>1, <2>u, <3>1, LocalType
  <2>2. CASE \E a \in Lookup(account_list, username[t]), p \in Text :
               /\ Goto(t, IF p = Pass[a] THEN "right" ELSE "wrong")
               /\ node' = [node EXCEPT ![t] = a]
               /\ raced' = (raced \/ \E u \in LoggingIn : node[u] = a)
               /\ UNCHANGED <<status, username>>
    <3>1. PICK a \in AccId, label \in {"right", "wrong"} :
            /\ account_list # NULL /\ pc' = [pc EXCEPT ![t] = label]
            /\ node' = [node EXCEPT ![t] = a] /\ raced' \in BOOLEAN
            /\ UNCHANGED <<status, username>>
      BY <2>2, <1>t DEF Lookup, Goto
    <3>2. node' \in [Thread -> AccId]
      BY <1>t, <3>1
    <3> QED
      BY <1>t, <1>l, <2>u, <3>1, <3>2, LocalType
  <2> QED
    BY <1>6, <2>1, <2>2 DEF EnterPassword
<1>7. ASSUME NEW t \in Thread, CheckActive(t)
      PROVE  TypeInv'
  <2>u. up /\ account_list # NULL /\ UNCHANGED <<up, node, reg, buffer, account_list, file, wrong, disturbed, raced>>
    BY <1>7, Busy, ThreadAssumption DEF CheckActive
  <2>1. CASE Reply(t, USERNAME_REQUIRED, EmptyLine)
    <3>1. /\ \E label \in {"recv", "open"} : pc' = [pc EXCEPT ![t] = label]
          /\ status' \in [Thread -> Statuses] /\ username' \in [Thread -> Text \cup {NULL}]
      BY <1>s, <2>1, ReplyType, ConstantTypes
    <3> QED
      BY <1>t, <1>l, <2>u, <3>1, LocalType
  <2>2. CASE Goto(t, "clear") /\ UNCHANGED <<status, username>>
    BY <1>t, <1>l, <2>u, <2>2, LocalType DEF Goto
  <2> QED
    BY <1>7, <2>1, <2>2 DEF CheckActive
<1>8. ASSUME NEW t \in Thread, ClearAttempts(t)
      PROVE  TypeInv'
  <2>u. up /\ account_list \in [AccId -> Node] /\ UNCHANGED <<up, node, reg, buffer, file, disturbed, raced>>
    BY <1>8, Busy DEF ClearAttempts
  <2>1. /\ \E label \in {"recv", "open"} : pc' = [pc EXCEPT ![t] = label]
        /\ status' \in [Thread -> Statuses] /\ username' \in [Thread -> Text \cup {NULL}]
    BY <1>8, <1>t, <1>s, ReplyType DEF ClearAttempts
  <2>2. account_list' \in [AccId -> Node]
    <3>1. account_list' = [account_list EXCEPT ![node[t]].attempts = 0]
      BY <1>8 DEF ClearAttempts
    <3>2. 0 \in 0..MaxAttempts
      BY ConstantTypes
    <3> QED
      BY <1>t, <2>u, <3>1, <3>2, SetAttemptsType
  <2>3. wrong' \in [AccId -> 0..MaxAttempts]
    BY <1>8, <1>t, ConstantTypes DEF ClearAttempts
  <2> QED
    BY <1>t, <1>l, <2>u, <2>1, <2>2, <2>3, LocalType, ThreadAssumption DEF Lists
<1>9. ASSUME NEW t \in Thread, ReadAttempts(t)
      PROVE  TypeInv'
  <2>u. up /\ account_list \in [AccId -> Node] /\ UNCHANGED <<up, status, username, node, buffer, account_list, file, wrong, disturbed, raced>>
    BY <1>9, Busy DEF ReadAttempts
  <2>1. reg' \in [Thread -> 0..MaxAttempts]
    <3>1. account_list[node[t]].attempts \in 0..MaxAttempts
      BY <1>t, <2>u, NodeType
    <3> QED
      BY <1>9, <1>t, <3>1 DEF ReadAttempts
  <2>2. pc' = [pc EXCEPT ![t] = "increment"] /\ account_list # NULL
    BY <1>9, <2>u, ThreadAssumption DEF ReadAttempts, Goto
  <2> QED
    BY <1>t, <1>l, <2>u, <2>1, <2>2, LocalType
<1>10. ASSUME NEW t \in Thread, WriteAttempts(t)
      PROVE  TypeInv'
  <2>u. up /\ account_list \in [AccId -> Node] /\ UNCHANGED <<up, status, username, node, reg, buffer, file, disturbed, raced>>
    BY <1>10, Busy DEF WriteAttempts
  <2>1. Capped(reg[t] + 1) \in 0..MaxAttempts
    BY <1>t, CappedType
  <2>2. account_list' \in [AccId -> Node]
    <3>1. account_list' = [account_list EXCEPT ![node[t]].attempts = Capped(reg[t] + 1)]
      BY <1>10 DEF WriteAttempts
    <3> QED
      BY <1>t, <2>u, <2>1, <3>1, SetAttemptsType
  <2>3. wrong' \in [AccId -> 0..MaxAttempts]
    <3>1. Capped(wrong[node[t]] + 1) \in 0..MaxAttempts
      BY <1>t, CappedType
    <3> QED
      BY <1>10, <1>t, <3>1 DEF WriteAttempts
  <2>4. pc' = [pc EXCEPT ![t] = "test"] /\ account_list # NULL
    BY <1>10, <2>u, ThreadAssumption DEF WriteAttempts, Goto
  <2> QED
    BY <1>t, <1>l, <2>u, <2>2, <2>3, <2>4, LocalType, ThreadAssumption DEF Lists
<1>11. ASSUME NEW t \in Thread, TestAttempts(t)
      PROVE  TypeInv'
  <2>u. up /\ account_list \in [AccId -> Node] /\ UNCHANGED <<up, node, reg, buffer, file, wrong, disturbed, raced>>
    BY <1>11, Busy DEF TestAttempts
  <2>1. /\ \E label \in {"recv", "open"} : pc' = [pc EXCEPT ![t] = label]
        /\ status' \in [Thread -> Statuses] /\ username' \in [Thread -> Text \cup {NULL}]
    BY <1>11, <1>s, ReplyType, ConstantTypes DEF TestAttempts
  <2>2. account_list' \in [AccId -> Node]
    <3>1. account_list' = account_list \/ account_list' = [account_list EXCEPT ![node[t]].is_active = FALSE]
      BY <1>11 DEF TestAttempts
    <3> QED
      BY <1>t, <2>u, <3>1, SetInactiveType
  <2> QED
    BY <1>t, <1>l, <2>u, <2>1, <2>2, LocalType, ThreadAssumption DEF Lists
<1>12. ASSUME NEW t \in Thread, Command(t)
      PROVE  TypeInv'
  <2>1. up /\ \E st \in Statuses, name \in Text \cup {NULL} : Reply(t, st, name)
    BY <1>12, <1>s, <1>t, Busy, ConstantTypes DEF Command
  <2>2. /\ \E label \in {"recv", "open"} : pc' = [pc EXCEPT ![t] = label]
        /\ status' \in [Thread -> Statuses] /\ username' \in [Thread -> Text \cup {NULL}]
    BY <2>1, ReplyType
  <2> QED
    BY <1>12, <1>t, <1>l, <2>1, <2>2, LocalType DEF Command
<1>13. ASSUME NEW t \in Thread, OpenFile(t)
      PROVE  TypeInv'
  <2>1. CASE account_list = NULL
    BY <1>13, <2>1, DieTypeInv DEF OpenFile, Files
  <2>2. CASE account_list # NULL
    <3>1. up /\ UNCHANGED <<up, status, username, reg, buffer, account_list, wrong, raced>>
      BY <1>13, <2>2, Busy DEF OpenFile
    <3>2. pc' = [pc EXCEPT ![t] = "print"] /\ node' = [node EXCEPT ![t] = 1]
      BY <1>13, <2>2 DEF OpenFile, Goto
    <3>3. file' = EmptyFile /\ disturbed' = (disturbed \/ Saving # {})
      BY <1>13, <2>2 DEF OpenFile
    <3> QED
      BY <1>t, <2>2, <3>1, <3>2, <3>3, ConstantTypes DEF TypeOK, NothingWhenDown, Labels, Files
  <2> QED
    BY <2>1, <2>2
<1>14. ASSUME NEW t \in Thread, OpenFails(t)
      PROVE  TypeInv'
  <2>1. up
    BY <1>14, Busy DEF OpenFails
  <2> QED
    BY <1>14, <2>1 DEF OpenFails, Goto, TypeOK, NothingWhenDown, Labels
<1>15. ASSUME NEW t \in Thread, PrintNode(t)
      PROVE  TypeInv'
  <2>u. up /\ account_list \in [AccId -> Node] /\ UNCHANGED <<up, status, username, reg, account_list, file, wrong, disturbed, raced>>
    BY <1>15, Busy DEF PrintNode
  <2>1. buffer' \in [Thread -> [AccId -> BOOLEAN]]
    <3>1. account_list[node[t]].is_active \in BOOLEAN
      BY <1>t, <2>u, NodeType
    <3> QED
      BY <1>15, <1>t, <3>1 DEF PrintNode
  <2>2. node' \in [Thread -> AccId] /\ \E label \in {"print", "flush"} : pc' = [pc EXCEPT ![t] = label]
    BY <1>15, <1>t, ConstantTypes DEF PrintNode, Goto, AccId
  <2> QED
    BY <1>t, <1>l, <2>u, <2>1, <2>2, LocalType, ThreadAssumption
<1>16. ASSUME NEW t \in Thread, Flush(t)
      PROVE  TypeInv'
  <2>1. up
    BY <1>16, Busy DEF Flush
  <2> QED
    BY <1>16, <1>t, <2>1, ConstantTypes DEF Flush, Goto, TypeOK, NothingWhenDown, Labels, NoBuffer, Files
<1>17. CASE UNCHANGED vars
  BY <1>17 DEF vars, localVars, TypeOK, NothingWhenDown
<1> QED
  BY <1>1, <1>2, <1>3, <1>4, <1>5, <1>6, <1>7, <1>8, <1>9, <1>10, <1>11, <1>12,
     <1>13, <1>14, <1>15, <1>16, <1>17 DEF Next, Serve, Run

LEMMA TypeInvAlways == Spec => []TypeInv
BY InitTypeInv, StepTypeInv, PTL DEF Spec

\* The variables keep their types, and a thread inside the list or a save has
\* a list, however many threads share it.
THEOREM ThreadTypes == Spec => []TypeOK
<1>1. TypeInv => TypeOK
  BY DEF TypeInv
<1> QED
  BY <1>1, TypeInvAlways, PTL

-----------------------------------------------------------------------------
(***************************************************************************)
(* What the steps of a thread before its save have in common: they touch   *)
(* neither the file nor a buffer, activate no account, and lead on to a    *)
(* save that has not begun.                                                *)
(***************************************************************************)

\* The places from which a thread still goes through its whole save.
BeforeSave == Labels \ {"none", "print", "flush"}

LoginStep(t) ==
  \/ Serve(t) \/ CheckActive(t) \/ ClearAttempts(t)
  \/ ReadAttempts(t) \/ WriteAttempts(t) \/ TestAttempts(t)

Weaker(new, old) ==
  /\ new = NULL <=> old = NULL
  /\ old # NULL => \A a \in AccId : new[a].is_active => old[a].is_active

LEMMA LoginStepPc ==
  ASSUME TypeInv, NEW t \in Thread, LoginStep(t)
  PROVE  /\ pc[t] \in BeforeSave
         /\ \E label \in BeforeSave : pc' = [pc EXCEPT ![t] = label]
         /\ \A u \in Thread : u # t => node'[u] = node[u]
         /\ UNCHANGED <<up, file, buffer, disturbed>>
<1> USE DEF BeforeSave, Labels
<1>t. node \in [Thread -> AccId] /\ pc \in [Thread -> Labels]
  BY DEF TypeInv, TypeOK
<1>1. CASE RecvFails(t)
  BY <1>1 DEF RecvFails, Goto
<1>2. CASE EnterUsername(t)
  BY <1>2 DEF EnterUsername, Reply, Goto
<1>3. CASE EnterPassword(t)
  BY <1>3, <1>t DEF EnterPassword, Reply, Goto
<1>4. CASE Command(t)
  BY <1>4 DEF Command, Reply, Goto
<1>5. CASE CheckActive(t)
  BY <1>5 DEF CheckActive, Reply, Goto
<1>6. CASE ClearAttempts(t)
  BY <1>6 DEF ClearAttempts, Reply, Goto
<1>7. CASE ReadAttempts(t)
  BY <1>7 DEF ReadAttempts, Goto
<1>8. CASE WriteAttempts(t)
  BY <1>8 DEF WriteAttempts, Goto
<1>9. CASE TestAttempts(t)
  BY <1>9 DEF TestAttempts, Reply, Goto
<1> QED
  BY <1>1, <1>2, <1>3, <1>4, <1>5, <1>6, <1>7, <1>8, <1>9 DEF LoginStep, Serve

LEMMA SetAttemptsActive ==
  ASSUME NEW list \in [AccId -> Node], NEW a \in AccId, NEW n \in 0..MaxAttempts
  PROVE  Weaker([list EXCEPT ![a].attempts = n], list)
<1> DEFINE new == [list EXCEPT ![a].attempts = n]
<1>1. new \in [AccId -> Node] /\ \A b \in AccId : new[b].is_active = list[b].is_active
  BY SetAttemptsType, SetAttemptsKeeps
<1> HIDE DEF new
<1>2. Weaker(new, list)
  BY <1>1, ThreadAssumption DEF Weaker
<1> QED
  BY <1>2 DEF new

LEMMA SetInactiveActive ==
  ASSUME NEW list \in [AccId -> Node], NEW a \in AccId
  PROVE  Weaker([list EXCEPT ![a].is_active = FALSE], list)
<1> DEFINE new == [list EXCEPT ![a].is_active = FALSE]
<1>1. /\ new \in [AccId -> Node]
      /\ ~new[a].is_active
      /\ \A b \in AccId : b # a => new[b] = list[b]
  BY SetInactive
<1> HIDE DEF new
<1>2. Weaker(new, list)
  BY <1>1, ThreadAssumption DEF Weaker
<1> QED
  BY <1>2 DEF new

LEMMA LoginStepList ==
  ASSUME TypeInv, NEW t \in Thread, LoginStep(t)
  PROVE  Weaker(account_list', account_list)
<1>t. node[t] \in AccId /\ reg[t] \in 0..MaxAttempts
  BY DEF TypeInv, TypeOK
<1>1. CASE account_list' = account_list
  BY <1>1 DEF Weaker
<1>2. CASE ClearAttempts(t)
  <2>1. account_list \in [AccId -> Node]
    BY <1>2, Busy DEF ClearAttempts
  <2>2. account_list' = [account_list EXCEPT ![node[t]].attempts = 0] /\ 0 \in 0..MaxAttempts
    BY <1>2, ConstantTypes DEF ClearAttempts
  <2> QED
    BY <1>t, <2>1, <2>2, SetAttemptsActive
<1>3. CASE WriteAttempts(t)
  <2>1. account_list \in [AccId -> Node]
    BY <1>3, Busy DEF WriteAttempts
  <2>2. account_list' = [account_list EXCEPT ![node[t]].attempts = Capped(reg[t] + 1)]
    BY <1>3 DEF WriteAttempts
  <2>3. Capped(reg[t] + 1) \in 0..MaxAttempts
    BY <1>t, CappedType
  <2> QED
    BY <1>t, <2>1, <2>2, <2>3, SetAttemptsActive
<1>4. CASE TestAttempts(t)
  <2>1. account_list \in [AccId -> Node]
    BY <1>4, Busy DEF TestAttempts
  <2>2. \/ account_list' = account_list
        \/ account_list' = [account_list EXCEPT ![node[t]].is_active = FALSE]
    BY <1>4 DEF TestAttempts
  <2> QED
    BY <1>1, <1>t, <2>1, <2>2, SetInactiveActive
<1> QED
  BY <1>1, <1>2, <1>3, <1>4 DEF LoginStep, Serve, RecvFails, EnterUsername, EnterPassword, Command,
     CheckActive, ReadAttempts

\* The steps of the server, sorted by what they do to saves.
LEMMA NextCases ==
  ASSUME [Next]_vars
  PROVE  \/ Start \/ Kill \/ UNCHANGED vars
         \/ \E t \in Thread : Spawn(t) \/ LoginStep(t) \/ OpenFile(t) \/ OpenFails(t) \/ PrintNode(t) \/ Flush(t)
BY DEF Next, Run, LoginStep

-----------------------------------------------------------------------------
(***************************************************************************)
(* The disk is never ahead of the list.                                    *)
(***************************************************************************)

LEMMA DiskStep == TypeInv /\ DiskNeverAhead /\ [Next]_vars => DiskNeverAhead'
<1> SUFFICES ASSUME TypeInv, DiskNeverAhead, [Next]_vars
             PROVE  DiskNeverAhead'
  OBVIOUS
<1>t. /\ buffer \in [Thread -> [AccId -> BOOLEAN]] /\ node \in [Thread -> AccId]
      /\ file \in Files
  BY DEF TypeInv, TypeOK
<1>1. CASE Start
  <2>1. account_list' # NULL => /\ file # EmptyFile
                                /\ \A a \in AccId : account_list'[a].is_active = file[a]
    BY <1>1 DEF Start, ReadList
  <2>2. \A t \in Thread : \A a \in AccId : buffer[t][a]
    BY <1>1 DEF Start, TypeInv, NothingWhenDown, NoBuffer
  <2>3. UNCHANGED <<file, buffer>>
    BY <1>1 DEF Start, localVars
  <2> QED
    BY <2>1, <2>2, <2>3 DEF DiskNeverAhead
<1>2. CASE Die
  BY <1>2 DEF Die, DiskNeverAhead
<1>3. ASSUME NEW t \in Thread, LoginStep(t)
      PROVE  DiskNeverAhead'
  BY <1>3, LoginStepPc, LoginStepList DEF Weaker, DiskNeverAhead
<1>4. ASSUME UNCHANGED <<account_list, buffer>>, file' \in {file, EmptyFile}
      PROVE  DiskNeverAhead'
  BY <1>4 DEF DiskNeverAhead
<1>5. ASSUME NEW t \in Thread, PrintNode(t)
      PROVE  DiskNeverAhead'
  <2>1. /\ UNCHANGED <<account_list, file>>
        /\ buffer' = [buffer EXCEPT ![t][node[t]] = account_list[node[t]].is_active]
    BY <1>5 DEF PrintNode
  <2>2. \A u \in Thread, a \in AccId :
          buffer'[u][a] = buffer[u][a] \/ (a = node[t] /\ buffer'[u][a] = account_list[a].is_active)
    BY <1>t, <2>1
  <2> QED
    BY <2>1, <2>2 DEF DiskNeverAhead
<1>6. ASSUME NEW t \in Thread, Flush(t)
      PROVE  DiskNeverAhead'
  <2>1. /\ file' = buffer[t] /\ account_list' = account_list
        /\ buffer' = [buffer EXCEPT ![t] = NoBuffer]
    BY <1>6 DEF Flush
  <2>2. \A u \in Thread, a \in AccId : buffer[u][a] => buffer'[u][a]
    BY <1>t, <2>1 DEF NoBuffer
  <2> QED
    BY <2>1, <2>2 DEF DiskNeverAhead
<1>7. ASSUME NEW t \in Thread, OpenFile(t)
      PROVE  DiskNeverAhead'
  BY <1>2, <1>4, <1>7 DEF OpenFile
<1>8. ASSUME NEW t \in Thread, Spawn(t) \/ OpenFails(t)
      PROVE  DiskNeverAhead'
  BY <1>4, <1>8 DEF Spawn, OpenFails
<1>9. CASE UNCHANGED vars
  BY <1>4, <1>9 DEF vars, localVars
<1> QED
  BY <1>1, <1>2, <1>3, <1>5, <1>6, <1>7, <1>8, <1>9, NextCases DEF Kill

\* Whatever saves and logins run at once, the file never blocks an account
\* that is active in memory, and no buffer is about to.
THEOREM DiskBehind == Spec => []DiskNeverAhead
<1>1. Init => DiskNeverAhead
  BY DEF Init, DiskNeverAhead
<1> QED
  BY <1>1, DiskStep, TypeInvAlways, PTL DEF Spec

-----------------------------------------------------------------------------
(***************************************************************************)
(* Saves that do not overlap lose nothing.  While threads run, what an     *)
(* account is in the list and not in the file is either in the buffer of   *)
(* the one save under way, or still to be read by it, or a later save's.   *)
(***************************************************************************)

SaveToCome      == \E t \in Thread : pc[t] \in BeforeSave
InSave(t, a)    == (pc[t] = "print" /\ node[t] <= a) \/ buffer[t][a] = account_list[a].is_active
OnDisk(a)       == Saving = {} /\ file # EmptyFile /\ file[a] = account_list[a].is_active
Accounted(a)    == SaveToCome \/ OnDisk(a) \/ \E t \in Saving : InSave(t, a)

SaveInv ==
  ~disturbed =>
    /\ \A t, u \in Saving : t = u
    /\ account_list # NULL => \A a \in AccId : Accounted(a)

LEMMA SaveInit == Init => SaveInv
BY DEF Init, SaveInv, Saving

LEMMA SaveDie == Die => SaveInv'
BY DEF Die, SaveInv, Saving

LEMMA SaveLogin ==
  ASSUME TypeInv, SaveInv, NEW t \in Thread,
         pc[t] \in BeforeSave \cup {"none"},
         \E label \in BeforeSave : pc' = [pc EXCEPT ![t] = label],
         disturbed' = disturbed
  PROVE  SaveInv'
<1>t. pc \in [Thread -> Labels]
  BY DEF TypeInv, TypeOK
<1>1. SaveToCome'
  BY <1>t DEF SaveToCome
<1>2. Saving' = Saving
  BY <1>t DEF Saving, BeforeSave
<1> QED
  BY <1>1, <1>2 DEF SaveInv, Accounted

LEMMA SaveOpen ==
  ASSUME TypeInv, SaveInv, NEW t \in Thread, OpenFile(t), ~Die
  PROVE  SaveInv'
<1>1. /\ pc' = [pc EXCEPT ![t] = "print"] /\ node' = [node EXCEPT ![t] = 1]
      /\ disturbed' = (disturbed \/ Saving # {})
      /\ UNCHANGED account_list
  BY DEF OpenFile, Goto
<1>2. pc \in [Thread -> Labels] /\ node \in [Thread -> AccId]
  BY DEF TypeInv, TypeOK
<1> SUFFICES ASSUME ~disturbed'
             PROVE  (\A v, u \in Saving' : v = u) /\ (account_list' # NULL => \A a \in AccId : Accounted(a)')
  BY DEF SaveInv
<1>3. Saving = {}
  BY <1>1
<1>4. Saving' = {t}
  BY <1>1, <1>2, <1>3 DEF Saving
<1>5. \A a \in AccId : InSave(t, a)'
  <2>1. pc'[t] = "print" /\ node'[t] = 1
    BY <1>1, <1>2
  <2>2. \A a \in AccId : 1 <= a
    BY ConstantTypes DEF AccId
  <2> QED
    BY <2>1, <2>2 DEF InSave
<1> QED
  BY <1>4, <1>5 DEF Accounted

LEMMA SavePrint ==
  ASSUME TypeInv, SaveInv, NEW t \in Thread, PrintNode(t)
  PROVE  SaveInv'
<1>t. /\ pc \in [Thread -> Labels] /\ node \in [Thread -> AccId]
      /\ buffer \in [Thread -> [AccId -> BOOLEAN]]
  BY DEF TypeInv, TypeOK
<1>1. /\ pc[t] = "print" /\ UNCHANGED <<account_list, file, disturbed>>
      /\ buffer' = [buffer EXCEPT ![t][node[t]] = account_list[node[t]].is_active]
  BY DEF PrintNode
<1>2. \/ node[t] = NumAccounts /\ pc' = [pc EXCEPT ![t] = "flush"] /\ node' = node
      \/ node[t] # NumAccounts /\ pc' = pc /\ node' = [node EXCEPT ![t] = node[t] + 1]
  BY DEF PrintNode, Goto
<1>3. t \in Saving /\ Saving' = Saving
  BY <1>t, <1>1, <1>2 DEF Saving
<1>4. SaveToCome => SaveToCome'
  BY <1>t, <1>1, <1>2 DEF SaveToCome, BeforeSave
<1> SUFFICES ASSUME ~disturbed, account_list # NULL, NEW a \in AccId, ~SaveToCome
             PROVE  InSave(t, a)'
  BY <1>1, <1>3, <1>4 DEF SaveInv, Accounted
<1>5. InSave(t, a)
  BY <1>3 DEF SaveInv, Accounted, OnDisk
<1>6. CASE a = node[t]
  <2>1. buffer'[t][a] = account_list[a].is_active
    BY <1>t, <1>1, <1>6
  <2> QED
    BY <1>1, <2>1 DEF InSave
<1>7. CASE a # node[t] /\ node[t] <= a
  <2>1. a \in Nat /\ node[t] \in Nat /\ a <= NumAccounts /\ NumAccounts \in Nat
    BY <1>t, ConstantTypes DEF AccId
  <2>2. node[t] # NumAccounts
    BY <1>7, <2>1
  <2>3. pc'[t] = "print" /\ node'[t] <= a
    <3>1. pc'[t] = "print" /\ node'[t] = node[t] + 1
      BY <1>t, <1>1, <1>2, <2>2
    <3> QED
      BY <1>7, <2>1, <3>1
  <2> QED
    BY <2>3 DEF InSave
<1>8. CASE a # node[t] /\ buffer[t][a] = account_list[a].is_active
  <2>1. buffer'[t][a] = buffer[t][a]
    BY <1>t, <1>1, <1>8
  <2> QED
    BY <1>1, <1>8, <2>1 DEF InSave
<1> QED
  BY <1>5, <1>6, <1>7, <1>8 DEF InSave

LEMMA SaveFlush ==
  ASSUME TypeInv, SaveInv, NEW t \in Thread, Flush(t)
  PROVE  SaveInv'
<1>t. /\ pc \in [Thread -> Labels] /\ buffer[t] \in [AccId -> BOOLEAN]
  BY DEF TypeInv, TypeOK
<1>1. /\ pc[t] = "flush" /\ file' = buffer[t] /\ pc' = [pc EXCEPT ![t] = "none"]
      /\ UNCHANGED <<account_list, disturbed>>
  BY DEF Flush, Goto
<1> SUFFICES ASSUME ~disturbed
             PROVE  /\ \A u, v \in Saving' : u = v
                    /\ account_list # NULL => \A a \in AccId : Accounted(a)'
  BY <1>1 DEF SaveInv
<1>2. t \in Saving /\ Saving' = {}
  BY <1>t, <1>1 DEF Saving, SaveInv
<1>3. SaveToCome => SaveToCome'
  BY <1>t, <1>1 DEF SaveToCome, BeforeSave
<1>4. ASSUME account_list # NULL, NEW a \in AccId, ~SaveToCome
      PROVE  OnDisk(a)'
  <2>1. buffer[t][a] = account_list[a].is_active
    BY <1>1, <1>2, <1>4 DEF SaveInv, Accounted, OnDisk, InSave
  <2>2. file' # EmptyFile
    BY <1>t, <1>1, NullAssumption
  <2> QED
    BY <1>1, <1>2, <2>1, <2>2 DEF OnDisk
<1> QED
  BY <1>2, <1>3, <1>4 DEF Accounted

LEMMA SaveStart ==
  ASSUME TypeInv, SaveInv, Start
  PROVE  SaveInv'
<1>1. ~up /\ UNCHANGED <<pc, file>> /\ account_list' \in {ReadList(file), NULL}
  BY DEF Start, localVars
<1>2. Saving' = {}
  BY <1>1 DEF TypeInv, NothingWhenDown, Saving
<1>3. account_list' # NULL => /\ file # EmptyFile
                              /\ \A a \in AccId : account_list'[a].is_active = file[a]
  BY <1>1 DEF ReadList
<1> QED
  BY <1>1, <1>2, <1>3 DEF SaveInv, Accounted, OnDisk

LEMMA SaveStep == TypeInv /\ SaveInv /\ [Next]_vars => SaveInv'
<1> SUFFICES ASSUME TypeInv, SaveInv, [Next]_vars
             PROVE  SaveInv'
  OBVIOUS
<1>1. ASSUME NEW t \in Thread, Spawn(t)
      PROVE  SaveInv'
  BY <1>1, SaveLogin DEF Spawn, Goto, BeforeSave, Labels
<1>2. ASSUME NEW t \in Thread, LoginStep(t)
      PROVE  SaveInv'
  BY <1>2, LoginStepPc, SaveLogin
<1>3. ASSUME NEW t \in Thread, OpenFails(t)
      PROVE  SaveInv'
  BY <1>3 DEF OpenFails, SaveInv
<1>4. CASE UNCHANGED vars
  BY <1>4 DEF vars, localVars, SaveInv, Accounted, SaveToCome, InSave, OnDisk, Saving
<1> QED
  BY <1>1, <1>2, <1>3, <1>4, SaveStart, SaveDie, SaveOpen, SavePrint, SaveFlush, NextCases DEF Kill

\* The comment of server.c:176, "save any updates to file", where it holds:
\* when all is quiet the file says what the list says, unless a save failed
\* or two of them overlapped.  No race of logins with saves can break it.
THEOREM SavedUnlessOverlap == Spec => []SavedUnlessDisturbed
<1>1. TypeInv /\ SaveInv => SavedUnlessDisturbed
  <2> SUFFICES ASSUME TypeInv, SaveInv, ~disturbed, Quiet
               PROVE  file = Image(account_list)
    BY DEF SavedUnlessDisturbed, SavedWhenQuiet
  <2>1. Saving = {} /\ ~SaveToCome /\ account_list # NULL
    BY DEF Quiet, Saving, SaveToCome, BeforeSave
  <2>2. \A a \in AccId : file # EmptyFile /\ file[a] = account_list[a].is_active
    BY <2>1 DEF SaveInv, Accounted, OnDisk
  <2>3. file \in [AccId -> BOOLEAN]
    BY <2>2, ConstantTypes DEF TypeInv, TypeOK, Files
  <2> QED
    BY <2>2, <2>3 DEF Image
<1> QED
  BY <1>1, SaveInit, SaveStep, TypeInvAlways, PTL DEF Spec

-----------------------------------------------------------------------------
(***************************************************************************)
(* Logins that do not meet at a node count right.  The invariant follows   *)
(* attempts++ and the test through their steps: what a thread has read is  *)
(* what the node holds, and an account that ought to be blocked is, or the *)
(* thread that counted is about to test.                                   *)
(***************************************************************************)

Alone        == \A t, u \in LoggingIn : node[t] = node[u] => t = u
CountRight   == \A a \in AccId : account_list[a].attempts = wrong[a]
BlockedSoon  == \A a \in AccId : wrong[a] >= MaxAttempts =>
                  \/ ~account_list[a].is_active
                  \/ \E t \in Thread : pc[t] = "test" /\ node[t] = a
ReadRight    == \A t \in Thread : pc[t] = "increment" => reg[t] = account_list[node[t]].attempts
WrittenRight == \A t \in Thread : pc[t] = "test" => account_list[node[t]].attempts = Capped(reg[t] + 1)

CountInv ==
  ~raced /\ account_list # NULL =>
    Alone /\ CountRight /\ BlockedSoon /\ ReadRight /\ WrittenRight

\* Steps that neither count nor read: threads enter "clear", or leave the login.
LEMMA CountFrame ==
  ASSUME TypeInv, CountInv, UNCHANGED <<account_list, wrong, raced>>,
         \A u \in Thread : /\ pc'[u] \in {"increment", "test"} => pc[u] = pc'[u]
                           /\ pc[u] = "test" => pc'[u] = "test"
                           /\ u \in LoggingIn' => u \in LoggingIn /\ node'[u] = node[u] /\ reg'[u] = reg[u]
  PROVE  CountInv'
<1> SUFFICES ASSUME ~raced, account_list # NULL
             PROVE  (Alone /\ CountRight /\ BlockedSoon /\ ReadRight /\ WrittenRight)'
  BY DEF CountInv
<1>1. Alone /\ CountRight /\ BlockedSoon /\ ReadRight /\ WrittenRight
  BY DEF CountInv
<1>2. \A u \in Thread : pc'[u] \in {"increment", "test"} =>
        u \in LoggingIn' /\ node'[u] = node[u] /\ reg'[u] = reg[u]
  BY DEF LoggingIn
<1>3. Alone'
  <2>1. LoggingIn' \subseteq Thread
    BY DEF LoggingIn
  <2>2. \A u \in LoggingIn' : u \in LoggingIn /\ node'[u] = node[u]
    BY <2>1
  <2> QED
    BY <1>1, <2>2 DEF Alone
<1>4. BlockedSoon'
  BY <1>1, <1>2 DEF BlockedSoon
<1>5. ReadRight' /\ WrittenRight'
  BY <1>1, <1>2 DEF ReadRight, WrittenRight
<1> QED
  BY <1>1, <1>3, <1>4, <1>5 DEF CountRight

\* A thread that finds a node joins those in process_login.
LEMMA CountEnter ==
  ASSUME TypeInv, CountInv, NEW t \in Thread, NEW a \in AccId, pc[t] = "recv",
         NEW label \in {"right", "wrong"}, pc' = [pc EXCEPT ![t] = label],
         node' = [node EXCEPT ![t] = a],
         raced' = (raced \/ \E u \in LoggingIn : node[u] = a),
         UNCHANGED <<reg, account_list, wrong>>
  PROVE  CountInv'
<1>t. pc \in [Thread -> Labels] /\ node \in [Thread -> AccId]
  BY DEF TypeInv, TypeOK
<1> SUFFICES ASSUME ~raced', account_list # NULL
             PROVE  (Alone /\ CountRight /\ BlockedSoon /\ ReadRight /\ WrittenRight)'
  BY DEF CountInv
<1>1. Alone /\ CountRight /\ BlockedSoon /\ ReadRight /\ WrittenRight
  BY DEF CountInv
<1>2. \A u \in Thread : u # t => pc'[u] = pc[u] /\ node'[u] = node[u]
  BY <1>t
<1>3. pc'[t] = label /\ node'[t] = a /\ t \notin LoggingIn /\ LoggingIn' = LoggingIn \cup {t}
  BY <1>t DEF LoggingIn
<1>4. Alone'
  <2>1. LoggingIn \subseteq Thread /\ \A u \in LoggingIn : node[u] # a
    BY DEF LoggingIn
  <2>2. \A u \in LoggingIn : u # t /\ node'[u] = node[u]
    BY <1>2, <1>3, <2>1
  <2> QED
    BY <1>1, <1>3, <2>1, <2>2 DEF Alone
<1>5. BlockedSoon'
  BY <1>1, <1>2 DEF BlockedSoon
<1>6. ReadRight' /\ WrittenRight'
  BY <1>1, <1>2, <1>3 DEF ReadRight, WrittenRight
<1> QED
  BY <1>1, <1>4, <1>5, <1>6 DEF CountRight

LEMMA CountRead ==
  ASSUME TypeInv, CountInv, NEW t \in Thread, ReadAttempts(t)
  PROVE  CountInv'
<1>t. pc \in [Thread -> Labels] /\ reg \in [Thread -> 0..MaxAttempts]
  BY DEF TypeInv, TypeOK
<1>u. /\ pc[t] = "wrong" /\ pc' = [pc EXCEPT ![t] = "increment"]
      /\ reg' = [reg EXCEPT ![t] = account_list[node[t]].attempts]
      /\ UNCHANGED <<node, account_list, wrong, raced>>
  BY DEF ReadAttempts, Goto
<1> SUFFICES ASSUME ~raced, account_list # NULL
             PROVE  (Alone /\ CountRight /\ BlockedSoon /\ ReadRight /\ WrittenRight)'
  BY <1>u DEF CountInv
<1>1. Alone /\ CountRight /\ BlockedSoon /\ ReadRight /\ WrittenRight
  BY DEF CountInv
<1>2. \A u \in Thread : u # t => pc'[u] = pc[u] /\ reg'[u] = reg[u]
  BY <1>t, <1>u
<1>3. pc'[t] = "increment" /\ reg'[t] = account_list[node[t]].attempts
  BY <1>t, <1>u
<1>4. LoggingIn' = LoggingIn
  BY <1>u, <1>2, <1>3 DEF LoggingIn
<1>5. Alone' /\ BlockedSoon'
  BY <1>1, <1>u, <1>2, <1>3, <1>4 DEF Alone, BlockedSoon
<1>6. ReadRight' /\ WrittenRight'
  BY <1>1, <1>u, <1>2, <1>3 DEF ReadRight, WrittenRight
<1> QED
  BY <1>1, <1>u, <1>5, <1>6 DEF CountRight

\* Lines 55, 61 and 62-63 change one node, at which no other thread is.
LEMMA CountChange ==
  ASSUME TypeInv, CountInv, NEW t \in Thread, pc[t] \in {"clear", "increment", "test"},
         account_list # NULL, ~raced,
         NEW n, n = node[t],
         NEW label \in Labels, pc' = [pc EXCEPT ![t] = label], label # "increment",
         label \in {"test", "recv", "open"},
         UNCHANGED <<node, reg, raced>>,
         account_list' \in [AccId -> Node], wrong' \in [AccId -> 0..MaxAttempts],
         \A b \in AccId : b # n => account_list'[b] = account_list[b] /\ wrong'[b] = wrong[b],
         account_list'[n].attempts = wrong'[n],
         wrong'[n] >= MaxAttempts => ~account_list'[n].is_active \/ label = "test",
         label = "test" => account_list'[n].attempts = Capped(reg[t] + 1)
  PROVE  CountInv'
<1>t. pc \in [Thread -> Labels] /\ node \in [Thread -> AccId]
  BY DEF TypeInv, TypeOK
<1>1. Alone /\ CountRight /\ BlockedSoon /\ ReadRight /\ WrittenRight
  BY DEF CountInv
<1>2. pc'[t] = label /\ \A u \in Thread : u # t => pc'[u] = pc[u]
  BY <1>t
<1>3. LoggingIn' \subseteq LoggingIn /\ t \in LoggingIn /\ LoggingIn \subseteq Thread
  BY <1>2 DEF LoggingIn
<1>4. \A u \in LoggingIn : u # t => node[u] # n /\ node[u] \in AccId
  BY <1>1, <1>3, <1>t DEF Alone
<1>5. Alone'
  BY <1>1, <1>3 DEF Alone
<1>6. CountRight'
  BY <1>1 DEF CountRight
<1>7. BlockedSoon'
  <2> SUFFICES ASSUME NEW b \in AccId, wrong'[b] >= MaxAttempts
               PROVE  \/ ~account_list'[b].is_active
                      \/ \E u \in Thread : pc'[u] = "test" /\ node[u] = b
    BY DEF BlockedSoon
  <2>1. CASE b = n
    BY <1>2, <2>1
  <2>2. CASE b # n
    <3>1. \/ ~account_list[b].is_active
          \/ \E u \in Thread : pc[u] = "test" /\ node[u] = b
      BY <1>1, <2>2 DEF BlockedSoon
    <3> QED
      BY <1>2, <2>2, <3>1
  <2> QED
    BY <2>1, <2>2
<1>8. ReadRight' /\ WrittenRight'
  <2>1. ASSUME NEW u \in Thread, u # t, pc[u] \in {"increment", "test"}
        PROVE  account_list'[node[u]] = account_list[node[u]]
    BY <1>4, <2>1 DEF LoggingIn
  <2>2. ReadRight'
    BY <1>1, <1>2, <2>1 DEF ReadRight
  <2>3. WrittenRight'
    BY <1>1, <1>2, <2>1 DEF WrittenRight
  <2> QED
    BY <2>2, <2>3
<1> QED
  BY <1>5, <1>6, <1>7, <1>8 DEF CountInv

LEMMA CountClear ==
  ASSUME TypeInv, CountInv, NEW t \in Thread, ClearAttempts(t), ~raced
  PROVE  CountInv'
<1> DEFINE n == node[t]
<1>t. n \in AccId /\ wrong \in [AccId -> 0..MaxAttempts] /\ 0 \in 0..MaxAttempts
  BY ConstantTypes DEF TypeInv, TypeOK
<1>1. account_list \in [AccId -> Node] /\ account_list # NULL
  BY Busy, ThreadAssumption DEF ClearAttempts
<1>2. account_list' = [account_list EXCEPT ![n].attempts = 0] /\ wrong' = [wrong EXCEPT ![n] = 0]
  BY DEF ClearAttempts
<1>3. /\ account_list' \in [AccId -> Node] /\ account_list'[n].attempts = 0
      /\ \A b \in AccId : b # n => account_list'[b] = account_list[b]
  BY <1>t, <1>1, <1>2, SetAttemptsType, SetAttemptsAt, SetAttemptsElse
<1>4. /\ wrong' \in [AccId -> 0..MaxAttempts] /\ wrong'[n] = 0
      /\ \A b \in AccId : b # n => wrong'[b] = wrong[b]
  BY <1>t, <1>2
<1>5. PICK label \in {"recv", "open"} : pc' = [pc EXCEPT ![t] = label]
  BY DEF ClearAttempts, Reply, Goto
<1>6. pc[t] = "clear" /\ UNCHANGED <<node, reg, raced>>
  BY DEF ClearAttempts
<1>7. /\ account_list'[n].attempts = wrong'[n]
      /\ ~(wrong'[n] >= MaxAttempts)
      /\ label \in Labels /\ label # "increment" /\ label # "test"
  BY <1>3, <1>4, <1>5, ConstantTypes DEF Labels
<1> HIDE DEF n
<1>8. n = node[t]
  BY DEF n
<1> QED
  BY <1>1, <1>3, <1>4, <1>5, <1>6, <1>7, <1>8, CountChange

LEMMA CountWrite ==
  ASSUME TypeInv, CountInv, NEW t \in Thread, WriteAttempts(t), ~raced
  PROVE  CountInv'
<1> DEFINE n == node[t]
<1>t. n \in AccId /\ wrong \in [AccId -> 0..MaxAttempts] /\ reg[t] \in 0..MaxAttempts
  BY DEF TypeInv, TypeOK
<1>1. account_list \in [AccId -> Node] /\ account_list # NULL
  BY Busy, ThreadAssumption DEF WriteAttempts
<1>2. /\ account_list' = [account_list EXCEPT ![n].attempts = Capped(reg[t] + 1)]
      /\ wrong' = [wrong EXCEPT ![n] = Capped(wrong[n] + 1)]
      /\ pc[t] = "increment" /\ pc' = [pc EXCEPT ![t] = "test"]
      /\ UNCHANGED <<node, reg, raced>>
  BY DEF WriteAttempts, Goto
<1>3. reg[t] = wrong[n] /\ Capped(reg[t] + 1) \in 0..MaxAttempts
  BY <1>t, <1>1, <1>2, CappedType DEF CountInv, ReadRight, CountRight
<1>4. /\ account_list' \in [AccId -> Node] /\ account_list'[n].attempts = Capped(reg[t] + 1)
      /\ \A b \in AccId : b # n => account_list'[b] = account_list[b]
  BY <1>t, <1>1, <1>2, <1>3, SetAttemptsType, SetAttemptsAt, SetAttemptsElse
<1>5. /\ wrong' \in [AccId -> 0..MaxAttempts] /\ wrong'[n] = Capped(reg[t] + 1)
      /\ \A b \in AccId : b # n => wrong'[b] = wrong[b]
  BY <1>t, <1>2, <1>3
<1> QED
  BY <1>1, <1>2, <1>4, <1>5, CountChange DEF Labels

LEMMA CountTest ==
  ASSUME TypeInv, CountInv, NEW t \in Thread, TestAttempts(t), ~raced
  PROVE  CountInv'
<1> DEFINE n == node[t]
<1>t. n \in AccId /\ wrong \in [AccId -> 0..MaxAttempts] /\ reg[t] \in 0..MaxAttempts
  BY DEF TypeInv, TypeOK
<1>1. account_list \in [AccId -> Node] /\ account_list # NULL
  BY Busy, ThreadAssumption DEF TestAttempts
<1>2. /\ pc[t] = "test" /\ UNCHANGED <<node, reg, raced, wrong>>
      /\ \E label \in {"recv", "open"} : pc' = [pc EXCEPT ![t] = label]
  BY DEF TestAttempts, Reply, Goto
<1>3. account_list[n].attempts = wrong[n] /\ account_list[n].attempts = Capped(reg[t] + 1)
  BY <1>t, <1>1, <1>2 DEF CountInv, CountRight, WrittenRight
<1>4. wrong[n] >= MaxAttempts => /\ reg[t] + 1 >= MaxAttempts
                                 /\ account_list[n].attempts >= MaxAttempts
  BY <1>t, <1>3, ConstantTypes DEF Capped
<1>5. \/ account_list' = [account_list EXCEPT ![n].is_active = FALSE]
      \/ account_list' = account_list /\ ~(wrong[n] >= MaxAttempts)
  BY <1>4 DEF TestAttempts
<1>6. /\ account_list' \in [AccId -> Node]
      /\ account_list'[n].attempts = wrong[n]
      /\ wrong[n] >= MaxAttempts => ~account_list'[n].is_active
      /\ \A b \in AccId : b # n => account_list'[b] = account_list[b]
  <2>1. CASE account_list' = [account_list EXCEPT ![n].is_active = FALSE]
    <3>1. /\ account_list' \in [AccId -> Node]
          /\ \A b \in AccId : account_list'[b].attempts = account_list[b].attempts
          /\ ~account_list'[n].is_active
          /\ \A b \in AccId : b # n => account_list'[b] = account_list[b]
      BY <1>t, <1>1, <2>1, SetInactive
    <3> QED
      BY <1>t, <1>3, <3>1
  <2>2. CASE account_list' = account_list /\ ~(wrong[n] >= MaxAttempts)
    BY <1>1, <1>3, <2>2
  <2> QED
    BY <1>5, <2>1, <2>2
<1> QED
  BY <1>t, <1>1, <1>2, <1>6, CountChange DEF Labels

LEMMA CountInit == Init => CountInv
BY DEF Init, CountInv

LEMMA CountStart ==
  ASSUME TypeInv, CountInv, Start
  PROVE  CountInv'
<1>1. \A t \in Thread : pc'[t] = "none"
  BY DEF Start, localVars, TypeInv, NothingWhenDown
<1>2. account_list' # NULL => \A a \in AccId : account_list'[a].attempts = 0 /\ wrong'[a] = 0
  BY DEF Start, ReadList, TypeInv, NothingWhenDown
<1>3. LoggingIn' = {} /\ ~(0 >= MaxAttempts)
  BY <1>1, ConstantTypes DEF LoggingIn
<1> QED
  BY <1>1, <1>2, <1>3 DEF CountInv, Alone, CountRight, BlockedSoon, ReadRight, WrittenRight

\* The steps outside process_login, and CheckActive, which ends it or goes on.
LEMMA CountIdle ==
  ASSUME TypeInv, CountInv, NEW t \in Thread, pc[t] # "test",
         NEW label \in {"none", "recv", "clear", "open", "print", "flush"},
         label = "clear" => pc[t] = "right",
         pc' = [pc EXCEPT ![t] = label] \/ (pc' = pc /\ t \notin LoggingIn),
         \A u \in Thread : u # t => node'[u] = node[u],
         t \in LoggingIn => node' = node,
         UNCHANGED <<reg, account_list, wrong, raced>>
  PROVE  CountInv'
<1>t. pc \in [Thread -> Labels] /\ node \in [Thread -> AccId]
  BY DEF TypeInv, TypeOK
<1>1. \A u \in Thread : u # t => pc'[u] = pc[u] /\ node'[u] = node[u] /\ reg'[u] = reg[u]
  BY <1>t
<1>2. pc'[t] = label \/ (pc'[t] = pc[t] /\ t \notin LoggingIn)
  BY <1>t
<1>3. \A u \in Thread : /\ pc'[u] \in {"increment", "test"} => pc[u] = pc'[u]
                        /\ pc[u] = "test" => pc'[u] = "test"
  BY <1>1, <1>2
<1>4. \A u \in Thread : u \in LoggingIn' => u \in LoggingIn /\ node'[u] = node[u] /\ reg'[u] = reg[u]
  BY <1>1, <1>2 DEF LoggingIn
<1> QED
  BY <1>3, <1>4, CountFrame

LEMMA CountStep == TypeInv /\ CountInv /\ [Next]_vars => CountInv'
<1> SUFFICES ASSUME TypeInv, CountInv, [Next]_vars
             PROVE  CountInv'
  OBVIOUS
<1>t. pc \in [Thread -> Labels] /\ node \in [Thread -> AccId]
  BY DEF TypeInv, TypeOK
<1>1. ASSUME NEW t \in Thread, Spawn(t)
      PROVE  CountInv'
  <2>1. /\ pc[t] = "none" /\ UNCHANGED <<node, reg, account_list, wrong, raced>>
        /\ \E label \in {"recv", "open"} : pc' = [pc EXCEPT ![t] = label]
    BY <1>1 DEF Spawn, Goto
  <2> QED
    BY <2>1, CountIdle
<1>2. ASSUME NEW t \in Thread, RecvFails(t)
      PROVE  CountInv'
  <2>1. /\ pc[t] = "recv" /\ UNCHANGED <<node, reg, account_list, wrong, raced>>
        /\ pc' = [pc EXCEPT ![t] = "open"]
    BY <1>2 DEF RecvFails, Goto
  <2> QED
    BY <2>1, CountIdle
<1>3. ASSUME NEW t \in Thread, EnterUsername(t)
      PROVE  CountInv'
  <2>1. /\ pc[t] = "recv" /\ UNCHANGED <<node, reg, account_list, wrong, raced>>
        /\ \E label \in {"recv", "open"} : pc' = [pc EXCEPT ![t] = label]
    BY <1>3 DEF EnterUsername, Reply, Goto
  <2> QED
    BY <2>1, CountIdle
<1>4. ASSUME NEW t \in Thread, Command(t)
      PROVE  CountInv'
  <2>1. /\ pc[t] = "recv" /\ UNCHANGED <<node, reg, account_list, wrong, raced>>
        /\ \E label \in {"recv", "open"} : pc' = [pc EXCEPT ![t] = label]
    BY <1>4 DEF Command, Reply, Goto
  <2> QED
    BY <2>1, CountIdle
<1>5. ASSUME NEW t \in Thread, EnterPassword(t)
      PROVE  CountInv'
  <2>1. pc[t] = "recv" /\ UNCHANGED <<reg, account_list, wrong>>
    BY <1>5 DEF EnterPassword
  <2>2. CASE Reply(t, USERNAME_REQUIRED, EmptyLine) /\ UNCHANGED <<node, raced>>
    <3>1. \E label \in {"recv", "open"} : pc' = [pc EXCEPT ![t] = label]
      BY <2>2 DEF Reply, Goto
    <3> QED
      BY <2>1, <2>2, <3>1, CountIdle
  <2>3. CASE \E a \in Lookup(account_list, username[t]), p \in Text :
               /\ Goto(t, IF p = Pass[a] THEN "right" ELSE "wrong")
               /\ node' = [node EXCEPT ![t] = a]
               /\ raced' = (raced \/ \E u \in LoggingIn : node[u] = a)
    <3>1. PICK a \in AccId, label \in {"right", "wrong"} :
            /\ pc' = [pc EXCEPT ![t] = label] /\ node' = [node EXCEPT ![t] = a]
            /\ raced' = (raced \/ \E u \in LoggingIn : node[u] = a)
      BY <2>3 DEF Lookup, Goto
    <3> QED
      BY <2>1, <3>1, CountEnter
  <2> QED
    BY <1>5, <2>2, <2>3 DEF EnterPassword
<1>6. ASSUME NEW t \in Thread, CheckActive(t)
      PROVE  CountInv'
  <2>1. /\ pc[t] = "right" /\ UNCHANGED <<node, reg, account_list, wrong, raced>>
        /\ \E label \in {"clear", "recv", "open"} : pc' = [pc EXCEPT ![t] = label]
    BY <1>6 DEF CheckActive, Reply, Goto
  <2> QED
    BY <2>1, CountIdle
<1>7. ASSUME NEW t \in Thread, ClearAttempts(t) \/ WriteAttempts(t) \/ TestAttempts(t)
      PROVE  CountInv'
  <2>1. CASE raced
    BY <1>7, <2>1 DEF ClearAttempts, WriteAttempts, TestAttempts, CountInv
  <2> QED
    BY <1>7, <2>1, CountClear, CountWrite, CountTest
<1>8. ASSUME NEW t \in Thread, OpenFile(t)
      PROVE  CountInv'
  <2>1. CASE Die
    BY <2>1 DEF Die, CountInv
  <2>2. CASE ~Die
    <3>1. /\ pc[t] = "open" /\ pc' = [pc EXCEPT ![t] = "print"] /\ node' = [node EXCEPT ![t] = 1]
          /\ UNCHANGED <<reg, account_list, wrong, raced>>
      BY <1>8, <2>2 DEF OpenFile, Goto
    <3>2. t \notin LoggingIn /\ \A u \in Thread : u # t => node'[u] = node[u]
      BY <1>t, <3>1 DEF LoggingIn
    <3> QED
      BY <3>1, <3>2, CountIdle
  <2> QED
    BY <2>1, <2>2
<1>9. ASSUME NEW t \in Thread, OpenFails(t)
      PROVE  CountInv'
  <2>1. /\ pc[t] = "open" /\ UNCHANGED <<node, reg, account_list, wrong, raced>>
        /\ pc' = [pc EXCEPT ![t] = "none"]
    BY <1>9 DEF OpenFails, Goto
  <2> QED
    BY <2>1, CountIdle
<1>10. ASSUME NEW t \in Thread, PrintNode(t)
       PROVE  CountInv'
  <2>1. /\ pc[t] = "print"
        /\ pc' = [pc EXCEPT ![t] = "flush"] \/ pc' = pc
        /\ \A u \in Thread : u # t => node'[u] = node[u]
        /\ UNCHANGED <<reg, account_list, wrong, raced>>
    BY <1>10, <1>t DEF PrintNode, Goto
  <2>2. t \notin LoggingIn
    BY <2>1 DEF LoggingIn
  <2> QED
    BY <2>1, <2>2, CountIdle
<1>11. ASSUME NEW t \in Thread, Flush(t)
       PROVE  CountInv'
  <2>1. /\ pc[t] = "flush" /\ pc' = [pc EXCEPT ![t] = "none"]
        /\ \A u \in Thread : u # t => node'[u] = node[u]
        /\ UNCHANGED <<reg, account_list, wrong, raced>>
    BY <1>11, <1>t DEF Flush, Goto
  <2>2. t \notin LoggingIn
    BY <2>1 DEF LoggingIn
  <2> QED
    BY <2>1, <2>2, CountIdle
<1>12. CASE Kill
  BY <1>12 DEF Kill, Die, CountInv
<1>13. CASE UNCHANGED vars
  BY <1>13 DEF vars, localVars, CountInv, Alone, LoggingIn, CountRight, BlockedSoon, ReadRight, WrittenRight
<1> QED
  BY <1>1, <1>2, <1>3, <1>4, <1>5, <1>6, <1>7, <1>8, <1>9, <1>10, <1>11, <1>12, <1>13,
     CountStart, CountRead DEF Next, Serve, Run

\* The reply of server.c:146, "account is blocked due to 3 failed login
\* attempts", where it holds: unless two logins were inside process_login at
\* one account, that many wrong passwords block it, for any number of
\* threads, logins at other accounts and saves.
THEOREM BlockedUnlessTwoLogins == Spec => []BlockedUnlessRaced
<1>1. TypeInv /\ CountInv => BlockedUnlessRaced
  BY DEF TypeInv, CountInv, BlockedSoon, BlockedUnlessRaced, BlockedAtMax, LoggingIn
<1> QED
  BY <1>1, CountInit, CountStep, TypeInvAlways, PTL DEF Spec
=============================================================================
