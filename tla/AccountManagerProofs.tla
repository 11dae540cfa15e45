-------------------------- MODULE AccountManagerProofs --------------------------
(***************************************************************************)
(* Proofs about AccountManager, for every set of words, every number of    *)
(* attempts and every account file: the types, and that the program        *)
(* implements AccountStore.                                                *)
(***************************************************************************)
EXTENDS AccountManager, SequenceTheorems, FiniteSetTheorems, TLAPS

\* A bounded sequence is a sequence of at most that length.
LEMMA BoundedSeqIsSeq ==
  ASSUME NEW S, NEW n \in Nat
  PROVE  /\ BoundedSeq(S, n) \subseteq Seq(S)
         /\ \A s \in Seq(S) : s \in BoundedSeq(S, n) <=> Len(s) <= n
<1>1. BoundedSeq(S, n) = UNION {[1..m -> S] : m \in 0..n}
  BY DEF BoundedSeq, SeqOf
<1>2. ASSUME NEW s \in BoundedSeq(S, n)
      PROVE  s \in Seq(S) /\ Len(s) <= n
  <2>1. PICK m \in 0..n : s \in [1..m -> S]
    BY <1>1
  <2>2. s \in Seq(S)
    BY <2>1, SeqDef
  <2>3. Len(s) = m
    BY <2>1, <2>2, LenProperties
  <2> QED
    BY <2>1, <2>2, <2>3
<1>3. ASSUME NEW s \in Seq(S), Len(s) <= n
      PROVE  s \in BoundedSeq(S, n)
  BY <1>1, <1>3, LenProperties
<1> QED
  BY <1>2, <1>3

\* A nonempty set of numbers has a least one.
LEMMA LeastNat ==
  ASSUME NEW T, T \subseteq Nat, T # {}
  PROVE  \E m \in T : \A n \in T : m <= n
<1> DEFINE Below(n) == 0..n
           Segments == {Below(n) : n \in T}
<1>1. Segments \subseteq FiniteSubsetsOf(Nat)
  <2> SUFFICES ASSUME NEW n \in T
               PROVE  Below(n) \in FiniteSubsetsOf(Nat)
    OBVIOUS
  <2>1. IsFiniteSet(0..n)
    BY FS_Interval
  <2> QED
    BY <2>1 DEF FiniteSubsetsOf
<1>2. IsWellFoundedOn(StrictSubsetOrdering(Nat), FiniteSubsetsOf(Nat))
  BY FS_StrictSubsetOrderingWellFounded
<1>3. Segments # {}
  OBVIOUS
<1>4. \E x \in Segments : \A y \in Segments : <<y, x>> \notin StrictSubsetOrdering(Nat)
  <2> HIDE DEF Segments
  <2> QED
    BY <1>1, <1>2, <1>3, WFMin
<1>5. PICK m \in T : \A n \in T : <<Below(n), Below(m)>> \notin StrictSubsetOrdering(Nat)
  BY <1>4
<1>6. ASSUME NEW n \in T, n < m
      PROVE  FALSE
  <2>1. Below(n) \subseteq Below(m) /\ m \in Below(m) /\ m \notin Below(n)
    BY <1>6
  <2>2. Below(n) # Below(m)
    BY <2>1
  <2>3. Below(n) \subseteq Nat /\ Below(m) \subseteq Nat
    OBVIOUS
  <2> HIDE DEF Below
  <2>4. <<Below(n), Below(m)>> \in StrictSubsetOrdering(Nat)
    BY <2>1, <2>2, <2>3 DEF StrictSubsetOrdering
  <2> QED
    BY <2>4, <1>5
<1> QED
  BY <1>6

-----------------------------------------------------------------------------
(***************************************************************************)
(* search_account and what it finds when the list changes.                 *)
(***************************************************************************)

Lists == Seq(Account)

LEMMA ListFacts ==
  ASSUME NEW list \in Lists
  PROVE  /\ Len(list) \in Nat
         /\ list \in [1..Len(list) -> Account]
         /\ \A i \in 1..Len(list) : /\ list[i].username \in Word
                                    /\ list[i].password \in Word
                                    /\ list[i].is_active \in BOOLEAN
<1>1. Len(list) \in Nat /\ list \in [1..Len(list) -> Account]
  BY LenProperties DEF Lists
<1> QED
  BY <1>1 DEF Account

\* There is at most one first node with a name.
LEMMA SearchUnique ==
  ASSUME NEW list \in Lists, NEW u, NEW i \in Search(list, u), NEW j \in Search(list, u)
  PROVE  i = j
<1>1. i \in 1..Len(list) /\ j \in 1..Len(list) /\ Len(list) \in Nat
  BY ListFacts DEF Search
<1>2. ~(i < j) /\ ~(j < i)
  BY <1>1 DEF Search
<1> QED
  BY <1>1, <1>2

\* And there is one if the list has the name.
LEMMA SearchFinds ==
  ASSUME NEW list \in Lists, NEW u
  PROVE  u \in {list[i].username : i \in 1..Len(list)} <=> Search(list, u) # {}
<1>1. ASSUME Search(list, u) # {}
      PROVE  u \in {list[i].username : i \in 1..Len(list)}
  BY <1>1 DEF Search
<1>2. ASSUME u \in {list[i].username : i \in 1..Len(list)}
      PROVE  Search(list, u) # {}
  <2> DEFINE T == {i \in 1..Len(list) : list[i].username = u}
  <2>1. T \subseteq Nat /\ T # {} /\ Len(list) \in Nat
    BY <1>2, ListFacts
  <2>2. PICK m \in T : \A n \in T : m <= n
    BY <2>1, LeastNat
  <2>3. \A j \in 1..(m - 1) : j \in 1..Len(list) /\ ~(m <= j)
    BY <2>1
  <2>4. m \in Search(list, u)
    BY <2>2, <2>3 DEF Search
  <2> QED
    BY <2>4
<1> QED
  BY <1>1, <1>2

LEMMA AccountsListed ==
  ASSUME NEW list \in Lists, NEW u, NEW i \in Search(list, u)
  PROVE  u \in DOMAIN Accounts(list)
BY SearchFinds DEF Accounts

LEMMA AccountsAt ==
  ASSUME NEW list \in Lists, NEW u, NEW i \in Search(list, u)
  PROVE  Accounts(list)[u] = [password |-> list[i].password, is_active |-> list[i].is_active]
<1>1. u \in {list[k].username : k \in 1..Len(list)}
  BY SearchFinds
<1>2. (CHOOSE k \in Search(list, u) : TRUE) = i
  BY SearchUnique
<1> QED
  BY <1>1, <1>2 DEF Accounts

LEMMA AccountsActive ==
  ASSUME NEW list \in Lists, NEW u, NEW i \in Search(list, u)
  PROVE  Accounts(list)[u].is_active = list[i].is_active
<1>1. Accounts(list)[u] = [password |-> list[i].password, is_active |-> list[i].is_active]
  BY AccountsAt
<1> QED
  BY <1>1

LEMMA AccountsDomain ==
  ASSUME NEW list \in Lists
  PROVE  /\ \A u : u \in DOMAIN Accounts(list) <=> Search(list, u) # {}
         /\ DOMAIN Accounts(list) \subseteq Word
<1>1. DOMAIN Accounts(list) = {list[i].username : i \in 1..Len(list)}
  BY DEF Accounts
<1>2. DOMAIN Accounts(list) \subseteq Word
  BY <1>1, ListFacts
<1> QED
  BY <1>1, <1>2, SearchFinds

-----------------------------------------------------------------------------
(***************************************************************************)
(* The two ways the list changes: a new account behind the others, and an  *)
(* account that is blocked.                                                *)
(***************************************************************************)

New(u, p) == [username |-> u, password |-> p, is_active |-> TRUE]
Blocked(list, i) == [list EXCEPT ![i].is_active = FALSE]

\* Every name keeps its node, and the new name has one.
LEMMA AppendSearch ==
  ASSUME NEW list \in Lists, NEW u \in Word, NEW p \in Word, Search(list, u) = {}
  PROVE  /\ Append(list, New(u, p)) \in Lists
         /\ Len(Append(list, New(u, p))) = Len(list) + 1
         /\ \A v : v # u => Search(Append(list, New(u, p)), v) = Search(list, v)
         /\ \A i \in 1..Len(list) : Append(list, New(u, p))[i] = list[i]
         /\ Len(list) + 1 \in Search(Append(list, New(u, p)), u)
         /\ Append(list, New(u, p))[Len(list) + 1] = New(u, p)
<1> DEFINE n == Len(list)
           longer == Append(list, New(u, p))
<1>1. New(u, p) \in Account
  BY DEF New, Account
<1>2. /\ longer \in Lists
      /\ Len(longer) = n + 1
      /\ \A i \in 1..n : longer[i] = list[i]
      /\ longer[n + 1] = New(u, p)
  BY <1>1, AppendProperties DEF Lists
<1>3. n \in Nat
  BY ListFacts
<1> HIDE DEF n, longer
<1>4. ASSUME NEW v, v # u
      PROVE  Search(longer, v) = Search(list, v)
  <2>1. longer[n + 1].username # v
    BY <1>2, <1>4 DEF New
  <2>2. \A i \in 1..(n + 1) : i = n + 1 \/ i \in 1..n
    BY <1>3
  <2>3. \A i \in 1..n : \A j \in 1..(i - 1) : j \in 1..n
    BY <1>3
  <2>4. Search(list, v) = {i \in 1..n : list[i].username = v /\ \A j \in 1..(i - 1) : list[j].username # v}
    BY DEF Search, n
  <2>5. Search(longer, v) = {i \in 1..(n + 1) : longer[i].username = v /\ \A j \in 1..(i - 1) : longer[j].username # v}
    BY <1>2 DEF Search
  <2>6. 1..n \subseteq 1..(n + 1)
    BY <1>3
  <2>7. \A i \in 1..n : i \in Search(longer, v) <=> i \in Search(list, v)
    BY <1>2, <2>3, <2>4, <2>5, <2>6
  <2>8. n + 1 \notin Search(longer, v)
    BY <2>1, <2>5
  <2> QED
    BY <2>2, <2>4, <2>5, <2>7, <2>8
<1>5. n + 1 \in Search(longer, u)
  <2>1. u \notin {list[i].username : i \in 1..Len(list)}
    BY SearchFinds
  <2>2. \A j \in 1..((n + 1) - 1) : j \in 1..n /\ list[j].username # u
    BY <1>3, <2>1 DEF n
  <2>3. n + 1 \in 1..(n + 1)
    BY <1>3
  <2> QED
    BY <1>2, <2>2, <2>3 DEF Search, New
<1> QED
  BY <1>2, <1>4, <1>5 DEF n, longer

\* Every name keeps its node, and the blocked one all but its flag.
LEMMA BlockNodes ==
  ASSUME NEW list \in Lists, NEW i \in 1..Len(list)
  PROVE  /\ Blocked(list, i) \in Lists
         /\ Len(Blocked(list, i)) = Len(list)
         /\ \A j \in 1..Len(list) :
              /\ Blocked(list, i)[j].username = list[j].username
              /\ Blocked(list, i)[j].password = list[j].password
              /\ Blocked(list, i)[j].is_active = IF j = i THEN FALSE ELSE list[j].is_active
<1> DEFINE r == [list[i] EXCEPT !.is_active = FALSE]
<1>1. list[i] \in Account /\ Len(list) \in Nat
  BY ListFacts
<1>2. /\ r \in Account /\ r.username = list[i].username /\ r.password = list[i].password
      /\ r.is_active = FALSE
  BY <1>1 DEF Account
<1>3. Blocked(list, i) = [list EXCEPT ![i] = r]
  BY DEF Blocked
<1>4. /\ Blocked(list, i) \in Lists
      /\ Len(Blocked(list, i)) = Len(list)
      /\ \A j \in 1..Len(list) : Blocked(list, i)[j] = IF j = i THEN r ELSE list[j]
  <2> HIDE DEF r
  <2> QED
    BY <1>2, <1>3, ExceptSeq DEF Lists
<1>5. \A j \in 1..Len(list) :
              /\ Blocked(list, i)[j].username = list[j].username
              /\ Blocked(list, i)[j].password = list[j].password
              /\ Blocked(list, i)[j].is_active = IF j = i THEN FALSE ELSE list[j].is_active
  <2> HIDE DEF r
  <2> QED
    BY <1>2, <1>4
<1> QED
  BY <1>4, <1>5

LEMMA BlockActive ==
  ASSUME NEW list \in Lists, NEW i \in 1..Len(list)
  PROVE  \A j \in 1..Len(list) :
           Blocked(list, i)[j].is_active = IF j = i THEN FALSE ELSE list[j].is_active
BY BlockNodes

LEMMA BlockPassword ==
  ASSUME NEW list \in Lists, NEW i \in 1..Len(list)
  PROVE  \A j \in 1..Len(list) : Blocked(list, i)[j].password = list[j].password
BY BlockNodes

LEMMA BlockLength ==
  ASSUME NEW list \in Lists, NEW i \in 1..Len(list)
  PROVE  Blocked(list, i) \in Lists /\ Len(Blocked(list, i)) = Len(list)
BY BlockNodes

LEMMA BlockSearch ==
  ASSUME NEW list \in Lists, NEW i \in 1..Len(list), NEW u
  PROVE  Search(Blocked(list, i), u) = Search(list, u)
<1>1. Len(list) \in Nat
  BY ListFacts
<1>2. \A k \in 1..Len(list) : \A j \in 1..(k - 1) : j \in 1..Len(list)
  BY <1>1
<1>3. \A j \in 1..Len(list) : Blocked(list, i)[j].username = list[j].username
  BY BlockNodes
<1>4. Len(Blocked(list, i)) = Len(list)
  BY BlockNodes
<1> QED
  BY <1>2, <1>3, <1>4 DEF Search

-----------------------------------------------------------------------------
(***************************************************************************)
(* The inductive invariant.  It says what the list has that the file does  *)
(* not have yet in the middle of write_account_info, and that an account   *)
(* with MaxAttempts wrong passwords is in the list and blocked.            *)
(***************************************************************************)

Types ==
  /\ pc \in {"down", "menu", "open", "write"}
  /\ list_account \in Lists /\ Len(list_account) <= MaxAccounts
  /\ list_login_attempt \in [Word -> 0..MaxAttempts]
  /\ current_user \in Word \cup {Nobody}
  /\ file \in Lists /\ Len(file) <= MaxAccounts

NothingWhenDown == pc = "down" => list_login_attempt = NoAttempts /\ current_user = Nobody

Added(u, p) == Search(file, u) = {} /\ list_account = Append(file, New(u, p))
Barred(u, i) == /\ i \in Search(file, u) /\ list_account = Blocked(file, i)
                /\ list_login_attempt[u] = MaxAttempts

FileOneBehind ==
  /\ pc = "menu" => file = list_account
  /\ pc = "open" => \/ \E u, p \in Word : Added(u, p)
                    \/ \E u \in Word : \E i \in 1..Len(file) : Barred(u, i)
  /\ pc = "write" => file = <<>>
  /\ pc \in {"open", "write"} => list_account # <<>>

CountedIsListed ==
  \A u \in Word :
    /\ list_login_attempt[u] # 0 => Search(list_account, u) # {}
    /\ list_login_attempt[u] >= MaxAttempts =>
         \A i \in Search(list_account, u) : ~list_account[i].is_active

StoreInv == Types /\ NothingWhenDown /\ FileOneBehind /\ CountedIsListed

LEMMA TypesAre == StoreInv => TypeOK
<1>1. MaxAccounts \in Nat
  BY ManagerAssumption
<1> QED
  BY <1>1, BoundedSeqIsSeq DEF StoreInv, Types, FileOneBehind, TypeOK, Lists

LEMMA StoreInit == Init => StoreInv
<1> SUFFICES ASSUME Init
             PROVE  StoreInv
  OBVIOUS
<1>1. file \in Lists /\ Len(file) <= MaxAccounts
  BY BoundedSeqIsSeq, ManagerAssumption DEF Init, Lists
<1>2. <<>> \in Lists /\ Len(<<>>) = 0
  BY EmptySeq DEF Lists
<1>3. Types
  BY <1>1, <1>2, ManagerAssumption DEF Init, Types, NoAttempts
<1>4. CountedIsListed
  BY ManagerAssumption DEF Init, CountedIsListed, NoAttempts
<1> QED
  BY <1>3, <1>4 DEF Init, StoreInv, NothingWhenDown, FileOneBehind

-----------------------------------------------------------------------------
(***************************************************************************)
(* What Register and SignInFails do to the list, in the words above.       *)
(***************************************************************************)

LEMMA RegisterStep ==
  ASSUME StoreInv, NEW u \in Word, NEW p \in Word, Register(u, p)
  PROVE  StoreInv'
<1>1. file = list_account /\ pc' = "open" /\ list_account' = Append(list_account, New(u, p))
  BY DEF StoreInv, FileOneBehind, Register, add_account, New
<1>2. list_account \in Lists /\ Search(list_account, u) = {} /\ Len(list_account) < MaxAccounts
  BY DEF StoreInv, Types, Register
<1>3. /\ list_account' \in Lists /\ Len(list_account') = Len(list_account) + 1
      /\ \A v : v # u => Search(list_account', v) = Search(list_account, v)
      /\ \A i \in 1..Len(list_account) : list_account'[i] = list_account[i]
  BY <1>1, <1>2, AppendSearch
<1>4. Len(list_account) \in Nat /\ MaxAccounts \in Nat
  BY <1>2, ListFacts, ManagerAssumption
<1>5. Types'
  BY <1>2, <1>3, <1>4 DEF Types, StoreInv, Register
<1>6. FileOneBehind'
  <2>1. Added(u, p)'
    BY <1>1, <1>2 DEF Added, Register
  <2>2. list_account' # <<>>
    BY <1>3, <1>4, EmptySeq
  <2> QED
    BY <1>1, <2>1, <2>2 DEF FileOneBehind
<1>7. CountedIsListed'
  <2> SUFFICES ASSUME NEW v \in Word, list_login_attempt[v] # 0
               PROVE  /\ Search(list_account', v) # {}
                      /\ list_login_attempt[v] >= MaxAttempts =>
                           \A i \in Search(list_account', v) : ~list_account'[i].is_active
    BY ManagerAssumption DEF CountedIsListed, Register
  <2>1. v # u
    BY <1>2 DEF StoreInv, CountedIsListed
  <2>2. \A i \in Search(list_account, v) : list_account'[i] = list_account[i]
    BY <1>3 DEF Search
  <2> QED
    BY <1>3, <2>1, <2>2 DEF StoreInv, CountedIsListed
<1> QED
  BY <1>1, <1>5, <1>6, <1>7 DEF StoreInv, NothingWhenDown

LEMMA SignInFailsStep ==
  ASSUME StoreInv, NEW u \in Word, NEW p \in Word, SignInFails(u, p)
  PROVE  StoreInv' /\ list_login_attempt[u] < MaxAttempts
<1>1. PICK i \in 1..Len(list_account) :
        /\ Tries(u, i) /\ list_account[i].password # p
        /\ increase_login_attempt(u)
        /\ IF list_login_attempt'[u] >= MaxAttempts
           THEN list_account' = Blocked(list_account, i) /\ pc' = "open"
           ELSE UNCHANGED <<list_account, pc>>
        /\ UNCHANGED <<current_user, file>>
  BY DEF SignInFails, Blocked
<1>2. /\ list_account \in Lists /\ i \in Search(list_account, u) /\ list_account[i].is_active
      /\ file = list_account /\ pc = "menu"
  BY <1>1 DEF Tries, StoreInv, Types, FileOneBehind
<1>3. list_login_attempt \in [Word -> 0..MaxAttempts] /\ MaxAttempts \in Nat \ {0}
  BY ManagerAssumption DEF StoreInv, Types
<1>4. list_login_attempt[u] < MaxAttempts
  BY <1>2, <1>3 DEF StoreInv, CountedIsListed
<1>5. /\ list_login_attempt' \in [Word -> 0..MaxAttempts]
      /\ list_login_attempt'[u] = list_login_attempt[u] + 1
      /\ \A v \in Word : v # u => list_login_attempt'[v] = list_login_attempt[v]
  BY <1>1, <1>3, <1>4 DEF increase_login_attempt
<1>6. \A v \in Word : list_login_attempt'[v] # 0 => Search(list_account, v) # {}
  BY <1>2, <1>5 DEF StoreInv, CountedIsListed
<1>7. CASE list_login_attempt'[u] >= MaxAttempts
  <2>1. list_account' = Blocked(list_account, i) /\ pc' = "open" /\ file' = file
    BY <1>1, <1>7
  <2>2. /\ list_account' \in Lists /\ Len(list_account') = Len(list_account)
        /\ \A v : Search(list_account', v) = Search(list_account, v)
        /\ \A j \in 1..Len(list_account) :
             list_account'[j].is_active = IF j = i THEN FALSE ELSE list_account[j].is_active
    <3>1. /\ Blocked(list_account, i) \in Lists
          /\ Len(Blocked(list_account, i)) = Len(list_account)
      BY <1>2, BlockLength
    <3>2. \A v : Search(Blocked(list_account, i), v) = Search(list_account, v)
      BY <1>2, BlockSearch
    <3>3. \A j \in 1..Len(list_account) :
             Blocked(list_account, i)[j].is_active = IF j = i THEN FALSE ELSE list_account[j].is_active
      BY <1>2, BlockActive
    <3> QED
      BY <2>1, <3>1, <3>2, <3>3
  <2>3. Types'
    BY <1>1, <1>2, <1>5, <2>1, <2>2 DEF StoreInv, Types
  <2>4. FileOneBehind'
    <3>1. list_login_attempt'[u] = MaxAttempts
      BY <1>3, <1>4, <1>5, <1>7
    <3>2. Barred(u, i)'
      BY <1>2, <2>1, <3>1 DEF Barred
    <3>3. list_account' # <<>>
      BY <1>1, <2>2, EmptySeq, ListFacts
    <3>4. file' = list_account
      BY <1>2, <2>1
    <3> QED
      BY <2>1, <3>2, <3>3, <3>4 DEF FileOneBehind
  <2>5. CountedIsListed'
    <3> SUFFICES ASSUME NEW v \in Word, list_login_attempt'[v] >= MaxAttempts,
                        NEW j \in Search(list_account, v)
                 PROVE  ~list_account'[j].is_active
      BY <1>6, <2>2 DEF CountedIsListed
    <3>1. j \in 1..Len(list_account)
      BY DEF Search
    <3>2. CASE v = u
      BY <1>2, <2>2, <3>1, <3>2, SearchUnique
    <3>3. CASE v # u
      BY <1>5, <2>2, <3>1, <3>3 DEF StoreInv, CountedIsListed
    <3> QED
      BY <3>2, <3>3
  <2> QED
    BY <2>1, <2>3, <2>4, <2>5, <1>4 DEF StoreInv, NothingWhenDown
<1>8. CASE ~(list_login_attempt'[u] >= MaxAttempts)
  <2>1. list_account' = list_account /\ pc' = pc /\ file' = file /\ current_user' = current_user
    BY <1>1, <1>8
  <2>2. Types'
    BY <1>5, <2>1 DEF StoreInv, Types
  <2>3. FileOneBehind'
    BY <1>2, <2>1 DEF FileOneBehind
  <2>4. CountedIsListed'
    <3>1. \A v \in Word : list_login_attempt'[v] >= MaxAttempts => list_login_attempt[v] >= MaxAttempts
      BY <1>5, <1>8
    <3> QED
      BY <1>6, <2>1, <3>1 DEF StoreInv, CountedIsListed, Search
  <2> QED
    BY <1>2, <1>4, <2>1, <2>2, <2>3, <2>4 DEF StoreInv, NothingWhenDown
<1> QED
  BY <1>7, <1>8

LEMMA StoreStep == StoreInv /\ [Next]_vars => StoreInv'
<1> SUFFICES ASSUME StoreInv, [Next]_vars
             PROVE  StoreInv'
  OBVIOUS
<1> USE DEF StoreInv
<1>e. <<>> \in Lists /\ Len(<<>>) = 0 /\ MaxAccounts \in Nat /\ MaxAttempts \in Nat \ {0}
  BY EmptySeq, ManagerAssumption DEF Lists
<1>1. CASE Start
  <2>1. Types' /\ NothingWhenDown' /\ FileOneBehind'
    BY <1>1 DEF Start, Types, NothingWhenDown, FileOneBehind
  <2>2. CountedIsListed'
    BY <1>1, <1>e DEF Start, NothingWhenDown, NoAttempts, CountedIsListed
  <2> QED
    BY <2>1, <2>2
<1>2. CASE End
  <2>1. Types' /\ NothingWhenDown' /\ FileOneBehind'
    BY <1>2, <1>e DEF End, Types, NothingWhenDown, FileOneBehind, NoAttempts
  <2>2. CountedIsListed'
    BY <1>2, <1>e DEF End, NoAttempts, CountedIsListed
  <2> QED
    BY <2>1, <2>2
<1>3. CASE Truncate
  BY <1>3, <1>e DEF Truncate, Types, NothingWhenDown, FileOneBehind, CountedIsListed, Search
<1>4. CASE Write
  BY <1>4 DEF Write, Types, NothingWhenDown, FileOneBehind, CountedIsListed, Search
<1>5. ASSUME NEW u \in Word, SignOut(u)
      PROVE  StoreInv'
  BY <1>5 DEF SignOut, Types, NothingWhenDown, FileOneBehind, CountedIsListed, Search
<1>6. ASSUME NEW u \in Word, NEW p \in Word, SignIn(u, p)
      PROVE  StoreInv'
  <2>1. PICK i \in 1..Len(list_account) : Tries(u, i)
    BY <1>6 DEF SignIn
  <2>2. pc = "menu" /\ UNCHANGED <<pc, list_account, file>> /\ current_user' = u
    BY <1>6, <2>1 DEF SignIn, Tries
  <2>3. /\ list_login_attempt' \in [Word -> 0..MaxAttempts]
        /\ \A v \in Word : list_login_attempt'[v] # 0 => list_login_attempt'[v] = list_login_attempt[v]
    BY <1>6, <1>e DEF SignIn, reset_login_attempt, Types
  <2>4. Types' /\ NothingWhenDown' /\ FileOneBehind'
    BY <2>2, <2>3 DEF Types, NothingWhenDown, FileOneBehind
  <2>5. CountedIsListed'
    BY <2>2, <2>3, <1>e DEF CountedIsListed, Search
  <2> QED
    BY <2>4, <2>5
<1>7. CASE UNCHANGED vars
  BY <1>7 DEF vars, Types, NothingWhenDown, FileOneBehind, CountedIsListed, Search, Added, Barred
<1> QED
  BY <1>1, <1>2, <1>3, <1>4, <1>5, <1>6, <1>7, RegisterStep, SignInFailsStep DEF Next

LEMMA StoreAlways == Spec => []StoreInv
BY StoreInit, StoreStep, PTL DEF Spec

\* The variables keep their types, and the list is not NULL where
\* write_account_info reads its first node (line 68).
THEOREM ManagerTypes == Spec => []TypeOK
BY StoreAlways, TypesAre, PTL

-----------------------------------------------------------------------------
(***************************************************************************)
(* The refinement.  An account is added to, or blocked in, the store when  *)
(* the file is truncated; to the store the rest of a save is nothing.      *)
(***************************************************************************)

LEMMA KeptIs ==
  ASSUME StoreInv
  PROVE  /\ Kept \in Lists
         /\ pc = "menu" => Kept = list_account
BY DEF Kept, StoreInv, Types, FileOneBehind

LEMMA InitImplements == Init => Store!Init
<1> SUFFICES ASSUME Init
             PROVE  Store!Init
  OBVIOUS
<1>1. Kept \in Lists
  BY StoreInit DEF Kept, StoreInv, Types
<1>2. DOMAIN Accounts(Kept) \subseteq Word
  BY <1>1, AccountsDomain
<1> QED
  BY <1>2 DEF Init, Store!Init, Store!NoneWrong, NoAttempts

\* A name with MayTry: the account the menu found is the one of the store.
LEMMA TriesImplements ==
  ASSUME StoreInv, NEW u \in Word, NEW i, Tries(u, i)
  PROVE  Kept = list_account /\ Store!MayTry(u)
<1>1. Kept = list_account /\ list_account \in Lists /\ i \in Search(list_account, u)
  BY KeptIs DEF Tries
<1>2. u \in DOMAIN Accounts(Kept) /\ Accounts(Kept)[u].is_active
  <2>1. /\ u \in DOMAIN Accounts(list_account)
        /\ Accounts(list_account)[u].is_active = list_account[i].is_active
    BY <1>1, AccountsListed, AccountsActive
  <2>2. list_account[i].is_active
    BY DEF Tries
  <2> QED
    BY <1>1, <2>1, <2>2
<1>3. list_login_attempt[u] < MaxAttempts
  BY <1>1, ManagerAssumption DEF StoreInv, Types, CountedIsListed, Tries
<1> QED
  BY <1>1, <1>2, <1>3 DEF Store!MayTry, Tries

LEMMA BlockRecord ==
  ASSUME NEW x, NEW y, NEW r, r = [password |-> x, is_active |-> y],
         NEW s, s = [r EXCEPT !.is_active = FALSE]
  PROVE  s = [password |-> x, is_active |-> FALSE]
<1>1. DOMAIN r = {"password", "is_active"}
  BY SMT
<1>2. s["is_active"] = FALSE /\ s["password"] = r["password"]
  BY <1>1, Zenon
<1>3. s.is_active = FALSE /\ s.password = x
  BY <1>2, Zenon
<1>4. s = [f \in {"password", "is_active"} |-> s[f]]
  BY <1>1, Zenon
<1>5. [password |-> x, is_active |-> FALSE] =
        [f \in {"password", "is_active"} |-> [password |-> x, is_active |-> FALSE][f]]
  BY Zenon
<1> QED
  BY <1>2, <1>3, <1>4, <1>5

LEMMA TruncateImplements ==
  ASSUME StoreInv, Truncate
  PROVE  \E u \in Word : Store!Block(u) \/ \E p \in Word : Store!Register(u, p)
<1>1. Kept = file /\ Kept' = list_account /\ file \in Lists /\ list_account \in Lists
  BY DEF Truncate, Kept, StoreInv, Types
<1>2. UNCHANGED <<list_login_attempt, current_user>>
  BY DEF Truncate
<1>3. ASSUME NEW u \in Word, NEW p \in Word, Added(u, p)
      PROVE  Store!Register(u, p)
  <2>1. Search(file, u) = {} /\ list_account = Append(file, New(u, p))
    BY <1>3 DEF Added
  <2>2. /\ \A v : v # u => Search(list_account, v) = Search(file, v)
        /\ \A i \in 1..Len(file) : list_account[i] = file[i]
        /\ Len(file) + 1 \in Search(list_account, u)
        /\ list_account[Len(file) + 1] = New(u, p)
    BY <1>1, <2>1, AppendSearch
  <2>3. u \notin DOMAIN Accounts(file)
    BY <1>1, <2>1, AccountsDomain
  <2>4. DOMAIN Accounts(list_account) = DOMAIN Accounts(file) \cup {u}
    BY <1>1, <2>1, <2>2, AccountsDomain
  <2>5. Accounts(list_account)[u] = [password |-> p, is_active |-> TRUE]
    <3> DEFINE r == list_account[Len(file) + 1]
    <3>1. Accounts(list_account)[u] = [password |-> r.password, is_active |-> r.is_active]
      BY <1>1, <2>2, AccountsAt
    <3>2. r.password = p /\ r.is_active = TRUE
      BY <2>2 DEF New
    <3> QED
      BY <3>1, <3>2
  <2>6. ASSUME NEW v \in DOMAIN Accounts(file)
        PROVE  Accounts(list_account)[v] = Accounts(file)[v] /\ v # u
    <3>1. PICK i : i \in Search(file, v)
      BY <1>1, AccountsDomain
    <3>2. v # u /\ i \in Search(list_account, v) /\ list_account[i] = file[i]
      BY <2>2, <2>3, <3>1 DEF Search
    <3>3. Accounts(file)[v] = [password |-> file[i].password, is_active |-> file[i].is_active]
      BY <1>1, <3>1, AccountsAt
    <3>4. Accounts(list_account)[v] =
            [password |-> list_account[i].password, is_active |-> list_account[i].is_active]
      BY <1>1, <3>2, AccountsAt
    <3> QED
      BY <3>2, <3>3, <3>4
  <2>7. Accounts(list_account) = [v \in DOMAIN Accounts(list_account) |-> Accounts(list_account)[v]]
    BY DEF Accounts
  <2>8. Accounts(list_account) =
          [v \in DOMAIN Accounts(file) \cup {u} |->
             IF v = u THEN [password |-> p, is_active |-> TRUE] ELSE Accounts(file)[v]]
    BY <2>4, <2>5, <2>6, <2>7
  <2> QED
    BY <1>1, <1>2, <2>3, <2>8 DEF Store!Register
<1>4. ASSUME NEW u \in Word, NEW i \in 1..Len(file), Barred(u, i)
      PROVE  Store!Block(u)
  <2>1. /\ i \in Search(file, u) /\ list_account = Blocked(file, i)
        /\ list_login_attempt[u] = MaxAttempts
    BY <1>4 DEF Barred
  <2>2. /\ \A v : Search(list_account, v) = Search(file, v)
        /\ \A j \in 1..Len(file) :
             /\ list_account[j].password = file[j].password
             /\ list_account[j].is_active = IF j = i THEN FALSE ELSE file[j].is_active
    <3>1. \A v : Search(Blocked(file, i), v) = Search(file, v)
      BY <1>1, BlockSearch
    <3>2. \A j \in 1..Len(file) : Blocked(file, i)[j].password = file[j].password
      BY <1>1, BlockPassword
    <3>3. \A j \in 1..Len(file) :
            Blocked(file, i)[j].is_active = IF j = i THEN FALSE ELSE file[j].is_active
      BY <1>1, BlockActive
    <3> QED
      BY <2>1, <3>1, <3>2, <3>3
  <2>3. DOMAIN Accounts(list_account) = DOMAIN Accounts(file) /\ u \in DOMAIN Accounts(file)
    BY <1>1, <2>1, <2>2, AccountsDomain DEF Accounts
  <2>4. ASSUME NEW v \in DOMAIN Accounts(file)
        PROVE  Accounts(list_account)[v] = IF v = u THEN [Accounts(file)[u] EXCEPT !.is_active = FALSE]
                                                    ELSE Accounts(file)[v]
    <3>1. PICK j : j \in Search(file, v)
      BY <1>1, AccountsDomain
    <3>2. j \in 1..Len(file) /\ j \in Search(list_account, v)
      BY <2>2, <3>1 DEF Search
    <3>3. v = u => j = i
      BY <1>1, <2>1, <3>1, SearchUnique
    <3>4. v # u => j # i
      BY <2>1, <3>1 DEF Search
    <3>5. /\ Accounts(file)[v] = [password |-> file[j].password, is_active |-> file[j].is_active]
          /\ Accounts(list_account)[v] =
               [password |-> list_account[j].password, is_active |-> list_account[j].is_active]
      BY <1>1, <3>1, <3>2, AccountsAt
    <3>6. CASE v = u
      <4>1. Accounts(list_account)[v] = [password |-> file[j].password, is_active |-> FALSE]
        BY <2>2, <3>2, <3>3, <3>5, <3>6
      <4>2. [Accounts(file)[u] EXCEPT !.is_active = FALSE] =
              [password |-> file[j].password, is_active |-> FALSE]
        BY <3>5, <3>6, BlockRecord
      <4> QED
        BY <3>6, <4>1, <4>2
    <3>7. CASE v # u
      <4>1. list_account[j].password = file[j].password /\ list_account[j].is_active = file[j].is_active
        BY <2>2, <3>2, <3>4, <3>7
      <4> QED
        BY <3>5, <3>7, <4>1
    <3> QED
      BY <3>6, <3>7
  <2>5. /\ Accounts(list_account) = [v \in DOMAIN Accounts(list_account) |-> Accounts(list_account)[v]]
        /\ Accounts(file) = [v \in DOMAIN Accounts(file) |-> Accounts(file)[v]]
    BY DEF Accounts
  <2>6. Accounts(list_account) = [Accounts(file) EXCEPT ![u].is_active = FALSE]
    BY <2>3, <2>4, <2>5
  <2> QED
    BY <1>1, <1>2, <2>1, <2>3, <2>6 DEF Store!Block
<1>5. \/ \E u, p \in Word : Added(u, p)
      \/ \E u \in Word : \E i \in 1..Len(file) : Barred(u, i)
  BY DEF StoreInv, FileOneBehind, Truncate
<1> QED
  BY <1>3, <1>4, <1>5

\* Every step of the program is one of the store, or none.
LEMMA StepImplements ==
  ASSUME StoreInv, [Next]_vars
  PROVE  [Store!Next]_(Store!vars)
<1> USE DEF Store!vars
<1>1. CASE Start
  BY <1>1 DEF Start, Kept
<1>2. CASE End
  <2>1. Kept' = Kept \/ Kept' = <<>>
    BY <1>2 DEF End, Kept, StoreInv, FileOneBehind
  <2>2. Accounts(Kept)' = Accounts(Kept) \/ DOMAIN (Accounts(Kept)') = {}
    <3>1. DOMAIN Accounts(<<>>) = {}
      BY EmptySeq DEF Accounts
    <3> QED
      BY <2>1, <3>1
  <2>3. Store!End
    BY <1>2, <2>2 DEF End, Store!End, Store!NoneWrong, NoAttempts
  <2> QED
    BY <2>3 DEF Store!Next
<1>3. CASE Truncate
  BY <1>3, TruncateImplements DEF Store!Next
<1>4. CASE Write
  BY <1>4 DEF Write, Kept
<1>5. ASSUME NEW u \in Word, SignOut(u)
      PROVE  Store!SignOut
  BY <1>5, ManagerAssumption DEF SignOut, Kept, Store!SignOut
<1>6. ASSUME NEW u \in Word, NEW p \in Word, Register(u, p)
      PROVE  UNCHANGED <<Accounts(Kept), current_user, list_login_attempt>>
  BY <1>6 DEF Register, Kept
<1>7. ASSUME NEW u \in Word, NEW p \in Word, SignIn(u, p)
      PROVE  Store!SignIn(u)
  <2>1. PICK i \in 1..Len(list_account) : Tries(u, i)
    BY <1>7 DEF SignIn
  <2>2. Store!MayTry(u)
    BY <2>1, TriesImplements
  <2> QED
    BY <1>7, <2>2 DEF SignIn, reset_login_attempt, Kept, Store!SignIn
<1>8. ASSUME NEW u \in Word, NEW p \in Word, SignInFails(u, p)
      PROVE  Store!Wrong(u)
  <2>1. PICK i \in 1..Len(list_account) :
          /\ Tries(u, i)
          /\ increase_login_attempt(u)
          /\ pc' = "open" \/ UNCHANGED <<list_account, pc>>
          /\ UNCHANGED <<current_user, file>>
    BY <1>8 DEF SignInFails
  <2>2. Store!MayTry(u) /\ pc = "menu"
    BY <2>1, TriesImplements DEF Tries
  <2>3. Kept' = Kept
    BY <2>1, <2>2 DEF Kept
  <2> QED
    BY <2>1, <2>2, <2>3 DEF increase_login_attempt, Store!Wrong
<1>9. CASE UNCHANGED vars
  BY <1>9 DEF vars, Kept
<1> QED
  BY <1>1, <1>2, <1>3, <1>4, <1>5, <1>6, <1>7, <1>8, <1>9 DEF Next, Store!Next

\* The program implements the abstract store, across kills and restarts, for
\* every set of words and whatever file it starts from: what the comments of
\* lines 107, 108, 110, 202, 217 and 227 say, with the block at the count that
\* line 235 tests for.
THEOREM ManagerImplementsStore == Spec => ImplementsStore
<1>1. StoreInv /\ [Next]_vars => [Store!Next]_(Store!vars)
  BY StepImplements
<1> QED
  BY <1>1, InitImplements, StoreAlways, PTL DEF Spec, ImplementsStore, Store!Spec
=============================================================================
