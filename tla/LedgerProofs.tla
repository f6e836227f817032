---------------------------- MODULE LedgerProofs ----------------------------
(***************************************************************************)
(* The accounts of Accounts.tla implement Ledger.tla, proved for every set *)
(* of offices, requests and opening accounts, while account creations do   *)
(* not overlap.                                                            *)
(*                                                                         *)
(* The ledger's balance of an account is the account's own less what is in *)
(* flight to it: the credits of transfers whose debit is to come.  That is *)
(* a sum over offices, so the sums come first.                             *)
(***************************************************************************)
EXTENDS AccountsProofs

-----------------------------------------------------------------------------
(* Sums over sets of offices.                                              *)

\* The sum of the amounts that the offices of a set transfer, as LedgerAccount
\* computes it, and a set with that many members.
Sum(held, S) == MapThenSumSet(LAMBDA o : held[o].amount, S)
Units(held, S) == {m \in S \X Nat : m[2] \in 1 .. held[m[1]].amount}

\* One office more adds its amount.
LEMMA UnitsAdd ==
  ASSUME NEW held, NEW S, NEW x \in S, held[x].amount \in Nat,
         NEW R, R = S \ {x}, IsFiniteSet(Units(held, R))
  PROVE  /\ IsFiniteSet(Units(held, S))
         /\ Cardinality(Units(held, S)) = held[x].amount + Cardinality(Units(held, R))
<1> DEFINE n == held[x].amount
           mine == {x} \X (1 .. n)
<1>1. /\ Units(held, S) = Units(held, R) \cup mine
      /\ Units(held, R) \cap mine = {}
  BY DEF Units
<1>2. IsFiniteSet(mine) /\ Cardinality(mine) = n
  <2>0. n \in Nat
    OBVIOUS
  <2> HIDE DEF n
  <2>1. IsFiniteSet(1 .. n) /\ Cardinality(1 .. n) = n
    BY <2>0, FS_Interval
  <2>2. IsFiniteSet({x}) /\ Cardinality({x}) = 1
    BY FS_Singleton
  <2>3. IsFiniteSet(mine) /\ Cardinality(mine) = 1 * n
    BY <2>1, <2>2, FS_Product
  <2> QED BY <2>0, <2>3
<1> HIDE DEF mine
<1>3. Cardinality(Units(held, R)) \in Nat /\ Cardinality(Units(held, R) \cap mine) = 0
  BY <1>1, FS_CardinalityType, FS_EmptySet
<1>4. /\ IsFiniteSet(Units(held, R) \cup mine)
      /\ Cardinality(Units(held, R) \cup mine)
           = Cardinality(Units(held, R)) + Cardinality(mine) - Cardinality(Units(held, R) \cap mine)
  BY <1>2, FS_Union
<1> QED BY <1>1, <1>2, <1>3, <1>4

\* The fold has a value, whatever the order in which it takes the offices.
LEMMA SumIs ==
  ASSUME NEW held, NEW S, IsFiniteSet(S), \A o \in S : held[o].amount \in Nat
  PROVE  /\ IsFiniteSet(Units(held, S))
         /\ Sum(held, S) = Cardinality(Units(held, S))
         /\ Sum(held, S) \in Nat
<1> DEFINE Pick(s) == CHOOSE x \in s : TRUE
           Solves(f) == f = [s \in SUBSET S |->
                               IF s = {} THEN 0 ELSE held[Pick(s)].amount + f[s \ {Pick(s)}]]
           F == [s \in SUBSET S |-> Cardinality(Units(held, s))]
           Finite == {s \in SUBSET S : IsFiniteSet(Units(held, s))}
<1>1. Sum(held, S) = (CHOOSE f : Solves(f))[S]
  BY DEF Sum, MapThenSumSet, MapThenFoldSet
<1>2. Units(held, {}) = {}
  BY DEF Units
<1>3. \A s \in SUBSET S : IsFiniteSet(Units(held, s))
  <2>1. ASSUME NEW s \in SUBSET S, \A x \in s : s \ {x} \in Finite
        PROVE  s \in Finite
    <3>1. CASE s = {}
      BY <1>2, <3>1, FS_EmptySet
    <3>2. CASE s # {}
      <4>1. PICK x \in s, R \in SUBSET S : R = s \ {x}
        BY <3>2
      <4>2. IsFiniteSet(Units(held, R)) /\ held[x].amount \in Nat
        BY <2>1, <4>1
      <4> QED BY <4>1, <4>2, UnitsAdd
    <3> QED BY <3>1, <3>2
  <2> HIDE DEF Finite
  <2>2. \A s \in SUBSET S : s \in Finite
    BY <2>1, SubsetInduction
  <2> QED BY <2>2 DEF Finite
<1>4. \A s \in SUBSET S : s # {} => Pick(s) \in s /\ s \ {Pick(s)} \in SUBSET S
  OBVIOUS
<1>5. Solves(F)
  <2>1. ASSUME NEW s \in SUBSET S
        PROVE  F[s] = IF s = {} THEN 0 ELSE held[Pick(s)].amount + F[s \ {Pick(s)}]
    <3>1. CASE s = {}
      BY <1>2, <3>1, FS_EmptySet
    <3>2. CASE s # {}
      <4>1. /\ Pick(s) \in s /\ s \ {Pick(s)} \in SUBSET S
        BY <1>4, <3>2
      <4>2. \A x \in s : Cardinality(Units(held, s))
              = held[x].amount + Cardinality(Units(held, s \ {x}))
        BY <1>3, UnitsAdd
      <4> HIDE DEF Pick
      <4> QED BY <3>2, <4>1, <4>2
    <3> QED BY <3>1, <3>2
  <2> HIDE DEF Pick
  <2> QED BY <2>1
<1>6. ASSUME NEW f, Solves(f)
      PROVE  f[S] = F[S]
  <2> DEFINE Same == {s \in SUBSET S : f[s] = F[s]}
  <2>1. ASSUME NEW s \in SUBSET S, \A x \in s : s \ {x} \in Same
        PROVE  s \in Same
    <3>1. f[s] = IF s = {} THEN 0 ELSE held[Pick(s)].amount + f[s \ {Pick(s)}]
      <4> HIDE DEF Pick
      <4> QED BY <1>6
    <3>2. F[s] = IF s = {} THEN 0 ELSE held[Pick(s)].amount + F[s \ {Pick(s)}]
      <4> HIDE DEF Pick, F
      <4> QED BY <1>5
    <3>3. s # {} => f[s \ {Pick(s)}] = F[s \ {Pick(s)}]
      <4> HIDE DEF F
      <4> QED BY <1>4, <2>1
    <3> HIDE DEF F, Pick
    <3> QED BY <3>1, <3>2, <3>3
  <2> HIDE DEF Same
  <2>2. \A s \in SUBSET S : s \in Same
    BY <2>1, SubsetInduction
  <2> HIDE DEF F
  <2>3. S \in Same
    BY <2>2
  <2> QED BY <2>3 DEF Same
<1>7. (CHOOSE f : Solves(f))[S] = F[S]
  <2> HIDE DEF F, Solves
  <2>1. Solves(CHOOSE f : Solves(f))
    BY <1>5
  <2> QED BY <1>6, <2>1
<1>8. F[S] = Cardinality(Units(held, S))
  OBVIOUS
<1>9. IsFiniteSet(Units(held, S))
  BY <1>3
<1> HIDE DEF F, Solves
<1> QED BY <1>1, <1>7, <1>8, <1>9, FS_CardinalityType

-----------------------------------------------------------------------------
(* Words.                                                                  *)

\* A number is a multiple of the modulus and a remainder.
LEMMA Quotient ==
  ASSUME NEW x \in Int
  PROVE  \E q \in Int : x = Modulus * q + (x % Modulus)
<1>1. Modulus \in Nat \ {0}
  BY ArgumentsAssumption
<1>2. x \div Modulus \in Int /\ x = Modulus * (x \div Modulus) + (x % Modulus)
  BY <1>1
<1> QED BY <1>2

\* Numbers that differ by a multiple of the modulus have the same remainder.
LEMMA SameRemainder ==
  ASSUME NEW x \in Int, NEW y \in Int, NEW k \in Int, y = x + Modulus * k
  PROVE  y % Modulus = x % Modulus
<1> DEFINE a == x % Modulus
           b == y % Modulus
<1>1. Modulus \in Nat \ {0}
  BY ArgumentsAssumption
<1>2. PICK p \in Int : x = Modulus * p + a
  BY <1>1, Quotient
<1>3. PICK q \in Int : y = Modulus * q + b
  BY <1>1, Quotient
<1>4. a \in 0 .. Modulus - 1 /\ b \in 0 .. Modulus - 1
  BY <1>1
<1> HIDE DEF a, b
<1> DEFINE d == p + k - q
<1>5. d \in Int /\ b - a = Modulus * d
  <2>1. Modulus * d = Modulus * p + Modulus * k - Modulus * q
    BY <1>1
  <2> QED BY <1>1, <1>2, <1>3, <1>4, <2>1
<1> HIDE DEF d
<1>6. CASE d = 0
  BY <1>1, <1>4, <1>5, <1>6 DEF a, b
<1>7. CASE d >= 1
  <2>1. Modulus * d >= Modulus
    BY <1>1, <1>5, <1>7
  <2> QED BY <1>1, <1>4, <1>5, <2>1
<1>8. CASE d <= -1
  <2>1. Modulus * d <= -Modulus
    BY <1>1, <1>5, <1>8
  <2> QED BY <1>1, <1>4, <1>5, <2>1
<1> QED BY <1>5, <1>6, <1>7, <1>8

\* What is added to a word or taken from it may as well be before it is one.
LEMMA WordOf ==
  ASSUME NEW x \in Int, NEW y \in Int
  PROVE  /\ ((x % Modulus) + y) % Modulus = (x + y) % Modulus
         /\ ((x % Modulus) - y) % Modulus = (x - y) % Modulus
         /\ x % Modulus \in Word
<1>1. Modulus \in Nat \ {0} /\ x % Modulus \in Word /\ Word \subseteq Int
  BY ArgumentsAssumption, WordType DEF Word
<1>2. PICK k \in Int : x % Modulus = x + Modulus * k
  <2>1. PICK p \in Int : x = Modulus * p + (x % Modulus)
    BY <1>1, Quotient
  <2>2. Modulus * (-p) = -(Modulus * p) /\ -p \in Int
    BY <1>1
  <2>3. x % Modulus = x + Modulus * (-p)
    BY <1>1, <2>1, <2>2
  <2> QED BY <2>2, <2>3
<1> DEFINE w == x % Modulus
<1>3. w \in Int /\ w = x + Modulus * k /\ Modulus * k \in Int
  BY <1>1, <1>2
<1> HIDE DEF w
<1>4. w + y \in Int /\ w - y \in Int /\ x + y \in Int /\ x - y \in Int
      /\ w + y = (x + y) + Modulus * k /\ w - y = (x - y) + Modulus * k
  BY <1>3
<1>5. (w + y) % Modulus = (x + y) % Modulus /\ (w - y) % Modulus = (x - y) % Modulus
  BY <1>4, SameRemainder
<1> QED BY <1>1, <1>5 DEF w

-----------------------------------------------------------------------------
(* What offices act on, while creations do not overlap.                    *)

\* A creation is the administrator's; a transfer is from the account of the user
\* who asked for it, whose password it has, to another, which it names.
ActsFor(o) ==
  LET r == tlv[o] IN
  /\ pc[o] \in CreatingPlaces => r.account_id = ADMIN_ACCOUNT_ID /\ LoginMatches(r) # {}
  /\ pc[o] \in PayPlaces \cup ReadPlaces => index[o] \in LoginMatches(r)
  /\ pc[o] \in PayPlaces => r.target # r.account_id
  /\ pc[o] \in DestPlaces => bankAccounts[dest[o]].account_id = r.target

LedgerInv == \A o \in Offices : ActsFor(o)

\* Who could log in still can.
LEMMA LoginStays ==
  ASSUME SerialInv, NEW o \in Offices, OfficeStep(o), NEW r \in Requests, NEW i \in LoginMatches(r)
  PROVE  i \in LoginMatches(r)'
<1>1. i \in Used /\ bankAccounts[i].account_id = r.account_id /\ bankAccounts[i].password = r.password
  BY LoginIsUsed
<1> QED BY <1>1, UsedStay DEF LoginMatches, WithID, Used

\* The codes that are right for the request of office o.
Right(o, code) ==
  LET r == tlv[o] IN
  /\ r \in Creations => (code = "RC_OK" <=> pc[o] = "unlockNew")
  /\ r \in Transfers => (code = "RC_OK" <=> pc[o] = "read" /\ ret_code[o] = "RC_OK")
  /\ r.type = "OP_BALANCE" /\ code = "RC_OK" => LoginMatches(r) # {}

\* An office answers only the request it works on, says what became of it, and is
\* then done with it.
LEMMA Answers ==
  ASSUME SerialInv, LedgerInv, NEW o \in Offices, OfficeStep(o)
  PROVE  \/ UNCHANGED replies /\ ~UnlockNew(o) /\ ~ReadBalance(o)
         \/ /\ pc[o] \notin {"idle", "lockRead"} /\ pc'[o] = "idle"
            /\ UNCHANGED <<queueVars, bankAccounts, accountsIndex>>
            /\ \E code \in RetCodes : \E balance : Right(o, code) /\ Reply(o, code, balance)
<1> USE DEF SerialInv, BasicInv
<1>1. CASE UnlockNew(o)
  <2>1. pc[o] = "unlockNew" /\ tlv[o] \in Creations
    BY <1>1 DEF UnlockNew, TakenInv, CreatingPlaces
  <2>2. Right(o, "RC_OK")
    BY <2>1 DEF Right, Creations, Transfers
  <2> QED BY <1>1, <2>1, <2>2 DEF UnlockNew, Reply, Goto, TypeOK, RetCodes
<1>2. CASE ReadBalance(o)
  <2>1. pc[o] = "read" /\ tlv[o].type \in {"OP_BALANCE", "OP_TRANSFER"} /\ LoginMatches(tlv[o]) # {}
    BY <1>2 DEF ReadBalance, TakenInv, ReadPlaces, LedgerInv, ActsFor
  <2>2. Right(o, ret_code[o])
    BY <2>1 DEF Right, Creations, Transfers
  <2> QED BY <1>2, <2>1, <2>2 DEF ReadBalance, Reply, Goto, TypeOK
<1>3. CASE Login(o)
  <2>1. CASE UNCHANGED replies
    BY <1>3, <2>1 DEF Login, UnlockNew, ReadBalance
  <2>2. CASE ~UNCHANGED replies
    <3>1. PICK code \in {"RC_LOGIN_FAIL", "RC_OP_NALLOW", "RC_OK", "RC_OTHER"} :
            /\ Reply(o, code, NoBalance)
            /\ code = "RC_OK" => tlv[o].type \in {"OP_SHUTDOWN", "__OP_MAX_NUMBER"}
      BY <1>3, <2>2 DEF Login
    <3>2. Right(o, code)
      BY <1>3, <3>1 DEF Login, Right, Creations, Transfers
    <3>3. pc[o] = "login" /\ UNCHANGED <<queueVars, bankAccounts, accountsIndex>>
      BY <1>3 DEF Login, tableVars
    <3>4. pc'[o] = "idle" /\ code \in RetCodes
      BY <3>1 DEF Reply, Goto, TypeOK, RetCodes
    <3> QED BY <3>1, <3>2, <3>3, <3>4
  <2> QED BY <2>1, <2>2
<1>4. CASE SearchID(o)
  <2>1. pc[o] = "search" /\ Right(o, "RC_ID_IN_USE")
    BY <1>4 DEF SearchID, Right
  <2> QED BY <1>4, <2>1 DEF SearchID, UnlockNew, ReadBalance, Reply, Goto, TypeOK, RetCodes, tableVars
<1>5. CASE CheckFunds(o)
  <2>1. pc[o] = "funds" /\ Right(o, "RC_NO_FUNDS")
    BY <1>5 DEF CheckFunds, Right
  <2> QED BY <1>5, <2>1 DEF CheckFunds, UnlockNew, ReadBalance, Reply, Goto, TypeOK, RetCodes
<1>6. CASE ~UnlockNew(o) /\ ~ReadBalance(o) /\ ~Login(o) /\ ~SearchID(o) /\ ~CheckFunds(o)
  BY <1>6 DEF OfficeStep, TakeRequest, Lock, LoadIndex, StoreIndex, InitLock,
     PickLock, WriteAccount, Resolve, FindDest, CheckRoom, Credit, Debit
<1> QED BY <1>1, <1>2, <1>3, <1>4, <1>5, <1>6

\* Every step leaves offices acting for the user who asked.
LEMMA ActsKept ==
  ASSUME SerialInv, LedgerInv, NEW o \in Offices, OfficeStep(o), NEW p \in Offices
  PROVE  ActsFor(p)'
<1> USE DEF SerialInv, BasicInv, CreatingPlaces, PayPlaces, ReadPlaces, DestPlaces
<1>1. ActsFor(p) /\ tlv[p] \in Requests
  BY DEF LedgerInv, TypeOK
<1>2. ASSUME NEW r \in Requests, r = tlv[p], tlv'[p] = tlv[p]
      PROVE  LoginMatches(r) \subseteq LoginMatches(tlv[p])'
  <2>1. LoginMatches(tlv[p])' = LoginMatches(r)'
    BY <1>2 DEF LoginMatches, WithID
  <2> QED BY <2>1, LoginStays
<1>3. tlv'[p] = tlv[p] => LoginMatches(tlv[p]) \subseteq LoginMatches(tlv[p])'
  BY <1>1, <1>2
<1>4. pc[p] \in DestPlaces => dest[p] \in Used
  BY DEF WorkInv
<1>5. \A i \in Used : bankAccounts'[i].account_id = bankAccounts[i].account_id
  BY UsedStay
<1>6. CASE p # o
  <2>1. /\ pc'[p] = pc[p] /\ tlv'[p] = tlv[p]
        /\ index'[p] = index[p] /\ dest'[p] = dest[p]
    BY <1>6, OthersKept
  <2> QED BY <1>1, <1>3, <1>4, <1>5, <2>1 DEF ActsFor, ADMIN_ACCOUNT_ID
<1>7. CASE p = o
  <2>1. CASE Login(o)
    <3>1. pc'[o] \in {"idle", "search", "resolve"} /\ tlv' = tlv
      BY <2>1 DEF Login, Reply, Goto, TypeOK, queueVars
    <3>2. pc'[o] = "search" => LoginMatches(tlv[o]) # {} /\ tlv[o].account_id = ADMIN_ACCOUNT_ID
      BY <2>1 DEF Login, Reply, Goto, TypeOK, Allowed
    <3> QED BY <1>3, <1>7, <3>1, <3>2 DEF ActsFor, ADMIN_ACCOUNT_ID
  <2>2. CASE Resolve(o)
    <3>1. LoginMatches(tlv[o]) # {} /\ tlv' = tlv
      BY <2>2 DEF Resolve, WorkInv, queueVars
    <3>2. First(LoginMatches(tlv[o])) \in LoginMatches(tlv[o])
      BY <3>1, FoundInUse, FirstIsLeast DEF Slots
    <3>3. /\ pc'[o] \in {"lockRead", "lockFunds"} /\ index'[o] = First(LoginMatches(tlv[o]))
          /\ pc'[o] = "lockFunds" => tlv[o].target # tlv[o].account_id
      BY <2>2, <3>1 DEF Resolve, Goto, TypeOK
    <3> QED BY <1>3, <1>7, <3>1, <3>2, <3>3 DEF ActsFor
  <2>3. CASE FindDest(o)
    <3>1. /\ pc'[o] \in {"lockRead", "lockRoom"} /\ index' = index /\ pc[o] = "find" /\ tlv' = tlv
          /\ bankAccounts' = bankAccounts
          /\ pc'[o] = "lockRoom" =>
               WithID(tlv[o].target) # {} /\ dest'[o] = First(WithID(tlv[o].target))
      BY <2>3 DEF FindDest, Goto, TypeOK, queueVars, tableVars
    <3>2. pc'[o] = "lockRoom" => bankAccounts[dest'[o]].account_id = tlv[o].target
      BY <3>1, DestIsUsed
    <3> QED BY <1>1, <1>3, <1>7, <3>1, <3>2 DEF ActsFor
  <2>4. CASE Lock(o)
    <3>1. /\ pc[o] \in LockPlaces /\ pc'[o] = Section[pc[o]] /\ index' = index /\ dest' = dest
          /\ tlv' = tlv
      BY <2>4 DEF Lock, Goto, TypeOK, localVars, queueVars
    <3>2. /\ pc'[o] \in CreatingPlaces => pc[o] \in CreatingPlaces
          /\ pc'[o] \in PayPlaces => pc[o] \in PayPlaces
          /\ pc'[o] \in DestPlaces => pc[o] \in DestPlaces
          /\ pc'[o] \in ReadPlaces => pc[o] \in ReadPlaces
      BY <3>1 DEF LockPlaces, Section
    <3> QED BY <1>1, <1>3, <1>4, <1>5, <1>7, <3>1, <3>2 DEF ActsFor, ADMIN_ACCOUNT_ID
  <2>5. CASE CheckFunds(o) \/ CheckRoom(o) \/ Credit(o) \/ Debit(o) \/ ReadBalance(o)
    <3>1. index' = index /\ dest' = dest /\ tlv' = tlv
      BY <2>5 DEF CheckFunds, CheckRoom, Credit, Debit, ReadBalance, localVars, queueVars
    <3>2. /\ pc'[o] \in {"idle", "find", "lockRead", "lockCredit", "lockDebit"}
          /\ pc'[o] \in {"lockCredit", "lockDebit"} => pc[o] \in DestPlaces
          /\ pc'[o] # "idle" => pc[o] \in PayPlaces
      BY <2>5 DEF CheckFunds, CheckRoom, Credit, Debit, ReadBalance, Reply, Goto, TypeOK
    <3> QED BY <1>1, <1>3, <1>4, <1>5, <1>7, <3>1, <3>2 DEF ActsFor
  <2>6. CASE SearchID(o) \/ LoadIndex(o) \/ StoreIndex(o) \/ InitLock(o)
               \/ PickLock(o) \/ WriteAccount(o) \/ UnlockNew(o)
    <3>1. /\ pc'[o] \in {"idle", "load", "store", "init", "pick", "lockNew", "unlockNew"}
          /\ tlv' = tlv /\ pc[o] \in CreatingPlaces
      BY <2>6 DEF SearchID, LoadIndex, StoreIndex, InitLock, PickLock, WriteAccount,
         UnlockNew, Reply, Goto, TypeOK, queueVars
    <3> QED BY <1>1, <1>3, <1>7, <3>1 DEF ActsFor, ADMIN_ACCOUNT_ID
  <2>7. CASE TakeRequest(o)
    <3>1. pc'[o] = "login"
      BY <2>7 DEF TakeRequest, Goto, TypeOK
    <3> QED BY <1>7, <3>1 DEF ActsFor
  <2> QED BY <2>1, <2>2, <2>3, <2>4, <2>5, <2>6, <2>7 DEF OfficeStep
<1> QED BY <1>6, <1>7

\* LedgerInv holds at the start, and every step keeps it.
LEMMA LedgerInvHolds == Spec /\ []OneCreation => [](SerialInv /\ LedgerInv)
<1>1. Init => LedgerInv
  BY DEF Init, LedgerInv, ActsFor, CreatingPlaces, PayPlaces, ReadPlaces, DestPlaces
<1>2. SerialInv /\ LedgerInv /\ [Next]_vars => LedgerInv'
  <2>1. ASSUME SerialInv, LedgerInv, NEW o \in Offices, OfficeStep(o)
        PROVE  LedgerInv'
    BY <2>1, ActsKept DEF LedgerInv
  <2>2. ASSUME LedgerInv, UNCHANGED vars
        PROVE  LedgerInv'
    <3>1. UNCHANGED <<bankAccounts, accountsIndex, todo, tlv, pc, index, dest, replies>>
      BY <2>2 DEF vars, tableVars, localVars, queueVars
    <3>2. \A p \in Offices : LoginMatches(tlv[p])' = LoginMatches(tlv[p])
      BY <3>1 DEF LoginMatches, WithID, InUse
    <3> QED BY <2>2, <3>1, <3>2 DEF LedgerInv, ActsFor, ADMIN_ACCOUNT_ID, NoReply, NoBalance
  <2> QED BY <2>1, <2>2 DEF Next
<1> QED BY <1>1, <1>2, SerialAtStart, SerialKept, PTL DEF Spec

-----------------------------------------------------------------------------
(* The ledger.                                                             *)

IDsInUse == {bankAccounts[i].account_id : i \in Used}
Book == [id \in IDsInUse |-> LedgerAccount(id)]
Incoming(i) == Sum(tlv, InFlight(i))

\* Offices with money in flight are as many as their transfers, and what they
\* transfer can be added up.
LEMMA InFlightAddsUp ==
  ASSUME TypeOK, TakenInv, NEW i
  PROVE  /\ IsFiniteSet(InFlight(i)) /\ \A o \in InFlight(i) : tlv[o].amount \in Nat
         /\ Incoming(i) = Cardinality(Units(tlv, InFlight(i))) /\ Incoming(i) \in Nat
<1>1. \A o \in InFlight(i) : tlv[o] \in Transfers /\ pc[o] # "idle" /\ o \in Offices
  BY DEF InFlight, TakenInv, PayPlaces
<1>2. \A o \in InFlight(i) : tlv[o].amount \in Nat
  BY <1>1, RequestsAssumption, ArgumentsAssumption
<1>3. IsFiniteSet(InFlight(i))
  <2> DEFINE f == [o \in InFlight(i) |-> tlv[o]]
  <2>1. f \in Injection(InFlight(i), Requests)
    <3>1. \A o, p \in InFlight(i) : tlv[o] = tlv[p] => o = p
      BY <1>1 DEF TakenInv
    <3>2. f \in [InFlight(i) -> Requests]
      BY <1>1 DEF TypeOK
    <3> QED BY <3>1, <3>2 DEF Injection, IsInjective
  <2> QED BY <2>1, RequestsAssumption, FS_Injection
<1> QED BY <1>2, <1>3, SumIs DEF Incoming

\* The first account with the identifier of an account in use is that one.
LEMMA FirstIsIt ==
  ASSUME SerialInv, NEW i \in Used
  PROVE  First(WithID(bankAccounts[i].account_id)) = i
<1> DEFINE id == bankAccounts[i].account_id
<1>1. WithID(id) # {}
  BY DEF Used, WithID
<1>2. First(WithID(id)) \in Used /\ bankAccounts[First(WithID(id))].account_id = id
  BY <1>1, DestIsUsed
<1> QED BY <1>2 DEF SerialInv, TableInv

\* What the ledger has of an account.
LEMMA BookIs ==
  ASSUME SerialInv, NEW i \in Used
  PROVE  /\ bankAccounts[i].account_id \in IDsInUse
         /\ Book[bankAccounts[i].account_id]
              = [password |-> bankAccounts[i].password,
                 balance  |-> (bankAccounts[i].balance - Incoming(i)) % Modulus]
<1>1. bankAccounts[i].account_id \in IDsInUse
  BY DEF IDsInUse
<1>2. LedgerAccount(bankAccounts[i].account_id)
        = [password |-> bankAccounts[i].password,
           balance  |-> (bankAccounts[i].balance - Incoming(i)) % Modulus]
  BY FirstIsIt DEF LedgerAccount, Incoming, Sum
<1> QED BY <1>1, <1>2 DEF Book

\* Who can log in is who the ledger has an account and a password of.
LEMMA LoginIsAuthorised ==
  ASSUME SerialInv, NEW r \in Requests, LoginMatches(r) # {}
  PROVE  r.account_id \in IDsInUse /\ Book[r.account_id].password = r.password
<1>1. PICK i \in Used : bankAccounts[i].account_id = r.account_id
                        /\ bankAccounts[i].password = r.password
  BY LoginIsUsed
<1>2. PICK b : b = (bankAccounts[i].balance - Incoming(i)) % Modulus
  OBVIOUS
<1>3. /\ bankAccounts[i].account_id \in IDsInUse
      /\ Book[bankAccounts[i].account_id] = [password |-> bankAccounts[i].password, balance |-> b]
  BY <1>2, BookIs
<1> QED BY <1>1, <1>3

\* Both, for all accounts, so that they can be said of the state after a step.
BookMatches ==
  /\ Book = [id \in IDsInUse |-> Book[id]]
  /\ \A i \in Used :
       Book[bankAccounts[i].account_id]
         = [password |-> bankAccounts[i].password,
            balance  |-> (bankAccounts[i].balance - Incoming(i)) % Modulus]
FlightsAddUp ==
  \A i \in Slots : /\ IsFiniteSet(InFlight(i)) /\ \A o \in InFlight(i) : tlv[o].amount \in Nat
                   /\ Incoming(i) = Cardinality(Units(tlv, InFlight(i))) /\ Incoming(i) \in Nat

\* They hold of every state,
LEMMA Matches == SerialInv => BookMatches /\ FlightsAddUp
<1> SUFFICES ASSUME SerialInv
             PROVE  BookMatches /\ FlightsAddUp
  OBVIOUS
<1>1. FlightsAddUp
  BY InFlightAddsUp DEF FlightsAddUp, SerialInv, BasicInv
<1>2. Book = [id \in IDsInUse |-> Book[id]]
  BY DEF Book
<1> QED BY <1>1, <1>2, BookIs DEF BookMatches

\* and so of the state after a step.
LEMMA MatchesNext == SerialInv' => BookMatches' /\ FlightsAddUp'
BY Matches, PTL

\* The ledger stays as it is when accounts and what is in flight to them
\* make up the same balances.
LEMMA BookStays ==
  ASSUME SerialInv, SerialInv', Used' = Used,
         \A i \in Used :
           /\ bankAccounts'[i].account_id = bankAccounts[i].account_id
           /\ bankAccounts'[i].password = bankAccounts[i].password
           /\ (bankAccounts'[i].balance - Incoming(i)') % Modulus
                = (bankAccounts[i].balance - Incoming(i)) % Modulus
  PROVE  Book' = Book /\ IDsInUse' = IDsInUse
<1>1. BookMatches /\ BookMatches'
  BY Matches, MatchesNext
<1>2. IDsInUse' = IDsInUse
  BY DEF IDsInUse
<1>3. ASSUME NEW i \in Used
      PROVE  Book'[bankAccounts[i].account_id] = Book[bankAccounts[i].account_id]
  <2>1. Book[bankAccounts[i].account_id]
          = [password |-> bankAccounts[i].password,
             balance  |-> (bankAccounts[i].balance - Incoming(i)) % Modulus]
    BY <1>1 DEF BookMatches
  <2>2. Book'[bankAccounts'[i].account_id]
          = [password |-> bankAccounts'[i].password,
             balance  |-> (bankAccounts'[i].balance - Incoming(i)') % Modulus]
    BY <1>1 DEF BookMatches
  <2> QED BY <2>1, <2>2
<1>4. \A id \in IDsInUse : Book'[id] = Book[id]
  BY <1>3 DEF IDsInUse
<1>5. Book = [id \in IDsInUse |-> Book[id]] /\ Book' = [id \in IDsInUse |-> Book'[id]]
  BY <1>1, <1>2 DEF BookMatches
<1> QED BY <1>2, <1>4, <1>5

\* What is in flight to an account is the same if the same offices have it.
LEMMA IncomingStays ==
  ASSUME SerialInv, SerialInv', NEW i \in Slots, InFlight(i)' = InFlight(i),
         \A p \in InFlight(i) : tlv'[p] = tlv[p]
  PROVE  Incoming(i)' = Incoming(i)
<1>1. /\ Incoming(i) = Cardinality(Units(tlv, InFlight(i)))
      /\ Incoming(i)' = Cardinality(Units(tlv, InFlight(i)))'
  BY Matches, MatchesNext DEF FlightsAddUp, Slots
<1>2. Units(tlv, InFlight(i))' = Units(tlv, InFlight(i))
  BY DEF Units
<1> QED BY <1>1, <1>2

\* Only a credit sends money on its way to an account, and a debit completes it.
LEMMA FlightsStay ==
  ASSUME SerialInv, SerialInv', NEW o \in Offices, OfficeStep(o), ~Credit(o), ~Debit(o),
         NEW i \in Slots
  PROVE  Incoming(i)' = Incoming(i)
<1> USE DEF SerialInv, BasicInv
<1> DEFINE Flying(p) == pc[p] \in {"lockDebit", "debit"} /\ dest[p] = i
<1>1. ASSUME NEW p \in Offices
      PROVE  /\ Flying(p)' <=> Flying(p)
             /\ Flying(p) => tlv'[p] = tlv[p]
  <2>1. CASE p # o
    BY <2>1, OthersKept
  <2>2. CASE p = o /\ Lock(o)
    <3>1. /\ pc[o] \in LockPlaces /\ pc'[o] = Section[pc[o]] /\ dest' = dest /\ tlv' = tlv
      BY <2>2 DEF Lock, Goto, TypeOK, localVars, queueVars
    <3> QED BY <2>2, <3>1 DEF LockPlaces, Section
  <2>3. CASE p = o /\ ~Lock(o)
    <3>1. pc[o] \notin {"lockDebit", "debit"} /\ pc'[o] \notin {"lockDebit", "debit"}
      <4>1. CASE TakeRequest(o) \/ Login(o) \/ SearchID(o) \/ LoadIndex(o) \/ StoreIndex(o)
                   \/ InitLock(o) \/ PickLock(o) \/ WriteAccount(o) \/ UnlockNew(o)
        BY <4>1 DEF TakeRequest, Login, SearchID, LoadIndex, StoreIndex, InitLock, PickLock,
           WriteAccount, UnlockNew, Reply, Goto, TypeOK
      <4>2. CASE Resolve(o) \/ CheckFunds(o) \/ FindDest(o) \/ CheckRoom(o) \/ ReadBalance(o)
        BY <4>2 DEF Resolve, CheckFunds, FindDest, CheckRoom, ReadBalance, Reply, Goto, TypeOK
      <4> QED BY <2>3, <4>1, <4>2 DEF OfficeStep
    <3> QED BY <2>3, <3>1
  <2> QED BY <2>1, <2>2, <2>3
<1>2. InFlight(i)' = InFlight(i)
  BY <1>1 DEF InFlight
<1>3. \A p \in InFlight(i) : tlv'[p] = tlv[p]
  BY <1>1 DEF InFlight
<1> QED BY <1>2, <1>3, IncomingStays

\* Steps that move no money and open no account leave the ledger alone.
LEMMA QuietBook ==
  ASSUME SerialInv, SerialInv', OneCreation, NEW o \in Offices, OfficeStep(o),
         ~Credit(o), ~Debit(o), ~WriteAccount(o)
  PROVE  Book' = Book
<1>1. Used' = Used
  BY IndexMoves, TableStays DEF SerialInv, BasicInv
<1>2. bankAccounts' = bankAccounts
  BY DEF OfficeStep, TakeRequest, Login, Lock, SearchID, LoadIndex, StoreIndex, InitLock,
     PickLock, UnlockNew, Resolve, CheckFunds, FindDest, CheckRoom, ReadBalance, tableVars
<1>3. Used \subseteq Slots
  BY Room DEF Used, InUse, Slots, TypeOK, SerialInv, BasicInv
<1>4. \A i \in Used : Incoming(i)' = Incoming(i)
  BY <1>3, FlightsStay
<1> QED BY <1>1, <1>2, <1>4, BookStays

\* What a credit to an account, or the end of one, does to what is in flight.
LEMMA OneMoreInFlight ==
  ASSUME NEW held, NEW S, IsFiniteSet(S), \A p \in S : held[p].amount \in Nat,
         NEW o, o \notin S, held[o].amount \in Nat
  PROVE  Sum(held, S \cup {o}) = Sum(held, S) + held[o].amount
<1> DEFINE T == S \cup {o}
<1>1. IsFiniteSet(T) /\ T \ {o} = S /\ o \in T /\ \A p \in T : held[p].amount \in Nat
  BY FS_AddElement
<1> HIDE DEF T
<1>2. /\ Sum(held, T) = Cardinality(Units(held, T))
      /\ Sum(held, S) = Cardinality(Units(held, S)) /\ Sum(held, S) \in Nat
      /\ IsFiniteSet(Units(held, S))
  BY <1>1, SumIs
<1>3. Cardinality(Units(held, T)) = held[o].amount + Cardinality(Units(held, S))
  BY <1>1, <1>2, UnitsAdd
<1>4. Sum(held, T) = Sum(held, S) + held[o].amount
  BY <1>1, <1>2, <1>3
<1> QED BY <1>4 DEF T

\* A credit is in flight.
LEMMA CreditedBook ==
  ASSUME SerialInv, SerialInv', NEW o \in Offices, Credit(o)
  PROVE  Book' = Book
<1> USE DEF SerialInv, BasicInv
<1>0. OfficeStep(o) /\ ~StoreIndex(o) /\ ~WriteAccount(o)
  BY DEF OfficeStep, Credit, StoreIndex, WriteAccount
<1>1. PICK d \in Slots, amount \in Nat :
        /\ d = dest[o] /\ amount = tlv[o].amount /\ d \in Used
        /\ pc[o] = "credit" /\ pc'[o] = "lockDebit" /\ tlv' = tlv /\ dest' = dest
  <2>1. /\ pc[o] = "credit" /\ pc'[o] = "lockDebit" /\ tlv' = tlv /\ dest' = dest
        /\ dest[o] \in Slots /\ dest[o] \in Used
    BY DEF Credit, Goto, TypeOK, queueVars, localVars, WorkInv, DestPlaces
  <2>2. tlv[o].amount \in Nat
    BY <2>1, RequestsAssumption, ArgumentsAssumption DEF TakenInv, PayPlaces
  <2> QED BY <2>1, <2>2
<1>2. Used' = Used /\ Used \subseteq Slots
  BY <1>0, TableStays, Room DEF Used, InUse, Slots, TypeOK
<1>3. \A i \in Slots : bankAccounts[i].balance \in Int
  BY ArgumentsAssumption DEF TypeOK, Account, Word
<1>4. /\ bankAccounts'[d].balance = (bankAccounts[d].balance + amount) % Modulus
      /\ \A j \in Slots : /\ bankAccounts'[j].account_id = bankAccounts[j].account_id
                          /\ bankAccounts'[j].password = bankAccounts[j].password
                          /\ j # d => bankAccounts'[j] = bankAccounts[j]
  <2>1. SetBalance(d, bankAccounts[d].balance + amount)
        /\ bankAccounts[d].balance + amount \in Int
    BY <1>1, <1>3 DEF Credit
  <2> QED BY <2>1, BalanceStored
<1>5. ASSUME NEW i \in Used, i # d
      PROVE  Incoming(i)' = Incoming(i)
  <2>1. InFlight(i)' = InFlight(i)
    BY <1>0, <1>1, <1>5, OthersKept DEF InFlight
  <2> QED BY <1>1, <1>2, <2>1, IncomingStays
<1>6. Incoming(d)' = Incoming(d) + amount /\ Incoming(d) \in Nat
  <2>1. InFlight(d)' = InFlight(d) \cup {o} /\ o \notin InFlight(d)
    BY <1>0, <1>1, OthersKept DEF InFlight
  <2>2. /\ IsFiniteSet(InFlight(d)) /\ \A p \in InFlight(d) : tlv[p].amount \in Nat
        /\ Incoming(d) \in Nat
    BY Matches DEF FlightsAddUp
  <2>3. Incoming(d)' = Sum(tlv, InFlight(d) \cup {o})
    BY <1>1, <2>1 DEF Incoming
  <2>4. Sum(tlv, InFlight(d) \cup {o}) = Sum(tlv, InFlight(d)) + amount
    BY <1>1, <2>1, <2>2, OneMoreInFlight
  <2> QED BY <2>2, <2>3, <2>4 DEF Incoming
<1>7. (bankAccounts'[d].balance - Incoming(d)') % Modulus
        = (bankAccounts[d].balance - Incoming(d)) % Modulus
  <2>1. \A x, y \in Int : ((x % Modulus) - y) % Modulus = (x - y) % Modulus
    BY WordOf
  <2>2. bankAccounts[d].balance + amount \in Int /\ Incoming(d) + amount \in Int
    BY <1>3, <1>6
  <2>3. (bankAccounts'[d].balance - Incoming(d)') % Modulus
          = ((bankAccounts[d].balance + amount) - (Incoming(d) + amount)) % Modulus
    BY <1>4, <1>6, <2>1, <2>2, Zenon
  <2>4. (bankAccounts[d].balance + amount) - (Incoming(d) + amount) = bankAccounts[d].balance - Incoming(d)
    BY <1>3, <1>6
  <2> QED BY <2>3, <2>4
<1> QED BY <1>2, <1>4, <1>5, <1>7, BookStays

\* A debit moves the money, as a whole.
LEMMA DebitedBook ==
  ASSUME SerialInv, SerialInv', LedgerInv, NEW o \in Offices, Debit(o), NEW r, r = tlv[o]
  PROVE  /\ r.account_id \in IDsInUse /\ Book[r.account_id].password = r.password
         /\ r.target \in IDsInUse \ {r.account_id}
         /\ Book' = [Book EXCEPT
              ![r.account_id].balance = (@ - r.amount) % Modulus,
              ![r.target].balance     = (@ + r.amount) % Modulus]
<1>a. TypeOK /\ TakenInv /\ TableInv /\ WorkInv
  BY DEF SerialInv, BasicInv
<1>0. OfficeStep(o) /\ ~StoreIndex(o) /\ ~WriteAccount(o)
  BY DEF OfficeStep, Debit, StoreIndex, WriteAccount
<1>1. PICK src \in Slots, d \in Slots, amount \in Nat :
        /\ src = index[o] /\ d = dest[o] /\ amount = r.amount /\ src \in Used /\ d \in Used
        /\ pc[o] = "debit" /\ pc'[o] = "lockRead" /\ tlv' = tlv /\ dest' = dest
        /\ bankAccounts[src].account_id = r.account_id /\ bankAccounts[src].password = r.password
        /\ bankAccounts[d].account_id = r.target /\ r.target # r.account_id
  <2>1. /\ pc[o] = "debit" /\ pc'[o] = "lockRead" /\ tlv' = tlv /\ dest' = dest
        /\ dest[o] \in Slots /\ dest[o] \in Used /\ index[o] \in Slots /\ index[o] \in Used
    BY <1>a DEF Debit, Goto, TypeOK, queueVars, WorkInv, DestPlaces, PayPlaces
  <2>2. tlv[o].amount \in Nat
    BY <1>a, <2>1, RequestsAssumption, ArgumentsAssumption DEF TakenInv, PayPlaces
  <2>3. /\ index[o] \in LoginMatches(r) /\ r.target # r.account_id
        /\ bankAccounts[dest[o]].account_id = r.target
    BY <2>1 DEF LedgerInv, ActsFor, PayPlaces, DestPlaces
  <2> QED BY <2>1, <2>2, <2>3 DEF LoginMatches, WithID
<1>2. Used' = Used /\ Used \subseteq Slots /\ src # d
  <2>1. Used' = Used
    BY <1>0, TableStays
  <2>2. Used \subseteq Slots
    BY <1>a, Room DEF Used, InUse, Slots, TypeOK
  <2> QED BY <1>1, <2>1, <2>2
<1>3. PICK b \in Int, c \in Int : b = bankAccounts[src].balance /\ c = bankAccounts[d].balance
  BY <1>a, ArgumentsAssumption DEF TypeOK, Account, Word
<1>4. /\ bankAccounts'[src].balance = (b - amount) % Modulus
      /\ \A j \in Slots : /\ bankAccounts'[j].account_id = bankAccounts[j].account_id
                          /\ bankAccounts'[j].password = bankAccounts[j].password
                          /\ j # src => bankAccounts'[j] = bankAccounts[j]
  <2>1. SetBalance(src, b - amount) /\ b - amount \in Int
    BY <1>1, <1>3 DEF Debit, Source
  <2> QED BY <1>a, <2>1, BalanceStored
<1>5. ASSUME NEW i \in Used, i # d
      PROVE  Incoming(i)' = Incoming(i)
  <2>1. InFlight(i)' = InFlight(i)
    BY <1>a, <1>0, <1>1, <1>5, OthersKept DEF InFlight
  <2> QED BY <1>1, <1>2, <2>1, IncomingStays
<1>6. Incoming(d) = Incoming(d)' + amount /\ Incoming(d)' \in Nat
  <2>1. InFlight(d) = InFlight(d)' \cup {o} /\ o \notin InFlight(d)'
    BY <1>a, <1>0, <1>1, OthersKept DEF InFlight
  <2>2. IsFiniteSet(InFlight(d)') /\ \A p \in InFlight(d)' : tlv[p].amount \in Nat
    BY <1>1, MatchesNext DEF FlightsAddUp, Slots
  <2>3. Incoming(d)' = Sum(tlv, InFlight(d)') /\ Incoming(d)' \in Nat
    BY <1>1, MatchesNext DEF Incoming, FlightsAddUp, Slots
  <2>4. Sum(tlv, InFlight(d)' \cup {o}) = Sum(tlv, InFlight(d)') + amount
    BY <1>1, <2>1, <2>2, OneMoreInFlight
  <2>5. Incoming(d) = Sum(tlv, InFlight(d)' \cup {o})
    BY <2>1 DEF Incoming
  <2> QED BY <2>3, <2>4, <2>5
<1>7. PICK n \in Nat, m \in Nat : n = Incoming(src) /\ m = Incoming(d)
  BY <1>1, Matches DEF FlightsAddUp
<1>8. \A i \in Used : /\ bankAccounts[i].account_id \in IDsInUse
                      /\ Book[bankAccounts[i].account_id]
                           = [password |-> bankAccounts[i].password,
                              balance  |-> (bankAccounts[i].balance - Incoming(i)) % Modulus]
  BY BookIs
<1>9. \A i \in Used : Book'[bankAccounts[i].account_id]
                        = [password |-> bankAccounts[i].password,
                           balance  |-> (bankAccounts'[i].balance - Incoming(i)') % Modulus]
  <2>1. \A i \in Used : Book'[bankAccounts'[i].account_id]
                          = [password |-> bankAccounts'[i].password,
                             balance  |-> (bankAccounts'[i].balance - Incoming(i)') % Modulus]
    BY <1>2, MatchesNext DEF BookMatches
  <2> QED BY <1>2, <1>4, <2>1
<1>10. (bankAccounts'[src].balance - Incoming(src)') % Modulus
         = (((b - n) % Modulus) - amount) % Modulus
  <2>1. /\ b - amount \in Int /\ b - n \in Int
        /\ (b - amount) - n = (b - n) - amount
    OBVIOUS
  <2>2. (((b - amount) % Modulus) - n) % Modulus = ((b - amount) - n) % Modulus
    BY <2>1, WordOf
  <2>3. (((b - n) % Modulus) - amount) % Modulus = ((b - n) - amount) % Modulus
    BY <2>1, WordOf
  <2>4. Incoming(src)' = n
    BY <1>1, <1>2, <1>5, <1>7
  <2> QED BY <1>4, <2>1, <2>2, <2>3, <2>4
<1>11. (bankAccounts'[d].balance - Incoming(d)') % Modulus
         = (((c - m) % Modulus) + amount) % Modulus
  <2>1. bankAccounts'[d].balance = c
    BY <1>2, <1>3, <1>4
  <2>2. c - Incoming(d)' = (c - m) + amount /\ c - m \in Int
    BY <1>6, <1>7
  <2>3. (((c - m) % Modulus) + amount) % Modulus = ((c - m) + amount) % Modulus
    BY <2>2, WordOf
  <2> QED BY <2>1, <2>2, <2>3
<1>12. IDsInUse' = IDsInUse
  BY <1>2, <1>4 DEF IDsInUse
<1>13. /\ Book = [id \in IDsInUse |-> Book[id]]
       /\ Book' = [id \in IDsInUse |-> Book'[id]]
  BY <1>12, Matches, MatchesNext DEF BookMatches
<1>14. /\ r.account_id \in IDsInUse /\ r.target \in IDsInUse /\ r.target # r.account_id
       /\ Book[r.account_id] = [password |-> r.password, balance |-> (b - n) % Modulus]
       /\ Book[r.target] = [password |-> bankAccounts[d].password, balance |-> (c - m) % Modulus]
       /\ Book'[r.account_id]
            = [password |-> r.password, balance |-> (((b - n) % Modulus) - amount) % Modulus]
       /\ Book'[r.target] = [password |-> bankAccounts[d].password,
                             balance |-> (((c - m) % Modulus) + amount) % Modulus]
  BY <1>1, <1>3, <1>7, <1>8, <1>9, <1>10, <1>11
<1>15. ASSUME NEW id \in IDsInUse \ {r.account_id, r.target}
       PROVE  Book'[id] = Book[id]
  <2>1. PICK i \in Used : bankAccounts[i].account_id = id
    BY DEF IDsInUse
  <2>2. i # src /\ i # d
    BY <1>1, <2>1
  <2>3. bankAccounts'[i] = bankAccounts[i] /\ Incoming(i)' = Incoming(i)
    BY <1>2, <1>4, <1>5, <2>2
  <2> QED BY <1>8, <1>9, <2>1, <2>3
<1>16. PICK u, v : u = (b - n) % Modulus /\ v = (c - m) % Modulus
  OBVIOUS
<1>17. /\ Book[r.account_id] = [password |-> r.password, balance |-> u]
       /\ Book[r.target] = [password |-> bankAccounts[d].password, balance |-> v]
       /\ Book'[r.account_id] = [password |-> r.password, balance |-> (u - amount) % Modulus]
       /\ Book'[r.target] = [password |-> bankAccounts[d].password,
                             balance |-> (v + amount) % Modulus]
  BY <1>14, <1>16
<1>18. Book' = [Book EXCEPT ![r.account_id].balance = (@ - amount) % Modulus,
                            ![r.target].balance     = (@ + amount) % Modulus]
  <2> DEFINE old == Book  new == Book'
             x == r.account_id  y == r.target  q == bankAccounts[d].password
  <2>1. /\ old = [id \in IDsInUse |-> old[id]] /\ new = [id \in IDsInUse |-> new[id]]
        /\ x \in IDsInUse /\ y \in IDsInUse /\ x # y
        /\ \A id \in IDsInUse \ {x, y} : new[id] = old[id]
    BY <1>13, <1>14, <1>15
  <2>2. /\ old[x] = [password |-> r.password, balance |-> u]
        /\ old[y] = [password |-> q, balance |-> v]
        /\ new[x] = [password |-> r.password, balance |-> (u - amount) % Modulus]
        /\ new[y] = [password |-> q, balance |-> (v + amount) % Modulus]
    BY <1>17
  <2> HIDE DEF old, new, x, y, q
  <2>3. new = [old EXCEPT ![x].balance = (@ - amount) % Modulus,
                          ![y].balance = (@ + amount) % Modulus]
    <3> DEFINE less == (u - amount) % Modulus  more == (v + amount) % Modulus
    <3>1. [old[x] EXCEPT !.balance = less] = [password |-> r.password, balance |-> less]
      <4> HIDE DEF less
      <4> QED BY ONLY <2>2
    <3>2. [old[y] EXCEPT !.balance = more] = [password |-> q, balance |-> more]
      <4> HIDE DEF more
      <4> QED BY ONLY <2>2
    <3>3. old[x].balance = u /\ old[y].balance = v
      BY ONLY <2>2
    <3>4. [old EXCEPT ![x].balance = (@ - amount) % Modulus]
            = [old EXCEPT ![x] = [password |-> r.password, balance |-> less]]
      BY ONLY <3>1, <3>3
    <3>5. [old EXCEPT ![x] = [password |-> r.password, balance |-> less]][y] = old[y]
      <4> HIDE DEF less
      <4> QED BY ONLY <2>1
    <3>6. [old EXCEPT ![x].balance = (@ - amount) % Modulus,
                      ![y].balance = (@ + amount) % Modulus]
            = [[old EXCEPT ![x] = [password |-> r.password, balance |-> less]]
                 EXCEPT ![y] = [password |-> q, balance |-> more]]
      BY ONLY <3>2, <3>3, <3>4, <3>5
    <3>7. new[x] = [password |-> r.password, balance |-> less]
          /\ new[y] = [password |-> q, balance |-> more]
      BY ONLY <2>2
    <3> HIDE DEF less, more
    <3>8. new = [[old EXCEPT ![x] = [password |-> r.password, balance |-> less]]
                   EXCEPT ![y] = [password |-> q, balance |-> more]]
      BY ONLY <2>1, <3>7
    <3> QED BY ONLY <3>6, <3>8
  <2> QED BY <2>3 DEF old, new, x, y
<1>19. Book[r.account_id].password = r.password
  BY <1>17
<1> QED BY <1>1, <1>14, <1>18, <1>19

\* An account in the ledger: the one that was created.
LEMMA OpenedBook ==
  ASSUME SerialInv, SerialInv', OneCreation, LedgerInv, NEW o \in Offices, WriteAccount(o),
         NEW r, r = tlv[o]
  PROVE  /\ r.account_id = 0 /\ r.account_id \in IDsInUse
         /\ Book[r.account_id].password = r.password
         /\ r.target \notin IDsInUse
         /\ Book' = [id \in IDsInUse \cup {r.target} |->
                       IF id = r.target
                       THEN [password |-> r.newPassword, balance |-> r.amount]
                       ELSE Book[id]]
<1> USE DEF SerialInv, BasicInv
<1>0. OfficeStep(o) /\ ~Credit(o) /\ ~Debit(o)
  BY DEF OfficeStep, WriteAccount, Credit, Debit
<1>1. /\ pc[o] = "write" /\ accountsIndex \in Slots /\ r \in Creations
      /\ r.amount \in MIN_BALANCE .. MAX_BALANCE
  BY RequestsAssumption DEF WriteAccount, TypeOK, TakenInv, CreatingPlaces
<1>2. PICK new \in Slots : new = accountsIndex
  BY <1>1
<1>3. /\ bankAccounts'[new] = [account_id |-> r.target, password |-> r.newPassword,
                              balance |-> r.amount]
      /\ \A i \in Slots \ {new} : bankAccounts'[i] = bankAccounts[i]
  BY <1>2 DEF WriteAccount, NewSlot, TypeOK
<1>4. Used' = Used \cup {new} /\ new \notin Used
  BY <1>2, AccountWritten
<1>5. Used \subseteq Slots
  BY Room DEF Used, InUse, Slots, TypeOK
<1>6. \A i \in Slots : Incoming(i)' = Incoming(i)
  BY <1>0, FlightsStay
<1>7. Incoming(new)' = 0
  <2>1. InFlight(new) = {}
    BY <1>4 DEF InFlight, WorkInv, DestPlaces
  <2>2. Incoming(new) = Cardinality(Units(tlv, {}))
    BY <2>1, Matches DEF FlightsAddUp
  <2>3. Units(tlv, {}) = {}
    BY DEF Units
  <2> QED BY <1>6, <2>2, <2>3, FS_EmptySet
<1>8. r.amount % Modulus = r.amount /\ r.amount \in Int
  <2>1. Modulus \in Nat \ {0} /\ r.amount \in 0 .. Modulus - 1
    BY <1>1, ArgumentsAssumption, AccountsAssumption
  <2>2. \A x \in 0 .. Modulus - 1 : x % Modulus = x
    BY <2>1
  <2> QED BY <2>1, <2>2
<1>9. \A i \in Used : /\ bankAccounts[i].account_id \in IDsInUse
                      /\ bankAccounts[i].account_id # r.target
                      /\ Book[bankAccounts[i].account_id]
                           = [password |-> bankAccounts[i].password,
                              balance  |-> (bankAccounts[i].balance - Incoming(i)) % Modulus]
  BY <1>1, BookIs DEF TableInv, CreatingPlaces
<1>10. \A i \in Used' : Book'[bankAccounts'[i].account_id]
                          = [password |-> bankAccounts'[i].password,
                             balance  |-> (bankAccounts'[i].balance - Incoming(i)') % Modulus]
  BY MatchesNext DEF BookMatches
<1>11. Book'[r.target] = [password |-> r.newPassword, balance |-> r.amount]
  <2>1. Book'[r.target] = [password |-> r.newPassword, balance |-> (r.amount - 0) % Modulus]
    BY <1>3, <1>4, <1>7, <1>10
  <2> QED BY <1>8, <2>1
<1>12. IDsInUse' = IDsInUse \cup {r.target} /\ r.target \notin IDsInUse
  <2>1. \A i \in Used : bankAccounts'[i] = bankAccounts[i]
    BY <1>3, <1>4, <1>5
  <2>2. IDsInUse' = {bankAccounts'[i].account_id : i \in Used \cup {new}}
    BY <1>4 DEF IDsInUse
  <2>3. bankAccounts'[new].account_id = r.target
    BY <1>3
  <2>4. IDsInUse = {bankAccounts'[i].account_id : i \in Used}
    BY <2>1 DEF IDsInUse
  <2>5. r.target \notin IDsInUse
    BY <1>9 DEF IDsInUse
  <2> QED BY <2>2, <2>3, <2>4, <2>5
<1>13. \A id \in IDsInUse : Book'[id] = Book[id]
  <2>1. \A i \in Used : bankAccounts'[i] = bankAccounts[i] /\ Incoming(i)' = Incoming(i)
    BY <1>3, <1>4, <1>5, <1>6
  <2>2. ASSUME NEW i \in Used
        PROVE  Book'[bankAccounts[i].account_id] = Book[bankAccounts[i].account_id]
    <3>1. bankAccounts'[i] = bankAccounts[i] /\ Incoming(i)' = Incoming(i)
      BY <2>1
    <3>2. Book'[bankAccounts'[i].account_id]
            = [password |-> bankAccounts'[i].password,
               balance  |-> (bankAccounts'[i].balance - Incoming(i)') % Modulus]
      BY <1>4, <1>10
    <3>3. Book[bankAccounts[i].account_id]
            = [password |-> bankAccounts[i].password,
               balance  |-> (bankAccounts[i].balance - Incoming(i)) % Modulus]
      BY <1>9
    <3> QED BY <3>1, <3>2, <3>3
  <2> QED BY <2>2 DEF IDsInUse
<1>14. Book' = [id \in IDsInUse' |-> Book'[id]]
  BY MatchesNext DEF BookMatches
<1>15. Book' = [id \in IDsInUse \cup {r.target} |->
                 IF id = r.target
                 THEN [password |-> r.newPassword, balance |-> r.amount]
                 ELSE Book[id]]
  BY <1>11, <1>12, <1>13, <1>14
<1>16. r.account_id = 0 /\ r.account_id \in IDsInUse /\ Book[r.account_id].password = r.password
  <2>1. r.account_id = 0 /\ LoginMatches(r) # {} /\ r \in Requests
    BY <1>1 DEF LedgerInv, ActsFor, CreatingPlaces, ADMIN_ACCOUNT_ID, Creations
  <2> QED BY <2>1, LoginIsAuthorised
<1> QED BY <1>12, <1>15, <1>16

-----------------------------------------------------------------------------
(* What has been done, and the answer.                                     *)

\* A request answered is not one that another office works on.
LEMMA Alone ==
  ASSUME SerialInv, NEW o \in Offices, pc[o] # "idle"
  PROVE  /\ tlv[o] \in Requests /\ replies[tlv[o]].ret_code = "none"
         /\ \A p \in Offices : pc[p] # "idle" /\ tlv[p] = tlv[o] => p = o
BY DEF SerialInv, BasicInv, TypeOK, TakenInv, UnansweredInv, NoReply

\* Which requests at work have had their effect.
LEMMA DoneAlready ==
  ASSUME SerialInv, NEW o \in Offices, pc[o] # "idle"
  PROVE  /\ tlv[o] \in Creations => (tlv[o] \in Opened <=> pc[o] = "unlockNew")
         /\ tlv[o] \in Transfers =>
              (tlv[o] \in Moved <=> pc[o] \in {"lockRead", "read"} /\ ret_code[o] = "RC_OK")
BY Alone DEF Opened, Moved

\* An office touches no other's return code.
LEMMA OthersCode ==
  ASSUME TypeOK, NEW o \in Offices, OfficeStep(o), NEW p \in Offices, p # o
  PROVE  ret_code'[p] = ret_code[p]
BY DEF OfficeStep, TakeRequest, Login, Lock, SearchID, LoadIndex, StoreIndex, InitLock, PickLock,
   WriteAccount, UnlockNew, Resolve, CheckFunds, FindDest, CheckRoom, Credit, Debit,
   ReadBalance, Return, localVars, TypeOK

\* A creation has its effect when the account is written, and then only.
LEMMA OpenedGrows ==
  ASSUME SerialInv, LedgerInv, NEW o \in Offices, OfficeStep(o)
  PROVE  /\ ~WriteAccount(o) => Opened' = Opened
         /\ WriteAccount(o) => /\ Opened' = Opened \cup {tlv[o]}
                               /\ tlv[o] \in Creations \ Opened
<1> USE DEF SerialInv, BasicInv
<1>1. \A p \in Offices \ {o} : pc'[p] = pc[p] /\ tlv'[p] = tlv[p]
  BY OthersKept
<1>2. CASE WriteAccount(o)
  <2>1. /\ pc[o] = "write" /\ pc'[o] = "unlockNew" /\ tlv' = tlv /\ replies' = replies
        /\ tlv[o] \in Creations
    BY <1>2 DEF WriteAccount, Goto, TypeOK, TakenInv, CreatingPlaces, queueVars
  <2>2. tlv[o] \notin Opened
    BY <2>1, Alone DEF Opened
  <2>3. Opened' = Opened \cup {tlv[o]}
    BY <1>1, <2>1 DEF Opened
  <2> QED BY <1>2, <2>1, <2>2, <2>3
<1>3. CASE ~WriteAccount(o) /\ UNCHANGED replies /\ ~UnlockNew(o)
  <2>1. pc[o] # "unlockNew"
    BY <1>3 DEF OfficeStep, TakeRequest, Login, Lock, SearchID, LoadIndex, StoreIndex,
       InitLock, PickLock, Resolve, CheckFunds, FindDest, CheckRoom, Credit,
       Debit, ReadBalance, LockPlaces, Section
  <2>2. pc'[o] # "unlockNew"
    BY <1>3 DEF OfficeStep, TakeRequest, Login, Lock, SearchID, LoadIndex, StoreIndex,
       InitLock, PickLock, Resolve, CheckFunds, FindDest, CheckRoom, Credit,
       Debit, ReadBalance, LockPlaces, Section, Reply, Goto, TypeOK
  <2>3. Opened' = Opened
    BY <1>1, <1>3, <2>1, <2>2 DEF Opened
  <2> QED BY <1>3, <2>3
<1>4. CASE /\ pc[o] \notin {"idle", "lockRead"} /\ pc'[o] = "idle" /\ UNCHANGED queueVars
           /\ \E code \in RetCodes : \E balance : Right(o, code) /\ Reply(o, code, balance)
  <2>1. PICK code \in RetCodes : /\ Right(o, code)
                                 /\ \E balance : Reply(o, code, balance)
    BY <1>4
  <2>2. /\ tlv' = tlv /\ tlv[o] \in Requests /\ replies'[tlv[o]].ret_code = code
        /\ \A r \in Requests \ {tlv[o]} : replies'[r] = replies[r]
    BY <1>4, <2>1 DEF Reply, TypeOK, queueVars
  <2>3. ASSUME NEW r \in Creations
        PROVE  r \in Opened' <=> r \in Opened
    <3>1. CASE r = tlv[o]
      <4>1. r \in Opened <=> pc[o] = "unlockNew"
        BY <1>4, <3>1, DoneAlready
      <4>2. r \in Opened' <=> code = "RC_OK"
        BY <1>1, <1>4, <2>2, <3>1, Alone DEF Opened
      <4> QED BY <2>1, <3>1, <4>1, <4>2 DEF Right
    <3>2. CASE r # tlv[o]
      <4>1. r \in Requests
        BY DEF Creations
      <4> QED BY <1>1, <2>2, <3>2, <4>1 DEF Opened
    <3> QED BY <3>1, <3>2
  <2>4. Opened' = Opened
    BY <2>3 DEF Opened
  <2>5. ~WriteAccount(o)
    BY <1>4 DEF WriteAccount, Goto, TypeOK
  <2> QED BY <2>4, <2>5
<1> QED BY <1>2, <1>3, <1>4, Answers

\* A transfer has its effect when the debit is made, and then only.
LEMMA MovedGrows ==
  ASSUME SerialInv, LedgerInv, NEW o \in Offices, OfficeStep(o)
  PROVE  /\ ~Debit(o) => Moved' = Moved
         /\ Debit(o) => /\ Moved' = Moved \cup {tlv[o]}
                        /\ tlv[o] \in Transfers \ Moved
<1> USE DEF SerialInv, BasicInv
<1> DEFINE Done(p) == pc[p] \in {"lockRead", "read"} /\ ret_code[p] = "RC_OK"
<1>1. \A p \in Offices \ {o} : tlv'[p] = tlv[p] /\ (Done(p)' <=> Done(p))
  BY OthersKept, OthersCode
<1>2. CASE Debit(o)
  <2>1. /\ pc[o] = "debit" /\ pc'[o] = "lockRead" /\ tlv' = tlv /\ replies' = replies
        /\ tlv[o] \in Transfers /\ ret_code'[o] = "RC_OK"
    BY <1>2 DEF Debit, Goto, Return, TypeOK, TakenInv, PayPlaces, queueVars
  <2>2. tlv[o] \notin Moved
    BY <2>1, Alone DEF Moved
  <2>3. Done(o)' /\ ~Done(o)
    BY <2>1
  <2>4. Moved' = Moved \cup {tlv[o]}
    BY <1>1, <2>1, <2>3 DEF Moved
  <2> QED BY <1>2, <2>1, <2>2, <2>4
<1>3. CASE ~Debit(o) /\ UNCHANGED replies /\ ~ReadBalance(o)
  <2>1. CASE TakeRequest(o)
    <3>1. ~Done(o) /\ ~Done(o)'
      BY <2>1 DEF TakeRequest, Goto, TypeOK
    <3>2. Moved' = Moved
      BY <1>1, <1>3, <3>1 DEF Moved
    <3> QED BY <1>3, <3>2
  <2>2. CASE ~TakeRequest(o)
    <3>1. tlv' = tlv
      BY <1>3, <2>2 DEF OfficeStep, Login, Lock, SearchID, LoadIndex, StoreIndex, InitLock,
         PickLock, WriteAccount, UnlockNew, Resolve, CheckFunds, FindDest, CheckRoom,
         Credit, queueVars
    <3>2. CASE Lock(o)
      <4>1. pc[o] \in LockPlaces /\ pc'[o] = Section[pc[o]] /\ ret_code' = ret_code
        BY <3>2 DEF Lock, Goto, TypeOK, localVars
      <4>2. Done(o)' <=> Done(o)
        BY <4>1 DEF LockPlaces, Section
      <4>3. Moved' = Moved
        BY <1>1, <1>3, <3>1, <4>2 DEF Moved
      <4> QED BY <1>3, <4>3
    <3>3. CASE ~Lock(o)
      <4>1. ~Done(o)
        BY <1>3, <2>2, <3>3 DEF OfficeStep, Login, SearchID, LoadIndex, StoreIndex, InitLock,
           PickLock, WriteAccount, UnlockNew, Resolve, CheckFunds, FindDest, CheckRoom, Credit
      <4>2. tlv[o] \in Transfers => ~Done(o)'
        <5>1. CASE Resolve(o) \/ FindDest(o) \/ CheckRoom(o)
          BY <5>1 DEF Resolve, FindDest, CheckRoom, Transfers, Goto, Return, TypeOK
        <5>2. CASE Login(o) \/ SearchID(o) \/ LoadIndex(o) \/ StoreIndex(o) \/ InitLock(o)
                     \/ PickLock(o) \/ WriteAccount(o) \/ UnlockNew(o) \/ CheckFunds(o) \/ Credit(o)
          BY <5>2 DEF Login, SearchID, LoadIndex, StoreIndex, InitLock, PickLock,
             WriteAccount, UnlockNew, CheckFunds, Credit, Reply, Goto, TypeOK
        <5> QED BY <1>3, <2>2, <3>3, <5>1, <5>2 DEF OfficeStep
      <4>3. Moved' = Moved
        BY <1>1, <1>3, <3>1, <4>1, <4>2 DEF Moved
      <4> QED BY <1>3, <4>3
    <3> QED BY <3>2, <3>3
  <2> QED BY <2>1, <2>2
<1>4. CASE /\ pc[o] \notin {"idle", "lockRead"} /\ pc'[o] = "idle" /\ UNCHANGED queueVars
           /\ \E code \in RetCodes : \E balance : Right(o, code) /\ Reply(o, code, balance)
  <2>1. PICK code \in RetCodes : /\ Right(o, code)
                                 /\ \E balance : Reply(o, code, balance)
    BY <1>4
  <2>2. /\ tlv' = tlv /\ tlv[o] \in Requests /\ replies'[tlv[o]].ret_code = code
        /\ \A r \in Requests \ {tlv[o]} : replies'[r] = replies[r]
    BY <1>4, <2>1 DEF Reply, TypeOK, queueVars
  <2>3. ~Done(o)'
    BY <1>4
  <2>4. ASSUME NEW r \in Transfers
        PROVE  r \in Moved' <=> r \in Moved
    <3>1. CASE r = tlv[o]
      <4>1. r \in Moved <=> Done(o)
        BY <1>4, <3>1, DoneAlready
      <4>2. \A p \in Offices \ {o} : tlv[p] = r => ~Done(p)
        BY <1>4, <3>1, Alone
      <4>3. r \in Moved' <=> code = "RC_OK"
        BY <1>1, <2>2, <2>3, <3>1, <4>2 DEF Moved
      <4> QED BY <1>4, <2>1, <3>1, <4>1, <4>3 DEF Right
    <3>2. CASE r # tlv[o]
      <4>1. r \in Requests
        BY DEF Transfers
      <4> QED BY <1>1, <2>2, <2>3, <3>2, <4>1 DEF Moved
    <3> QED BY <3>1, <3>2
  <2>5. Moved' = Moved
    BY <2>4 DEF Moved
  <2>6. ~Debit(o)
    BY <1>4 DEF Debit, Goto, TypeOK
  <2> QED BY <2>5, <2>6
<1> QED BY <1>2, <1>3, <1>4, Answers

-----------------------------------------------------------------------------
(* The accounts implement the ledger.                                      *)

Told == [r \in Requests |-> replies[r].ret_code]

\* The accounts of the start are the ledger's.
LEMMA LedgerAtStart == Init => Ledgers!Init
<1> SUFFICES ASSUME Init
             PROVE  Ledgers!Init
  OBVIOUS
<1>1. /\ Used = DOMAIN Opening /\ DOMAIN Opening \subseteq Slots
      /\ \A i \in DOMAIN Opening : bankAccounts[i] = Opening[i]
  <2>1. InUse = DOMAIN Opening /\ DOMAIN Opening \subseteq Slots
    BY Room DEF Init, InUse, Openings, Slots
  <2>2. \A i \in DOMAIN Opening : bankAccounts[i] = Opening[i]
    BY <2>1 DEF Init
  <2> QED BY <2>1, <2>2, OpeningAssumption DEF Used
<1>2. SerialInv
  BY SerialAtStart
<1>3. \A i \in Used : Incoming(i) = 0
  <2>1. ASSUME NEW i \in Used
        PROVE  Incoming(i) = 0
    <3>1. InFlight(i) = {}
      BY DEF Init, InFlight
    <3>2. Incoming(i) = Cardinality(Units(tlv, {})) /\ Units(tlv, {}) = {}
      BY <1>1, <1>2, <3>1, Matches DEF FlightsAddUp, Units
    <3> QED BY <3>2, FS_EmptySet
  <2> QED BY <2>1
<1>4. ASSUME NEW i \in DOMAIN Opening
      PROVE  /\ Opening[i].account_id \in IDsInUse
             /\ Book[Opening[i].account_id]
                  = [password |-> Opening[i].password, balance |-> Opening[i].balance]
  <2>1. /\ bankAccounts[i].account_id \in IDsInUse
        /\ Book[bankAccounts[i].account_id]
             = [password |-> bankAccounts[i].password,
                balance  |-> (bankAccounts[i].balance - Incoming(i)) % Modulus]
    BY <1>1, <1>2, BookIs
  <2>2. Opening[i].balance \in Word /\ Modulus \in Nat \ {0}
    BY OpeningAssumption, ArgumentsAssumption DEF Account
  <2>3. (Opening[i].balance - 0) % Modulus = Opening[i].balance
    BY <2>2 DEF Word
  <2> QED BY <1>1, <1>3, <2>1, <2>3
<1>5. IDsInUse = {Opening[i].account_id : i \in DOMAIN Opening}
  BY <1>1 DEF IDsInUse
<1>6. ASSUME NEW i \in DOMAIN Opening
      PROVE  (CHOOSE j \in DOMAIN Opening : Opening[j].account_id = Opening[i].account_id) = i
  BY OpeningAssumption
<1>7. Book = [id \in IDsInUse |->
                LET i == CHOOSE j \in DOMAIN Opening : Opening[j].account_id = id
                IN [password |-> Opening[i].password, balance |-> Opening[i].balance]]
  <2>1. ASSUME NEW id \in IDsInUse
        PROVE  Book[id] = LET i == CHOOSE j \in DOMAIN Opening : Opening[j].account_id = id
                          IN [password |-> Opening[i].password, balance |-> Opening[i].balance]
    <3>1. PICK i \in DOMAIN Opening : id = Opening[i].account_id
      BY <1>5
    <3> QED BY <1>4, <1>6, <3>1
  <2>2. Book = [id \in IDsInUse |-> Book[id]]
    BY <1>2, Matches DEF BookMatches
  <2> QED BY <2>1, <2>2
<1>8. /\ Opened = {} /\ Moved = {}
      /\ Told = [r \in Requests |-> "none"]
  BY DEF Init, Opened, Moved, Told, NoReply, Creations, Transfers
<1> QED BY <1>5, <1>7, <1>8 DEF Ledgers!Init, Book, IDsInUse, Told

\* Every step is one of the ledger's, or leaves the ledger as it is.
LEMMA LedgerStep ==
  ASSUME SerialInv, SerialInv', LedgerInv, OneCreation, [Next]_vars
  PROVE  [Ledgers!Next]_(Ledgers!vars)
<1> USE DEF SerialInv, BasicInv
<1> DEFINE Quiet == UNCHANGED <<Book, Opened, Moved, Told>>
<1>1. Quiet => UNCHANGED Ledgers!vars
  BY DEF Ledgers!vars, Book, IDsInUse, Told
<1>2. ASSUME NEW o \in Offices, OfficeStep(o)
      PROVE  Quiet \/ Ledgers!Next
  <2>0. PICK r \in Requests : r = tlv[o]
    BY DEF TypeOK
  <2>1. CASE WriteAccount(o)
    <3>1. /\ pc[o] # "idle" /\ replies' = replies /\ ~Debit(o)
      BY <2>1 DEF WriteAccount, Debit
    <3>2. /\ r \in Requests /\ r.type = "OP_CREATE_ACCOUNT" /\ r \notin Opened
          /\ Told[r] = "none" /\ Told' = Told
          /\ Opened' = Opened \cup {r} /\ Moved' = Moved
      BY <1>2, <2>0, <2>1, <3>1, Alone, OpenedGrows, MovedGrows DEF Told, Creations
    <3>3. /\ r.account_id = 0 /\ r.account_id \in IDsInUse
          /\ Book[r.account_id].password = r.password
          /\ r.target \notin IDsInUse
          /\ Book' = [id \in IDsInUse \cup {r.target} |->
                        IF id = r.target
                        THEN [password |-> r.newPassword, balance |-> r.amount]
                        ELSE Book[id]]
      BY <2>0, <2>1, OpenedBook
    <3>4. DOMAIN Book = IDsInUse
      BY DEF Book
    <3>5. Ledgers!Open(r)
      BY <3>2, <3>3, <3>4 DEF Ledgers!Open, Ledgers!Authorised, Ledgers!IDs, Book, IDsInUse, Told
    <3> QED BY <3>2, <3>5 DEF Ledgers!Next
  <2>2. CASE Debit(o)
    <3>1. /\ pc[o] # "idle" /\ replies' = replies /\ ~WriteAccount(o)
      BY <2>2 DEF WriteAccount, Debit
    <3>2. /\ r \in Requests /\ r.type = "OP_TRANSFER" /\ r \notin Moved
          /\ Told[r] = "none" /\ Told' = Told
          /\ Moved' = Moved \cup {r} /\ Opened' = Opened
      BY <1>2, <2>0, <2>2, <3>1, Alone, OpenedGrows, MovedGrows DEF Told, Transfers
    <3>3. /\ r.account_id \in IDsInUse /\ Book[r.account_id].password = r.password
          /\ r.target \in IDsInUse \ {r.account_id}
          /\ Book' = [Book EXCEPT
               ![r.account_id].balance = (@ - r.amount) % Modulus,
               ![r.target].balance     = (@ + r.amount) % Modulus]
      BY <2>0, <2>2, DebitedBook
    <3>4. DOMAIN Book = IDsInUse
      BY DEF Book
    <3>5. Ledgers!Move(r)
      BY <3>2, <3>3, <3>4 DEF Ledgers!Move, Ledgers!Authorised, Ledgers!IDs, Book, IDsInUse, Told
    <3> QED BY <3>2, <3>5 DEF Ledgers!Next
  <2>3. CASE ~WriteAccount(o) /\ ~Debit(o)
    <3>1. Opened' = Opened /\ Moved' = Moved
      BY <1>2, <2>3, OpenedGrows, MovedGrows
    <3>2. Book' = Book
      BY <1>2, <2>3, CreditedBook, QuietBook
    <3>3. CASE UNCHANGED replies
      BY <3>1, <3>2, <3>3 DEF Told
    <3>4. ASSUME pc[o] \notin {"idle", "lockRead"}, NEW code \in RetCodes,
                 Right(o, code), \E balance : Reply(o, code, balance)
          PROVE  Ledgers!Next
      <4>1. r \in Requests /\ Told[r] = "none"
        BY <2>0, <3>4, Alone DEF Told
      <4>2. Told' = [Told EXCEPT ![r] = code]
        <5>1. /\ replies'[r].ret_code = code
              /\ \A q \in Requests \ {r} : replies'[q] = replies[q]
          BY <2>0, <3>4 DEF Reply, TypeOK
        <5>2. \A q \in Requests : Told'[q] = [Told EXCEPT ![r] = code][q]
          BY <5>1 DEF Told
        <5> QED BY <5>2 DEF Told
      <4>3. /\ r.type = "OP_CREATE_ACCOUNT" => (code = "RC_OK" <=> r \in Opened)
            /\ r.type = "OP_TRANSFER" => (code = "RC_OK" <=> r \in Moved)
        BY <2>0, <3>4, <4>1, DoneAlready DEF Right, Creations, Transfers
      <4>4. r.type = "OP_BALANCE" /\ code = "RC_OK" =>
              r.account_id \in IDsInUse /\ Book[r.account_id].password = r.password
        BY <2>0, <3>4, <4>1, LoginIsAuthorised DEF Right
      <4>5. DOMAIN Book = IDsInUse
        BY DEF Book
      <4>6. code \in Ledgers!Codes
        BY DEF RetCodes, Ledgers!Codes
      <4>7. Ledgers!Answer(r, code)
        BY <3>1, <3>2, <4>1, <4>2, <4>3, <4>4, <4>5
           DEF Ledgers!Answer, Ledgers!Authorised, Ledgers!IDs, Book, IDsInUse, Told
      <4> QED BY <4>1, <4>6, <4>7 DEF Ledgers!Next
    <3> QED BY <1>2, <3>3, <3>4, Answers
  <2> QED BY <2>1, <2>2, <2>3
<1>3. UNCHANGED vars => Quiet
  <2>1. UNCHANGED vars => UNCHANGED <<bankAccounts, accountsIndex, pc, tlv, dest, ret_code, replies>>
    BY DEF vars, tableVars, queueVars, localVars
  <2>2. ASSUME UNCHANGED <<bankAccounts, accountsIndex, pc, tlv, dest, ret_code, replies>>
        PROVE  Quiet
    <3>1. Opened' = Opened /\ Moved' = Moved /\ Told' = Told
      BY <2>2 DEF Opened, Moved, Told
    <3>2. Used' = Used /\ Used \subseteq Slots
      BY <2>2, Room DEF Used, InUse, Slots, TypeOK
    <3>3. \A i \in Used : Incoming(i)' = Incoming(i)
      <4>1. ASSUME NEW i \in Used
            PROVE  Incoming(i)' = Incoming(i)
        <5>1. InFlight(i)' = InFlight(i)
          BY <2>2 DEF InFlight
        <5> QED BY <2>2, <3>2, <5>1, IncomingStays
      <4> QED BY <4>1
    <3>4. Book' = Book
      BY <2>2, <3>2, <3>3, BookStays
    <3> QED BY <3>1, <3>4
  <2> QED BY <2>1, <2>2
<1> HIDE DEF Quiet
<1> QED BY <1>1, <1>2, <1>3 DEF Next

\* Seen without the credits whose debit is to come, the accounts are a ledger:
\* whatever the order in which the offices take and let go of the locks, money
\* moves as a whole, for the user who owns it and once for each transfer that is
\* answered with RC_OK, and no other request moves any.  It holds as long as
\* account creations do not overlap.  (createNewAccount, checkBalance, bankTransfer)
THEOREM LedgerImplemented == Spec /\ []OneCreation => LedgerSpec
<1>1. SerialInv /\ LedgerInv /\ OneCreation /\ [Next]_vars => [Ledgers!Next]_(Ledgers!vars)
  BY SerialKept, LedgerStep
<1> QED BY <1>1, LedgerAtStart, LedgerInvHolds, PTL DEF Spec, LedgerSpec, Ledgers!Spec
=============================================================================
