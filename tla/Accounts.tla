------------------------------ MODULE Accounts ------------------------------
(***************************************************************************)
(* The bank accounts of the home-banking server and the operations that    *)
(* the bank offices run on them concurrently: login, account creation,     *)
(* balance check and transfer (requestHandler and what it calls).          *)
(*                                                                         *)
(* The request queue is reduced to a set of requests in which each office  *)
(* finds one at a time (RequestQueue.tla models it), the password hash to  *)
(* the password it is computed from.                                       *)
(*                                                                         *)
(* Grain.  Taking a lock of accountLocks is an action; what is done with   *)
(* the lock, after any delay, and its release are another.  A search of    *)
(* the accounts takes no lock but is one action: accounts are added at the *)
(* end and keep their identifier, so a search that finds one is the same   *)
(* as one made when it was found, and one that does not as one made when   *)
(* it began.  An account is copied into the array in one action: who finds *)
(* the identifier before the rest of the copy waits for the lock, which    *)
(* the creator holds.  createNewAccount reads accountsIndex, which no lock *)
(* guards, five times and writes it once: each is an action.               *)
(***************************************************************************)
EXTENDS Arguments, FiniteSets, FiniteSetsExt

CONSTANTS
  Offices,            \* the bank office threads
  Requests,           \* the requests users make; see RequestType
  Opening,            \* bankAccounts[0], [1], ... at the start; 0 is the admin's
  NoPassword,         \* matches no password: the hash of an unused account
  Nobody              \* the holder of a free lock

ADMIN_ACCOUNT_ID == 0

AccountIDs == 0 .. MAX_BANK_ACCOUNTS  \* what validateAccountID lets through
Slots      == 0 .. MAX_BANK_ACCOUNTS - 1

Account == [account_id : AccountIDs,
            password   : Passwords \cup {NoPassword},
            balance    : Word]

Creations == {r \in Requests : r.type = "OP_CREATE_ACCOUNT"}
Transfers == {r \in Requests : r.type = "OP_TRANSFER"}

ASSUME AccountsAssumption ==
  /\ MIN_BALANCE = 1 /\ MAX_BALANCE > 0
  /\ IsFiniteSet(DOMAIN Opening) /\ 0 \in DOMAIN Opening
  /\ DOMAIN Opening = 0 .. Cardinality(DOMAIN Opening) - 1
  /\ Cardinality(DOMAIN Opening) + Cardinality(Creations)
       <= MAX_BANK_ACCOUNTS  \* the table never fills
  /\ NoPassword \notin Passwords /\ Nobody \notin Offices

\* Requests are what a user process sends: its arguments were validated and the
\* password of its login fits (AcceptedInRange in ArgumentsProofs.tla).
ASSUME RequestsAssumption ==
  /\ IsFiniteSet(Requests) /\ Requests # {} /\ Requests \subseteq RequestType
  /\ \A r \in Creations : /\ r.target \in AccountIDs
                           /\ r.amount \in MIN_BALANCE .. MAX_BALANCE
  /\ \A r \in Transfers : r.amount \in 1 .. MAX_BALANCE

\* The accounts at the start are the administrator's, whose balance is 0, and
\* what earlier requests to create one left.
ASSUME OpeningAssumption ==
  /\ \A i \in DOMAIN Opening : Opening[i] \in Account /\ Opening[i].password # NoPassword
  /\ \A i, j \in DOMAIN Opening : Opening[i].account_id = Opening[j].account_id => i = j
  /\ Opening[0].account_id = ADMIN_ACCOUNT_ID
  /\ \A i \in DOMAIN Opening \ {0} : Opening[i].balance \in MIN_BALANCE .. MAX_BALANCE

VARIABLES
  bankAccounts,
  accountsIndex,  \* index of the last account
  accountLocks,   \* accountLocks[i]: the office that locked it, or Nobody
  todo,           \* requests no office has taken
  pc,             \* pc[o]: office o's place in requestHandler
  tlv,            \* tlv[o]: the request it works on (any request when idle)
  index,          \* index[o]: its user's account, from checkLoginAccount
  dest,           \* dest[o]: the account a transfer goes to
  slot,           \* slot[o]: a value of accountsIndex held in a register
  ret_code,       \* ret_code[o]: sHeader->ret_code
  replies         \* replies[r]: the reply to request r

tableVars == <<bankAccounts, accountsIndex, accountLocks>>
localVars == <<index, dest, slot, ret_code>>
queueVars == <<todo, tlv>>
vars == <<tableVars, queueVars, pc, localVars, replies>>

RetCodes == {"RC_OK", "RC_LOGIN_FAIL", "RC_OP_NALLOW", "RC_ID_IN_USE",
             "RC_ID_NOT_FOUND", "RC_SAME_ID", "RC_NO_FUNDS", "RC_TOO_HIGH", "RC_OTHER"}

NoBalance == -1  \* the balance field of a reply nothing was stored in
NoReply == [ret_code |-> "none", balance |-> NoBalance]

Section == [lockFunds |-> "funds", lockRoom |-> "room", lockCredit |-> "credit",
            lockDebit |-> "debit", lockRead |-> "read", lockNew |-> "write"]
LockPlaces == DOMAIN Section

Places == LockPlaces \cup {Section[p] : p \in LockPlaces} \cup
          {"idle", "login", "search", "load", "store", "init", "pick",
           "unlockNew", "resolve", "find", "undefined"}

TypeOK ==
  /\ bankAccounts  \in [Slots -> Account]
  /\ accountsIndex \in Slots
  /\ accountLocks  \in [Slots -> Offices \cup {Nobody}]
  /\ todo          \subseteq Requests
  /\ pc            \in [Offices -> Places]
  /\ tlv           \in [Offices -> Requests]
  /\ index         \in [Offices -> Slots]
  /\ dest          \in [Offices -> Slots]
  /\ slot          \in [Offices -> Slots]
  /\ ret_code      \in [Offices -> RetCodes]
  /\ replies       \in [Requests -> [ret_code : RetCodes \cup {"none"},
                                     balance  : Word \cup {NoBalance}]]

\* Static storage: zero, so an unused account has the admin's identifier.
UnusedAccount == [account_id |-> 0, password |-> NoPassword, balance |-> 0]

Init ==
  /\ bankAccounts = [i \in Slots |-> IF i \in DOMAIN Opening THEN Opening[i]
                                                             ELSE UnusedAccount]
  /\ accountsIndex = Cardinality(DOMAIN Opening) - 1
  /\ accountLocks = [i \in Slots |-> Nobody]
  /\ todo = Requests
  /\ pc = [o \in Offices |-> "idle"]
  /\ tlv = [o \in Offices |-> CHOOSE r \in Requests : TRUE]
  /\ index = [o \in Offices |-> 0]
  /\ dest = [o \in Offices |-> 0]
  /\ slot = [o \in Offices |-> 0]
  /\ ret_code = [o \in Offices |-> "RC_OK"]
  /\ replies = [r \in Requests |-> NoReply]

-----------------------------------------------------------------------------
(* Searching, arithmetic, locks and replies.                               *)

Goto(o, place) == pc' = [pc EXCEPT ![o] = place]
Return(o, code) == ret_code' = [ret_code EXCEPT ![o] = code]

InUseButLast == 0 .. accountsIndex - 1   \* faulty variant
InUse == 0 .. accountsIndex
First(indices) == CHOOSE i \in indices : \A j \in indices : i <= j

\* Accounts that match an identifier, and a login.
WithID(id) == {i \in InUse : bankAccounts[i].account_id = id}
AnyPassword(r) == WithID(r.account_id)   \* faulty variant
LoginMatches(r) == {i \in WithID(r.account_id) : bankAccounts[i].password = r.password}

\* The tests of isValidTransfer and of finishTransfer.
NoFundsBelowZero(balance, amount) ==   \* faulty variant
  ToInt((balance - amount) % Modulus) < 0
NoFunds(balance, amount) == ToInt((balance - amount) % Modulus) < MIN_BALANCE
TooHigh(balance, amount) == (balance + amount) % Modulus > MAX_BALANCE

Unlock(i) == accountLocks' = [accountLocks EXCEPT ![i] = Nobody]

SetBalance(i, balance) ==
  bankAccounts' = [bankAccounts EXCEPT ![i].balance = balance % Modulus]

\* The reply, and on to the next request.
Reply(o, code, balance) ==
  /\ replies' = [replies EXCEPT ![tlv[o]] = [ret_code |-> code, balance |-> balance]]
  /\ Goto(o, "idle")

-----------------------------------------------------------------------------
TakeRequest(o) ==
  /\ pc[o] = "idle"
  /\ \E r \in todo :
       /\ todo' = todo \ {r}
       /\ tlv' = [tlv EXCEPT ![o] = r]
  /\ Goto(o, "login")
  /\ UNCHANGED <<tableVars, localVars, replies>>

\* opUser: the administrator creates accounts and shuts the server down, the
\* clients do the rest; an unknown operation is refused to nobody.
Allowed(r) ==
  IF r.account_id = ADMIN_ACCOUNT_ID
  THEN r.type \notin {"OP_BALANCE", "OP_TRANSFER"}
  ELSE r.type \notin {"OP_CREATE_ACCOUNT", "OP_SHUTDOWN"}

Served == {"OP_CREATE_ACCOUNT", "OP_BALANCE", "OP_TRANSFER"}

\* requestHandler up to the switch, and what touches no account: a shutdown, and
\* an unknown operation, whose return code is whatever the stack held (RC_OTHER
\* stands for all but RC_OK).
Login(o) ==
  LET r == tlv[o] IN
  /\ pc[o] = "login"
  /\ \/ /\ LoginMatches(r) = {}
        /\ Reply(o, "RC_LOGIN_FAIL", NoBalance)
     \/ /\ LoginMatches(r) # {} /\ ~Allowed(r)
        /\ Reply(o, "RC_OP_NALLOW", NoBalance)
     \/ /\ LoginMatches(r) # {} /\ Allowed(r) /\ r.type = "OP_SHUTDOWN"
        /\ Reply(o, "RC_OK", NoBalance)
     \/ /\ LoginMatches(r) # {} /\ Allowed(r) /\ r.type = "__OP_MAX_NUMBER"
        /\ \E code \in {"RC_OK", "RC_OTHER"} : Reply(o, code, NoBalance)
     \/ /\ LoginMatches(r) # {} /\ Allowed(r) /\ r.type \in Served
        /\ Goto(o, IF r.type = "OP_CREATE_ACCOUNT" THEN "search" ELSE "resolve")
        /\ UNCHANGED replies
  /\ UNCHANGED <<tableVars, queueVars, localVars>>

\* pthread_mutex_lock: on the lock of slot[o] in createNewAccount, of dest[o]
\* where finishTransfer looks at the receiving account, of index[o] elsewhere.
LockIndex(o) ==
  IF pc[o] \in {"lockNew", "write", "unlockNew"} THEN slot[o]
  ELSE IF pc[o] \in {"lockRoom", "room", "lockCredit", "credit"} THEN dest[o]
  ELSE index[o]

Lock(o) ==
  /\ pc[o] \in LockPlaces
  /\ accountLocks[LockIndex(o)] = Nobody
  /\ accountLocks' = [accountLocks EXCEPT ![LockIndex(o)] = o]
  /\ Goto(o, Section[pc[o]])
  /\ UNCHANGED <<bankAccounts, accountsIndex, queueVars, localVars, replies>>

-----------------------------------------------------------------------------
(* createNewAccount.                                                       *)

NeverInUse(id) == FALSE   \* faulty variant
IDInUse(id) == WithID(id) # {}

SearchID(o) ==
  /\ pc[o] = "search"
  /\ IF IDInUse(tlv[o].target)
     THEN Reply(o, "RC_ID_IN_USE", NoBalance)
     ELSE Goto(o, "load") /\ UNCHANGED replies
  /\ UNCHANGED <<tableVars, queueVars, localVars>>

\* accountsIndex++
LoadIndex(o) ==
  /\ pc[o] = "load"
  /\ slot' = [slot EXCEPT ![o] = accountsIndex]
  /\ Goto(o, "store")
  /\ UNCHANGED <<tableVars, queueVars, index, dest, ret_code, replies>>

TwoMore(i) == i + 2   \* faulty variant
OneMore(i) == i + 1

StoreIndex(o) ==
  /\ pc[o] = "store"
  /\ accountsIndex' = OneMore(slot[o])
  /\ Goto(o, "init")
  /\ UNCHANGED <<bankAccounts, accountLocks, queueVars, localVars, replies>>

\* pthread_mutex_init: free, whoever held it.
InitLock(o) ==
  /\ pc[o] = "init"
  /\ Unlock(accountsIndex)
  /\ Goto(o, "pick")
  /\ UNCHANGED <<bankAccounts, accountsIndex, queueVars, localVars, replies>>

\* &accountLocks[accountsIndex], the argument of pthread_mutex_lock.
PickLock(o) ==
  /\ pc[o] = "pick"
  /\ slot' = [slot EXCEPT ![o] = accountsIndex]
  /\ Goto(o, "lockNew")
  /\ UNCHANGED <<tableVars, queueVars, index, dest, ret_code, replies>>

\* After the delay, at whatever accountsIndex is by then.
SlotBefore == accountsIndex - 1   \* faulty variant
NewSlot == accountsIndex

WriteAccount(o) ==
  /\ pc[o] = "write"
  /\ bankAccounts' = [bankAccounts EXCEPT ![NewSlot] =
                        [account_id |-> tlv[o].target,
                         password   |-> tlv[o].newPassword,
                         balance    |-> tlv[o].amount]]
  /\ Goto(o, "unlockNew")
  /\ UNCHANGED <<accountsIndex, accountLocks, queueVars, localVars, replies>>

UnlockNew(o) ==
  /\ pc[o] = "unlockNew"
  /\ Unlock(accountsIndex)
  /\ Reply(o, "RC_OK", NoBalance)
  /\ UNCHANGED <<bankAccounts, accountsIndex, queueVars, localVars>>

-----------------------------------------------------------------------------
(* checkBalance and bankTransfer.                                          *)

\* The second checkLoginAccount; its -1 is not tested, and accountLocks[-1]
\* is undefined behaviour.  Then a balance check or a transfer to oneself
\* only reads, and any other transfer starts in isValidTransfer.
Resolve(o) ==
  LET r == tlv[o] IN
  /\ pc[o] = "resolve"
  /\ \/ /\ LoginMatches(r) = {}
        /\ Goto(o, "undefined")
        /\ UNCHANGED <<index, ret_code>>
     \/ /\ LoginMatches(r) # {}
        /\ index' = [index EXCEPT ![o] = First(LoginMatches(r))]
        /\ \/ /\ r.type = "OP_BALANCE"
              /\ Return(o, "RC_OK") /\ Goto(o, "lockRead")
           \/ /\ r.type = "OP_TRANSFER" /\ r.target = r.account_id
              /\ Return(o, "RC_SAME_ID") /\ Goto(o, "lockRead")
           \/ /\ r.type = "OP_TRANSFER" /\ r.target # r.account_id
              /\ Goto(o, "lockFunds") /\ UNCHANGED ret_code
  /\ UNCHANGED <<tableVars, queueVars, dest, slot, replies>>

\* isValidTransfer: the funds are looked at and the lock let go.
CheckFunds(o) ==
  LET balance == bankAccounts[index[o]].balance IN
  /\ pc[o] = "funds"
  /\ Unlock(index[o])
  /\ IF NoFunds(balance, tlv[o].amount)
     THEN Reply(o, "RC_NO_FUNDS", balance)
     ELSE Goto(o, "find") /\ UNCHANGED replies
  /\ UNCHANGED <<bankAccounts, accountsIndex, queueVars, localVars>>

\* The loop of bankTransfer: finishTransfer on the first account that matches.
FindDest(o) ==
  LET found == WithID(tlv[o].target) IN
  /\ pc[o] = "find"
  /\ IF found = {}
     THEN Return(o, "RC_ID_NOT_FOUND") /\ Goto(o, "lockRead") /\ UNCHANGED dest
     ELSE /\ dest' = [dest EXCEPT ![o] = First(found)]
          /\ Goto(o, "lockRoom") /\ UNCHANGED ret_code
  /\ UNCHANGED <<tableVars, queueVars, index, slot, replies>>

CheckRoomKeepLock(o) ==   \* faulty variant
  /\ pc[o] = "room"
  /\ IF TooHigh(bankAccounts[dest[o]].balance, tlv[o].amount)
     THEN Return(o, "RC_TOO_HIGH") /\ Goto(o, "lockRead") /\ UNCHANGED accountLocks
     ELSE Goto(o, "lockCredit") /\ Unlock(dest[o]) /\ UNCHANGED ret_code
  /\ UNCHANGED <<bankAccounts, accountsIndex, queueVars, index, dest, slot, replies>>
CheckRoom(o) ==
  /\ pc[o] = "room"
  /\ Unlock(dest[o])
  /\ IF TooHigh(bankAccounts[dest[o]].balance, tlv[o].amount)
     THEN Return(o, "RC_TOO_HIGH") /\ Goto(o, "lockRead")
     ELSE Goto(o, "lockCredit") /\ UNCHANGED ret_code
  /\ UNCHANGED <<bankAccounts, accountsIndex, queueVars, index, dest, slot, replies>>

Credit(o) ==
  /\ pc[o] = "credit"
  /\ SetBalance(dest[o], bankAccounts[dest[o]].balance + tlv[o].amount)
  /\ Unlock(dest[o])
  /\ Goto(o, "lockDebit")
  /\ UNCHANGED <<accountsIndex, queueVars, localVars, replies>>

Destination(o) == dest[o]   \* faulty variant
Source(o) == index[o]

Debit(o) ==
  /\ pc[o] = "debit"
  /\ SetBalance(Source(o), bankAccounts[Source(o)].balance - tlv[o].amount)
  /\ Unlock(index[o])
  /\ Return(o, "RC_OK")
  /\ Goto(o, "lockRead")
  /\ UNCHANGED <<accountsIndex, queueVars, index, dest, slot, replies>>

\* The balance that the reply carries.
ReadBalance(o) ==
  /\ pc[o] = "read"
  /\ Unlock(index[o])
  /\ Reply(o, ret_code[o], bankAccounts[index[o]].balance)
  /\ UNCHANGED <<bankAccounts, accountsIndex, queueVars, localVars>>

-----------------------------------------------------------------------------
OfficeStep(o) ==
  \/ TakeRequest(o) \/ Login(o) \/ Lock(o)
  \/ SearchID(o) \/ LoadIndex(o) \/ StoreIndex(o) \/ InitLock(o)
  \/ PickLock(o) \/ WriteAccount(o) \/ UnlockNew(o)
  \/ Resolve(o) \/ CheckFunds(o) \/ FindDest(o) \/ CheckRoom(o)
  \/ Credit(o) \/ Debit(o) \/ ReadBalance(o)

Next == \E o \in Offices : OfficeStep(o)

\* Every office keeps being scheduled and gets a lock that stays free.
Spec == Init /\ [][Next]_vars
FairSpec == Spec /\ \A o \in Offices : WF_vars(OfficeStep(o))
-----------------------------------------------------------------------------
(* Properties that hold as long as account creations do not overlap.       *)

HoldingPlaces == {Section[p] : p \in LockPlaces} \cup {"unlockNew"}

\* An account's lock is held by the office at work on the account, by one at
\* most and by nobody otherwise: no path leaves it locked, and none works on
\* an account whose lock somebody else set free.  (accountLocks)
LockDiscipline ==
  \A i \in Slots :
    {o \in Offices : accountLocks[i] = o}
      = {o \in Offices : pc[o] \in HoldingPlaces /\ LockIndex(o) = i}

\* The login that requestHandler tested still holds when checkBalance or
\* bankTransfer repeats it without a test, so no index is -1.
NoWildIndex == \A o \in Offices : pc[o] # "undefined"

Used == {i \in InUse : bankAccounts[i].password # NoPassword}

\* Identifiers are unique, and an account whose creation was confirmed is
\* there with the password it was given.  (searchID, createNewAccount)
CreatedIsThere ==
  /\ \A i, j \in Used :
       bankAccounts[i].account_id = bankAccounts[j].account_id => i = j
  /\ \A r \in Creations : replies[r].ret_code = "RC_OK" =>
       \E i \in WithID(r.target) : bankAccounts[i].password = r.newPassword

\* A transfer credits one account and debits another in two critical
\* sections.  Seen without the credits whose debit is to come, the accounts
\* are a ledger: money moves as a whole, for the user who owns it, once for
\* each transfer, and the reply says whether it did.
InFlight(i) ==
  {o \in Offices : pc[o] \in {"lockDebit", "debit"} /\ dest[o] = i}

LedgerAccount(id) ==
  LET i == First(WithID(id))
      incoming == MapThenSumSet(LAMBDA o : tlv[o].amount, InFlight(i))
  IN [password |-> bankAccounts[i].password,
      balance  |-> (bankAccounts[i].balance - incoming) % Modulus]

\* Creations and transfers that had their effect, answered or not yet.
Opened ==
  {r \in Creations :
     \/ replies[r].ret_code = "RC_OK"
     \/ \E o \in Offices : tlv[o] = r /\ pc[o] = "unlockNew"}

Moved ==
  {r \in Transfers :
     \/ replies[r].ret_code = "RC_OK"
     \/ \E o \in Offices :
          tlv[o] = r /\ pc[o] \in {"lockRead", "read"} /\ ret_code[o] = "RC_OK"}

Ledgers == INSTANCE Ledger WITH
  accounts <- [id \in {bankAccounts[i].account_id : i \in Used} |-> LedgerAccount(id)],
  opened   <- Opened,
  moved    <- Moved,
  answer   <- [r \in Requests |-> replies[r].ret_code]

LedgerSpec == Ledgers!Spec

\* Under FairSpec every request is answered: no office waits for a lock for
\* ever.
AllAnswered == <>(\A r \in Requests : replies[r] # NoReply)

-----------------------------------------------------------------------------
(* Properties that hold only while a single office is at work.             *)

\* types.h on RC_NO_FUNDS and RC_TOO_HIGH: a client's balance stays between
\* MIN_BALANCE and MAX_BALANCE.
BalanceInRange ==
  \A i \in Used : bankAccounts[i].account_id # ADMIN_ACCOUNT_ID =>
    /\ ToInt(bankAccounts[i].balance) >= MIN_BALANCE
    /\ ToInt(bankAccounts[i].balance) <= MAX_BALANCE
=============================================================================
