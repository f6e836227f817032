--------------------------- MODULE AccountsProofs ---------------------------
(***************************************************************************)
(* What Accounts.tla states about the accounts, proved for every set of    *)
(* offices, requests and opening accounts.                                 *)
(*                                                                         *)
(* accountsIndex is guarded by no lock, so most of it holds only while     *)
(* account creations do not overlap; a theorem says so by assuming         *)
(* []OneCreation.  What holds without it is proved without it.             *)
(***************************************************************************)
EXTENDS Accounts, ArgumentsProofs, WellOrder

-----------------------------------------------------------------------------
(* Where an office is in requestHandler.                                   *)

\* In createNewAccount; with the new accountsIndex stored.
CreatingPlaces == {"search", "load", "store", "init", "pick", "lockNew", "write", "unlockNew"}
StoredPlaces   == {"init", "pick", "lockNew", "write", "unlockNew"}

\* In bankTransfer, up to the debit; with an account to credit.
PayPlaces  == {"lockFunds", "funds", "find", "lockRoom", "room", "lockCredit", "credit",
               "lockDebit", "debit"}
DestPlaces == {"lockRoom", "room", "lockCredit", "credit", "lockDebit", "debit"}

\* Reading the balance for the reply.
ReadPlaces == {"lockRead", "read"}

\* At most one account creation runs.
OneCreation ==
  \A o, p \in Offices : pc[o] \in CreatingPlaces /\ pc[p] \in CreatingPlaces => o = p

\* At most one office is at work.
OneAtWork == \A o, p \in Offices : pc[o] # "idle" /\ pc[p] # "idle" => o = p

-----------------------------------------------------------------------------
(* What holds however creations overlap.                                   *)

Openings == Cardinality(DOMAIN Opening)

\* Creations that have moved accountsIndex: those that were confirmed and those
\* that are about to be.
Stored ==
  {r \in Creations :
     \/ replies[r].ret_code = "RC_OK"
     \/ \E o \in Offices : tlv[o] = r /\ pc[o] \in StoredPlaces}

\* An account in the making goes behind those of the start, and accountsIndex
\* counts one at most for each creation that was confirmed or is about to be: a
\* refused one takes no room, and two at once may take it together.
Highest == Openings - 1 + Cardinality(Stored)
IndexCounts ==
  /\ accountsIndex \in Openings - 1 .. Highest
  /\ Stored # {} => accountsIndex >= Openings

\* Every request is with one office, which does what it asks for.
TakenInv ==
  /\ \A o \in Offices :
       /\ pc[o] # "idle" => tlv[o] \notin todo
       /\ pc[o] \in CreatingPlaces => tlv[o] \in Creations
       /\ pc[o] \in PayPlaces => tlv[o] \in Transfers
       /\ pc[o] \in ReadPlaces \cup {"resolve"} =>
            tlv[o].type \in {"OP_BALANCE", "OP_TRANSFER"}
  /\ \A o, p \in Offices :
       pc[o] # "idle" /\ pc[p] # "idle" /\ tlv[o] = tlv[p] => o = p

\* Nothing is answered before it is done.
UnansweredInv ==
  /\ \A r \in todo : replies[r] = NoReply
  /\ \A o \in Offices : pc[o] # "idle" => replies[tlv[o]] = NoReply

\* What an office holds of accountsIndex in a register is as bounded.
IndexInv ==
  /\ IndexCounts
  /\ \A o \in Offices : pc[o] = "store" => slot[o] \in Openings - 1 .. Highest

\* The accounts of the start keep their identity.
OpeningKept ==
  \A i \in DOMAIN Opening :
    /\ bankAccounts[i].account_id = Opening[i].account_id
    /\ bankAccounts[i].password = Opening[i].password

BasicInv == TypeOK /\ TakenInv /\ UnansweredInv /\ IndexInv /\ OpeningKept

-----------------------------------------------------------------------------
(* What holds while creations do not overlap.                              *)

HasAccount(r) ==
  \E i \in Used : bankAccounts[i].account_id = r.target
                  /\ bankAccounts[i].password = r.newPassword

\* The table is filled from the left, with accounts that differ in their
\* identifier; the one being created is the next.
TableInv ==
  /\ \A i \in Slots : i > accountsIndex \/ bankAccounts[i].password = NoPassword
                        => bankAccounts[i] = UnusedAccount
  /\ \A i, j \in Used :
       bankAccounts[i].account_id = bankAccounts[j].account_id => i = j
  /\ \A r \in Creations : replies[r].ret_code = "RC_OK" => HasAccount(r)
  /\ \A o \in Offices :
       /\ pc[o] \in StoredPlaces \ {"unlockNew"} =>
            bankAccounts[accountsIndex] = UnusedAccount
       /\ pc[o] \in CreatingPlaces \ {"search", "unlockNew"} =>
            \A i \in Used : bankAccounts[i].account_id # tlv[o].target
       /\ pc[o] \in {"store", "lockNew", "write", "unlockNew"} => slot[o] = accountsIndex
       /\ pc[o] = "unlockNew" => HasAccount(tlv[o])

\* An office works on accounts that are there.
WorkInv ==
  \A o \in Offices :
    /\ pc[o] # "undefined"
    /\ pc[o] = "resolve" => LoginMatches(tlv[o]) # {}
    /\ pc[o] \in PayPlaces \cup ReadPlaces => index[o] \in Used
    /\ pc[o] \in DestPlaces => dest[o] \in Used

SerialInv == BasicInv /\ TableInv /\ WorkInv /\ LockDiscipline

-----------------------------------------------------------------------------
(* What holds while one office is at work.                                 *)

\* A transfer is between two accounts, of which the first is its user's and not
\* the administrator's, and keeps both in range.
PaysInRange(o) ==
  LET r == tlv[o] IN
  /\ pc[o] \in PayPlaces \cup {"resolve"} => r.account_id # ADMIN_ACCOUNT_ID
  /\ pc[o] \in PayPlaces =>
       r.target # r.account_id /\ bankAccounts[index[o]].account_id = r.account_id
  /\ pc[o] \in PayPlaces \ {"lockFunds", "funds"} =>
       bankAccounts[index[o]].balance - r.amount >= MIN_BALANCE
  /\ pc[o] \in DestPlaces => bankAccounts[dest[o]].account_id = r.target
  /\ pc[o] \in {"lockCredit", "credit"} =>
       ~TooHigh(bankAccounts[dest[o]].balance, r.amount)

RangeInv ==
  /\ \A i \in Used : bankAccounts[i].account_id # ADMIN_ACCOUNT_ID =>
       bankAccounts[i].balance \in MIN_BALANCE .. MAX_BALANCE
  /\ \A o \in Offices : PaysInRange(o)

-----------------------------------------------------------------------------
(* The constants, and searches.                                            *)

\* The accounts at the start fill the table from the left, and there is room for
\* every account that may be created.
LEMMA Room ==
  /\ MAX_BANK_ACCOUNTS \in Nat /\ Openings \in Nat \ {0}
  /\ DOMAIN Opening = 0 .. Openings - 1
  /\ IsFiniteSet(Creations) /\ Cardinality(Creations) \in Nat
  /\ Openings + Cardinality(Creations) <= MAX_BANK_ACCOUNTS
<1>1. IsFiniteSet(Creations) /\ Cardinality(Creations) \in Nat
  BY RequestsAssumption, FS_Subset, FS_CardinalityType DEF Creations
<1>2. Openings \in Nat /\ DOMAIN Opening = 0 .. Openings - 1 /\ 0 \in DOMAIN Opening
  BY AccountsAssumption, FS_CardinalityType DEF Openings
<1>3. Openings # 0
  BY <1>2
<1> QED BY <1>1, <1>2, <1>3, ArgumentsAssumption, AccountsAssumption DEF Openings

\* The loops that search the accounts stop at the lowest index that matches.
LEMMA FirstIsLeast ==
  ASSUME NEW S, S \subseteq Nat, S # {}
  PROVE  First(S) \in S /\ \A j \in S : First(S) <= j
<1>1. \E i \in S : \A j \in S : i <= j
  BY HasLeast
<1> QED BY <1>1 DEF First

\* A search finds accounts in use.
LEMMA FoundInUse ==
  ASSUME TypeOK, NEW id
  PROVE  WithID(id) \subseteq Slots /\ \A r : LoginMatches(r) \subseteq Slots
<1>1. InUse \subseteq Slots
  BY Room DEF TypeOK, InUse, Slots
<1> QED BY <1>1 DEF WithID, LoginMatches

\* Words added or subtracted, modulo their size, are words.
LEMMA WordType ==
  ASSUME NEW x \in Int
  PROVE  x % Modulus \in Word
BY WordArithmetic DEF ToWord

-----------------------------------------------------------------------------
(* Requests and the offices that work on them.                             *)

\* An office that goes on with its request keeps TakenInv if it goes where its
\* request is dealt with.
LEMMA StillTaken ==
  ASSUME TypeOK, TakenInv, NEW o \in Offices, NEW place, Goto(o, place),
         pc[o] # "idle", UNCHANGED queueVars,
         place \in CreatingPlaces => tlv[o] \in Creations,
         place \in PayPlaces => tlv[o] \in Transfers,
         place \in ReadPlaces \cup {"resolve"} => tlv[o].type \in {"OP_BALANCE", "OP_TRANSFER"}
  PROVE  TakenInv'
<1>1. pc'[o] = place /\ \A p \in Offices : p # o => pc'[p] = pc[p]
  BY DEF TypeOK, Goto
<1>2. tlv' = tlv /\ todo' = todo
  BY DEF queueVars
<1> QED BY <1>1, <1>2 DEF TakenInv

\* Every step leaves each request with one office, which does what it asks for.
LEMMA TakenKept ==
  ASSUME TypeOK, TakenInv, NEW o \in Offices, OfficeStep(o)
  PROVE  TakenInv'
<1> USE DEF CreatingPlaces, PayPlaces, ReadPlaces
<1>1. CASE TakeRequest(o)
  <2>1. PICK r \in todo : todo' = todo \ {r} /\ tlv' = [tlv EXCEPT ![o] = r]
    BY <1>1 DEF TakeRequest
  <2>2. /\ pc[o] = "idle" /\ pc'[o] = "login" /\ tlv'[o] = r
        /\ \A p \in Offices : p # o => pc'[p] = pc[p] /\ tlv'[p] = tlv[p]
    BY <1>1, <2>1 DEF TakeRequest, Goto, TypeOK
  <2> QED BY <2>1, <2>2 DEF TakenInv
<1>2. CASE Login(o)
  <2>1. tlv[o] \in Requests /\ pc[o] = "login" /\ UNCHANGED queueVars
    BY <1>2 DEF Login, TypeOK
  <2>2. CASE Goto(o, "idle")
    BY <2>1, <2>2, StillTaken
  <2>3. CASE tlv[o].type = "OP_CREATE_ACCOUNT" /\ Goto(o, "search")
    BY <2>1, <2>3, StillTaken DEF Creations
  <2>4. CASE tlv[o].type \in {"OP_BALANCE", "OP_TRANSFER"} /\ Goto(o, "resolve")
    BY <2>1, <2>4, StillTaken
  <2> QED BY <1>2, <2>2, <2>3, <2>4 DEF Login, Reply, Served
<1>3. CASE Lock(o)
  <2>1. UNCHANGED queueVars /\ pc[o] \in LockPlaces /\ Goto(o, Section[pc[o]])
    BY <1>3 DEF Lock
  <2> QED BY <2>1, StillTaken DEF LockPlaces, Section, TakenInv
<1>4. CASE SearchID(o) \/ LoadIndex(o) \/ StoreIndex(o) \/ InitLock(o) \/ PickLock(o)
             \/ WriteAccount(o) \/ UnlockNew(o)
  <2>1. /\ pc[o] \in CreatingPlaces /\ UNCHANGED queueVars
        /\ \E place \in CreatingPlaces \cup {"idle"} : Goto(o, place)
    BY <1>4 DEF SearchID, LoadIndex, StoreIndex, InitLock, PickLock, WriteAccount,
       UnlockNew, Reply, queueVars
  <2>2. tlv[o] \in Creations
    BY <2>1 DEF TakenInv
  <2> QED BY <2>1, <2>2, StillTaken
<1>5. CASE Resolve(o)
  <2>1. UNCHANGED queueVars /\ pc[o] = "resolve" /\ tlv[o] \in Requests
    BY <1>5 DEF Resolve, TypeOK
  <2>2. CASE Goto(o, "undefined")
    BY <2>1, <2>2, StillTaken
  <2>3. CASE tlv[o].type \in {"OP_BALANCE", "OP_TRANSFER"} /\ Goto(o, "lockRead")
    BY <2>1, <2>3, StillTaken
  <2>4. CASE tlv[o].type = "OP_TRANSFER" /\ Goto(o, "lockFunds")
    BY <2>1, <2>4, StillTaken DEF Transfers
  <2> QED BY <1>5, <2>2, <2>3, <2>4 DEF Resolve
<1>6. CASE CheckFunds(o) \/ FindDest(o) \/ CheckRoom(o) \/ Credit(o) \/ Debit(o)
  <2>1. /\ pc[o] \in PayPlaces /\ UNCHANGED queueVars
        /\ \E place \in {"idle", "find", "lockRoom", "lockCredit", "lockDebit", "lockRead"} :
             Goto(o, place)
    BY <1>6 DEF CheckFunds, FindDest, CheckRoom, Credit, Debit, Reply
  <2>2. tlv[o] \in Transfers /\ tlv[o].type = "OP_TRANSFER"
    BY <2>1 DEF TakenInv, Transfers
  <2> QED BY <2>1, <2>2, StillTaken
<1>7. CASE ReadBalance(o)
  <2>1. pc[o] = "read" /\ UNCHANGED queueVars /\ Goto(o, "idle")
    BY <1>7 DEF ReadBalance, Reply
  <2> QED BY <2>1, StillTaken
<1> QED BY <1>1, <1>2, <1>3, <1>4, <1>5, <1>6, <1>7 DEF OfficeStep

\* An office touches no other's place and no other's variables.
LEMMA OthersKept ==
  ASSUME TypeOK, NEW o \in Offices, OfficeStep(o), NEW p \in Offices, p # o
  PROVE  /\ pc'[p] = pc[p] /\ tlv'[p] = tlv[p]
         /\ index'[p] = index[p] /\ dest'[p] = dest[p] /\ slot'[p] = slot[p]
<1> USE DEF TypeOK, Goto, Reply, queueVars, localVars
<1>1. CASE TakeRequest(o) \/ Login(o) \/ Lock(o)
  BY <1>1 DEF TakeRequest, Login, Lock
<1>2. CASE SearchID(o) \/ LoadIndex(o) \/ StoreIndex(o) \/ InitLock(o) \/ PickLock(o)
             \/ WriteAccount(o) \/ UnlockNew(o)
  BY <1>2 DEF SearchID, LoadIndex, StoreIndex, InitLock, PickLock, WriteAccount, UnlockNew
<1>3. CASE Resolve(o) \/ CheckFunds(o) \/ FindDest(o) \/ CheckRoom(o)
  BY <1>3 DEF Resolve, CheckFunds, FindDest, CheckRoom
<1>4. CASE Credit(o) \/ Debit(o) \/ ReadBalance(o)
  BY <1>4 DEF Credit, Debit, ReadBalance
<1> QED BY <1>1, <1>2, <1>3, <1>4 DEF OfficeStep

-----------------------------------------------------------------------------
(* Answers.                                                                *)

\* A step goes on with its request, or answers it and is done with it; a creation
\* is answered with RC_OK when its account is written and otherwise with none.
LEMMA OneAnswer ==
  ASSUME TypeOK, TakenInv, NEW o \in Offices, OfficeStep(o), ~TakeRequest(o)
  PROVE  /\ UNCHANGED queueVars /\ pc[o] # "idle"
         /\ \/ /\ UNCHANGED replies
               /\ pc'[o] \in StoredPlaces <=>
                    StoreIndex(o) \/ pc[o] \in StoredPlaces \ {"unlockNew"}
               /\ pc[o] # "unlockNew"
            \/ /\ pc'[o] = "idle" /\ pc[o] \notin StoredPlaces \ {"unlockNew"} /\ ~StoreIndex(o)
               /\ \E code \in RetCodes : \E balance :
                    /\ Reply(o, code, balance)
                    /\ tlv[o] \in Creations => (code = "RC_OK" <=> pc[o] = "unlockNew")
<1> USE DEF TypeOK, Goto, StoredPlaces
<1>1. CASE Login(o)
  <2>1. \/ \E place \in {"search", "resolve"} : Goto(o, place) /\ UNCHANGED replies
        \/ \E code \in RetCodes : /\ Reply(o, code, NoBalance)
                                  /\ tlv[o] \in Creations => code # "RC_OK"
    BY <1>1 DEF Login, Creations, RetCodes
  <2>2. pc[o] = "login" /\ UNCHANGED queueVars
    BY <1>1 DEF Login
  <2> QED BY <2>1, <2>2 DEF Reply, StoreIndex
<1>2. CASE Lock(o)
  BY <1>2 DEF Lock, LockPlaces, Section, StoreIndex
<1>3. CASE SearchID(o)
  BY <1>3 DEF SearchID, Reply, RetCodes, StoreIndex
<1>4. CASE LoadIndex(o) \/ StoreIndex(o) \/ InitLock(o) \/ PickLock(o) \/ WriteAccount(o)
  BY <1>4 DEF LoadIndex, StoreIndex, InitLock, PickLock, WriteAccount, queueVars
<1>5. CASE UnlockNew(o)
  BY <1>5 DEF UnlockNew, Reply, RetCodes, StoreIndex
<1>6. CASE Resolve(o) \/ FindDest(o) \/ CheckRoom(o) \/ Credit(o) \/ Debit(o)
  BY <1>6 DEF Resolve, FindDest, CheckRoom, Credit, Debit, StoreIndex
<1>7. CASE CheckFunds(o)
  BY <1>7 DEF CheckFunds, Reply, RetCodes, StoreIndex
<1>8. CASE ReadBalance(o)
  <2>1. pc[o] = "read" /\ tlv[o] \notin Creations
    BY <1>8 DEF ReadBalance, TakenInv, ReadPlaces, Creations
  <2> QED BY <1>8, <2>1 DEF ReadBalance, Reply, StoreIndex
<1> QED BY <1>1, <1>2, <1>3, <1>4, <1>5, <1>6, <1>7, <1>8 DEF OfficeStep

\* Requests stay unanswered until they are done.
LEMMA UnansweredKept ==
  ASSUME TypeOK, TakenInv, UnansweredInv, NEW o \in Offices, OfficeStep(o)
  PROVE  UnansweredInv'
<1>1. NoReply' = NoReply
  BY DEF NoReply, NoBalance
<1>2. CASE TakeRequest(o)
  <2>1. PICK r \in todo : todo' = todo \ {r} /\ tlv' = [tlv EXCEPT ![o] = r]
    BY <1>2 DEF TakeRequest
  <2>2. replies' = replies /\ tlv'[o] = r /\ \A p \in Offices \ {o} : tlv'[p] = tlv[p] /\ pc'[p] = pc[p]
    BY <1>2, <2>1, OthersKept DEF TakeRequest, TypeOK
  <2> QED BY <1>1, <2>1, <2>2 DEF UnansweredInv
<1>3. CASE ~TakeRequest(o)
  <2>1. /\ UNCHANGED <<todo, tlv>> /\ pc[o] # "idle"
        /\ \A p \in Offices : p # o => pc'[p] = pc[p]
    BY <1>3, OneAnswer, OthersKept DEF queueVars
  <2>2. CASE UNCHANGED replies
    BY <1>1, <2>1, <2>2 DEF UnansweredInv
  <2>3. CASE pc'[o] = "idle" /\ \E code \in RetCodes : \E balance : Reply(o, code, balance)
    <3>1. \A r \in Requests : r # tlv[o] => replies'[r] = replies[r]
      BY <2>3 DEF Reply, TypeOK
    <3>2. tlv[o] \notin todo
          /\ \A p \in Offices : p # o /\ pc[p] # "idle" => tlv[p] # tlv[o] /\ tlv[p] \in Requests
      BY <2>1 DEF TakenInv, TypeOK
    <3>3. todo \subseteq Requests
      BY DEF TypeOK
    <3> QED BY <1>1, <2>1, <2>3, <3>1, <3>2, <3>3 DEF UnansweredInv
  <2> QED BY <1>3, <2>2, <2>3, OneAnswer
<1> QED BY <1>2, <1>3

-----------------------------------------------------------------------------
(* How far accountsIndex goes.                                             *)

\* The creations that have moved accountsIndex are no more than there are.
LEMMA HighestBounded ==
  /\ IsFiniteSet(Stored) /\ Cardinality(Stored) \in Nat
  /\ Highest \in Int /\ Openings - 1 <= Highest
  /\ Highest <= MAX_BANK_ACCOUNTS - 1
<1>1. IsFiniteSet(Stored) /\ Cardinality(Stored) <= Cardinality(Creations)
  BY Room, FS_Subset DEF Stored
<1>2. Cardinality(Stored) \in Nat
  BY <1>1, FS_CardinalityType
<1> QED BY <1>1, <1>2, Room DEF Highest

\* A creation joins those that have moved accountsIndex when it stores it, and
\* stays with them.
LEMMA StoredGrows ==
  ASSUME TypeOK, TakenInv, UnansweredInv, NEW o \in Offices, OfficeStep(o)
  PROVE  /\ StoreIndex(o) => tlv[o] \in Creations \ Stored /\ Stored' = Stored \cup {tlv[o]}
         /\ ~StoreIndex(o) => Stored' = Stored
<1>1. CASE TakeRequest(o)
  <2>1. PICK q \in todo : tlv' = [tlv EXCEPT ![o] = q]
    BY <1>1 DEF TakeRequest
  <2>2. /\ pc[o] = "idle" /\ pc'[o] = "login" /\ UNCHANGED replies /\ ~StoreIndex(o)
        /\ \A p \in Offices : p # o => pc'[p] = pc[p] /\ tlv'[p] = tlv[p]
    BY <1>1, OthersKept DEF TakeRequest, Goto, TypeOK, StoreIndex
  <2> QED BY <2>2 DEF Stored, Creations, StoredPlaces
<1>2. CASE ~TakeRequest(o)
  <2>1. /\ tlv' = tlv /\ pc[o] # "idle" /\ tlv[o] \in Requests
        /\ \A p \in Offices : p # o => pc'[p] = pc[p]
    BY <1>2, OneAnswer, OthersKept DEF queueVars, TypeOK
  <2>2. \A p \in Offices : p # o /\ pc[p] # "idle" => tlv[p] # tlv[o]
    BY <2>1 DEF TakenInv
  <2>3. replies[tlv[o]].ret_code # "RC_OK"
    BY <2>1 DEF UnansweredInv, NoReply
  <2>4. CASE StoreIndex(o)
    <3>1. pc[o] = "store" /\ pc'[o] = "init" /\ UNCHANGED replies
      BY <2>4 DEF StoreIndex, Goto, TypeOK
    <3>2. tlv[o] \in Creations
      BY <3>1 DEF TakenInv, CreatingPlaces
    <3>3. tlv[o] \notin Stored
      BY <2>2, <2>3, <3>1 DEF Stored, StoredPlaces
    <3>4. Stored' = Stored \cup {tlv[o]}
      BY <2>1, <3>1, <3>2 DEF Stored, StoredPlaces, Creations
    <3> QED BY <2>4, <3>2, <3>3, <3>4
  <2>5. CASE UNCHANGED replies /\ (pc'[o] \in StoredPlaces <=> pc[o] \in StoredPlaces)
             /\ ~StoreIndex(o)
    BY <2>1, <2>5 DEF Stored, Creations
  <2>6. CASE /\ pc'[o] = "idle" /\ pc[o] \notin StoredPlaces \ {"unlockNew"} /\ ~StoreIndex(o)
             /\ \E code \in RetCodes : \E balance :
                  /\ Reply(o, code, balance)
                  /\ tlv[o] \in Creations => (code = "RC_OK" <=> pc[o] = "unlockNew")
    <3>1. \A r \in Requests : r # tlv[o] => replies'[r] = replies[r]
      BY <2>6 DEF Reply, TypeOK
    <3>2. tlv[o] \in Creations => (replies'[tlv[o]].ret_code = "RC_OK" <=> pc[o] = "unlockNew")
      BY <2>1, <2>6 DEF Reply, TypeOK
    <3>3. ASSUME NEW r \in Creations
          PROVE  r \in Stored' <=> r \in Stored
      <4>1. r \in Requests
        BY DEF Creations
      <4>2. CASE r = tlv[o]
        <5>1. r \in Stored <=> pc[o] \in StoredPlaces
          BY <2>1, <2>2, <2>3, <4>2 DEF Stored, StoredPlaces
        <5>2. r \in Stored' <=> replies'[r].ret_code = "RC_OK"
          BY <2>1, <2>2, <2>6, <4>2 DEF Stored, StoredPlaces, Creations
        <5> QED BY <2>6, <3>2, <4>2, <5>1, <5>2 DEF StoredPlaces
      <4>3. CASE r # tlv[o]
        BY <2>1, <3>1, <4>1, <4>3 DEF Stored, Creations
      <4> QED BY <4>2, <4>3
    <3> QED BY <2>6, <3>3 DEF Stored, Creations
  <2> QED BY <1>2, <2>4, <2>5, <2>6, OneAnswer DEF StoredPlaces
<1> QED BY <1>1, <1>2

\* So the bound never falls, and rises by one when accountsIndex is stored.
LEMMA HighestGrows ==
  ASSUME TypeOK, TakenInv, UnansweredInv, NEW o \in Offices, OfficeStep(o)
  PROVE  /\ Highest' \in Int /\ Highest <= Highest' /\ Highest' <= MAX_BANK_ACCOUNTS - 1
         /\ StoreIndex(o) => Highest' = Highest + 1
<1>1. Highest' = Openings - 1 + Cardinality(Stored')
  BY DEF Highest, Openings
<1>2. CASE StoreIndex(o)
  <2>1. Cardinality(Stored') = Cardinality(Stored) + 1
    BY <1>2, StoredGrows, HighestBounded, FS_AddElement
  <2>2. Cardinality(Stored') <= Cardinality(Creations)
    BY Room, FS_Subset DEF Stored, Creations
  <2> QED BY <1>1, <2>1, <2>2, HighestBounded, Room DEF Highest
<1>3. CASE ~StoreIndex(o)
  <2>1. Highest' = Highest
    BY <1>1, <1>3, StoredGrows DEF Highest
  <2> QED BY <1>3, <2>1, HighestBounded
<1> QED BY <1>2, <1>3

\* Every step keeps accountsIndex, and what is held of it, within the count.
LEMMA IndexKept ==
  ASSUME TypeOK, TakenInv, UnansweredInv, IndexInv, NEW o \in Offices, OfficeStep(o)
  PROVE  IndexInv'
<1>1. Highest <= Highest' /\ (StoreIndex(o) => Highest' = Highest + 1)
  BY HighestGrows
<1>2. /\ Highest \in Int /\ Highest' \in Int
      /\ Openings \in Nat /\ Openings' = Openings
  BY HighestGrows, HighestBounded, Room DEF Openings
<1>3. accountsIndex \in Openings - 1 .. Highest /\ (Stored # {} => accountsIndex >= Openings)
  BY DEF IndexInv, IndexCounts
<1>4. CASE StoreIndex(o)
  <2>1. /\ pc[o] = "store" /\ pc'[o] = "init" /\ slot' = slot
        /\ accountsIndex' = slot[o] + 1
    BY <1>4 DEF StoreIndex, Goto, TypeOK, localVars, OneMore
  <2>2. slot[o] \in Openings - 1 .. Highest
    BY <2>1 DEF IndexInv
  <2>3. accountsIndex' \in Openings .. Highest'
    BY <1>1, <1>2, <1>4, <2>1, <2>2
  <2>4. ASSUME NEW p \in Offices, pc'[p] = "store"
        PROVE  slot'[p] \in Openings - 1 .. Highest'
    BY <1>1, <1>2, <2>1, <2>4, OthersKept DEF IndexInv
  <2> QED BY <1>2, <2>3, <2>4 DEF IndexInv, IndexCounts
<1>5. CASE ~StoreIndex(o)
  <2>1. accountsIndex' = accountsIndex
    BY <1>5 DEF OfficeStep, TakeRequest, Login, Lock, SearchID, LoadIndex, InitLock, PickLock,
       WriteAccount, UnlockNew, Resolve, CheckFunds, FindDest, CheckRoom, Credit, Debit,
       ReadBalance, tableVars
  <2>2. IndexCounts'
    BY <1>1, <1>2, <1>3, <1>5, <2>1, StoredGrows DEF IndexCounts
  <2>3. CASE LoadIndex(o)
    <3>1. slot'[o] = accountsIndex
      BY <2>3 DEF LoadIndex, TypeOK
    <3>2. ASSUME NEW p \in Offices, pc'[p] = "store"
          PROVE  slot'[p] \in Openings - 1 .. Highest'
      BY <1>1, <1>2, <1>3, <3>1, <3>2, OthersKept DEF IndexInv
    <3> QED BY <2>2, <3>2 DEF IndexInv
  <2>4. CASE ~LoadIndex(o)
    <3>1. pc'[o] # "store"
      <4> USE DEF Goto, Reply, TypeOK
      <4>1. CASE TakeRequest(o) \/ Login(o) \/ Lock(o)
        BY <4>1 DEF TakeRequest, Login, Lock, LockPlaces, Section
      <4>2. CASE SearchID(o) \/ InitLock(o) \/ PickLock(o) \/ WriteAccount(o) \/ UnlockNew(o)
        BY <4>2 DEF SearchID, InitLock, PickLock, WriteAccount, UnlockNew
      <4>3. CASE Resolve(o) \/ CheckFunds(o) \/ FindDest(o) \/ CheckRoom(o)
        BY <4>3 DEF Resolve, CheckFunds, FindDest, CheckRoom
      <4>4. CASE Credit(o) \/ Debit(o) \/ ReadBalance(o)
        BY <4>4 DEF Credit, Debit, ReadBalance
      <4> QED BY <1>5, <2>4, <4>1, <4>2, <4>3, <4>4 DEF OfficeStep
    <3>2. ASSUME NEW p \in Offices, pc'[p] = "store"
          PROVE  slot'[p] \in Openings - 1 .. Highest'
      BY <1>1, <1>2, <3>1, <3>2, OthersKept DEF IndexInv
    <3> QED BY <2>2, <3>2 DEF IndexInv
  <2> QED BY <2>3, <2>4
<1> QED BY <1>4, <1>5

-----------------------------------------------------------------------------
(* Type correctness.                                                       *)

\* A balance that is stored is a word, and storing it changes nothing else.
LEMMA BalanceStored ==
  ASSUME TypeOK, NEW i \in Slots, NEW balance \in Int, SetBalance(i, balance)
  PROVE  /\ bankAccounts' \in [Slots -> Account]
         /\ bankAccounts'[i].balance = balance % Modulus
         /\ \A j \in Slots : /\ bankAccounts'[j].account_id = bankAccounts[j].account_id
                             /\ bankAccounts'[j].password = bankAccounts[j].password
                             /\ j # i => bankAccounts'[j] = bankAccounts[j]
<1>1. balance % Modulus \in Word
  BY WordType
<1>2. bankAccounts[i] \in Account /\ bankAccounts \in [Slots -> Account]
  BY DEF TypeOK
<1>3. bankAccounts' = [bankAccounts EXCEPT ![i] = [@ EXCEPT !.balance = balance % Modulus]]
  BY DEF SetBalance
<1>4. bankAccounts' = [bankAccounts EXCEPT ![i] =
                         [bankAccounts[i] EXCEPT !.balance = balance % Modulus]]
  BY <1>2, <1>3
<1>5. [bankAccounts[i] EXCEPT !.balance = balance % Modulus] \in Account
  BY <1>1, <1>2 DEF Account
<1> QED BY <1>2, <1>4, <1>5 DEF Account

\* Every reply is one.
LEMMA ReplyType ==
  ASSUME TypeOK, NEW o \in Offices, NEW code \in RetCodes,
         NEW balance \in Word \cup {NoBalance}, Reply(o, code, balance)
  PROVE  /\ replies' \in [Requests -> [ret_code : RetCodes \cup {"none"},
                                       balance  : Word \cup {NoBalance}]]
         /\ pc' \in [Offices -> Places]
<1>1. "idle" \in Places
  BY DEF Places
<1> QED BY <1>1 DEF TypeOK, Reply, Goto

\* The lock that an office takes or holds is one there is.
LEMMA LockIndexType ==
  ASSUME TypeOK, NEW o \in Offices
  PROVE  LockIndex(o) \in Slots
BY DEF TypeOK, LockIndex

\* Every step keeps the types.
LEMMA TypeKept ==
  ASSUME TypeOK, TakenInv, UnansweredInv, IndexInv, NEW o \in Offices, OfficeStep(o)
  PROVE  TypeOK'
<1> DEFINE Answers == [Requests -> [ret_code : RetCodes \cup {"none"},
                                    balance  : Word \cup {NoBalance}]]
<1>1. accountsIndex' \in Slots
  <2>1. IndexInv'
    BY IndexKept
  <2>2. Highest' \in Int /\ Highest' <= MAX_BANK_ACCOUNTS - 1 /\ Openings' = Openings
    BY HighestGrows DEF Openings
  <2> QED BY <2>1, <2>2, Room DEF IndexInv, IndexCounts, Slots
<1>2. accountsIndex \in Slots /\ Nobody \in Offices \cup {Nobody} /\ o \in Offices \cup {Nobody}
  BY DEF TypeOK
<1>3. /\ NoBalance \in Word \cup {NoBalance} /\ tlv[o] \in RequestType
      /\ tlv[o].amount \in Word /\ tlv[o].amount \in Int
  BY RequestsAssumption, ArgumentsAssumption DEF TypeOK, RequestType, Word
<1>4. \A i \in Slots : bankAccounts[i].balance \in Word /\ bankAccounts[i].balance \in Int
  BY ArgumentsAssumption DEF TypeOK, Account, Word
<1>5. \A p \in {"idle", "login", "search", "load", "store", "init", "pick", "unlockNew", "resolve",
                "find", "undefined", "lockFunds", "lockRoom", "lockCredit", "lockDebit", "lockRead",
                "lockNew", "funds", "room", "credit", "debit", "read", "write"} : p \in Places
  BY DEF Places, LockPlaces, Section
<1>6. CASE TakeRequest(o)
  BY <1>5, <1>6 DEF TakeRequest, TypeOK, Goto, tableVars, localVars
<1>7. CASE Login(o)
  <2>1. UNCHANGED <<tableVars, queueVars, localVars>>
    BY <1>7 DEF Login
  <2>2. \/ \E code \in RetCodes : Reply(o, code, NoBalance)
        \/ \E place \in {"search", "resolve"} : Goto(o, place) /\ UNCHANGED replies
    BY <1>7 DEF Login, RetCodes
  <2>3. replies' \in Answers /\ pc' \in [Offices -> Places]
    BY <1>3, <1>5, <2>2, ReplyType DEF Goto, TypeOK
  <2> QED BY <2>1, <2>3 DEF TypeOK, tableVars, queueVars, localVars
<1>8. CASE Lock(o)
  <2>1. Section[pc[o]] \in Places
    BY <1>8 DEF Lock, Places
  <2> QED BY <1>2, <1>8, <2>1 DEF Lock, TypeOK, Goto, queueVars, localVars
<1>9. CASE SearchID(o)
  <2>1. "RC_ID_IN_USE" \in RetCodes
    BY DEF RetCodes
  <2>2. replies' \in Answers /\ pc' \in [Offices -> Places]
    BY <1>3, <1>5, <1>9, <2>1, ReplyType DEF SearchID, Goto, TypeOK
  <2> QED BY <1>9, <2>2 DEF SearchID, TypeOK, tableVars, queueVars, localVars
<1>10. CASE LoadIndex(o) \/ PickLock(o)
  BY <1>2, <1>5, <1>10 DEF LoadIndex, PickLock, TypeOK, Goto, tableVars, queueVars
<1>11. CASE StoreIndex(o) \/ InitLock(o)
  BY <1>1, <1>2, <1>5, <1>11
     DEF StoreIndex, InitLock, TypeOK, Goto, Unlock, queueVars, localVars
<1>12. CASE WriteAccount(o)
  <2>1. tlv[o] \in Creations
    BY <1>12 DEF WriteAccount, TakenInv, CreatingPlaces
  <2>2. [account_id |-> tlv[o].target, password |-> tlv[o].newPassword,
         balance |-> tlv[o].amount] \in Account
    BY <1>3, <2>1, RequestsAssumption DEF RequestType, Account
  <2> QED BY <1>2, <1>5, <1>12, <2>2
      DEF WriteAccount, TypeOK, Goto, NewSlot, queueVars, localVars
<1>13. CASE UnlockNew(o)
  <2>1. "RC_OK" \in RetCodes
    BY DEF RetCodes
  <2>2. replies' \in Answers /\ pc' \in [Offices -> Places]
    BY <1>3, <1>13, <2>1, ReplyType DEF UnlockNew
  <2> QED BY <1>2, <1>13, <2>2 DEF UnlockNew, TypeOK, Unlock, queueVars, localVars
<1>14. CASE Resolve(o)
  <2>1. LoginMatches(tlv[o]) # {} => First(LoginMatches(tlv[o])) \in Slots
    BY FoundInUse, FirstIsLeast DEF Slots
  <2>2. index' \in [Offices -> Slots]
    BY <1>14, <2>1 DEF Resolve, TypeOK
  <2>3. UNCHANGED ret_code \/ \E code \in {"RC_OK", "RC_SAME_ID"} : Return(o, code)
    BY <1>14 DEF Resolve
  <2>4. ret_code' \in [Offices -> RetCodes]
    BY <2>3 DEF Return, TypeOK, RetCodes
  <2>5. \E place \in {"undefined", "lockRead", "lockFunds"} : Goto(o, place)
    BY <1>14 DEF Resolve
  <2>6. pc' \in [Offices -> Places]
    BY <1>5, <2>5 DEF Goto, TypeOK
  <2> QED BY <1>14, <2>2, <2>4, <2>6 DEF Resolve, TypeOK, tableVars, queueVars
<1>15. CASE CheckFunds(o)
  <2>1. "RC_NO_FUNDS" \in RetCodes /\ bankAccounts[index[o]].balance \in Word \cup {NoBalance}
    BY <1>4 DEF RetCodes, TypeOK
  <2>2. replies' \in Answers /\ pc' \in [Offices -> Places]
    BY <1>5, <1>15, <2>1, ReplyType DEF CheckFunds, Goto, TypeOK
  <2> QED BY <1>2, <1>15, <2>2 DEF CheckFunds, TypeOK, Unlock, queueVars, localVars
<1>16. CASE FindDest(o)
  <2>1. WithID(tlv[o].target) # {} => First(WithID(tlv[o].target)) \in Slots
    BY FoundInUse, FirstIsLeast DEF Slots
  <2>2. dest' \in [Offices -> Slots]
    BY <1>16, <2>1 DEF FindDest, TypeOK
  <2>3. ret_code' \in [Offices -> RetCodes] /\ pc' \in [Offices -> Places]
    BY <1>5, <1>16 DEF FindDest, Return, Goto, TypeOK, RetCodes
  <2> QED BY <1>16, <2>2, <2>3 DEF FindDest, TypeOK, tableVars, queueVars
<1>17. CASE CheckRoom(o)
  <2>1. ret_code' \in [Offices -> RetCodes] /\ pc' \in [Offices -> Places]
    BY <1>5, <1>17 DEF CheckRoom, Return, Goto, TypeOK, RetCodes
  <2> QED BY <1>2, <1>17, <2>1 DEF CheckRoom, TypeOK, Unlock, queueVars
<1>18. CASE Credit(o)
  <2>1. dest[o] \in Slots /\ bankAccounts[dest[o]].balance + tlv[o].amount \in Int
    BY <1>3, <1>4 DEF TypeOK
  <2>2. bankAccounts' \in [Slots -> Account]
    BY <1>18, <2>1, BalanceStored DEF Credit
  <2> QED BY <1>2, <1>5, <1>18, <2>2 DEF Credit, TypeOK, Goto, Unlock, queueVars, localVars
<1>19. CASE Debit(o)
  <2>1. index[o] \in Slots /\ bankAccounts[index[o]].balance - tlv[o].amount \in Int
    BY <1>3, <1>4 DEF TypeOK
  <2>2. bankAccounts' \in [Slots -> Account]
    BY <1>19, <2>1, BalanceStored DEF Debit, Source
  <2>3. ret_code' \in [Offices -> RetCodes]
    BY <1>19 DEF Debit, Return, TypeOK, RetCodes
  <2> QED BY <1>2, <1>5, <1>19, <2>2, <2>3 DEF Debit, TypeOK, Goto, Unlock, queueVars
<1>20. CASE ReadBalance(o)
  <2>1. ret_code[o] \in RetCodes /\ bankAccounts[index[o]].balance \in Word \cup {NoBalance}
    BY <1>4 DEF TypeOK
  <2>2. replies' \in Answers /\ pc' \in [Offices -> Places]
    BY <1>20, <2>1, ReplyType DEF ReadBalance
  <2> QED BY <1>2, <1>20, <2>2 DEF ReadBalance, TypeOK, Unlock, queueVars, localVars
<1> QED BY <1>6, <1>7, <1>8, <1>9, <1>10, <1>11, <1>12, <1>13, <1>14, <1>15, <1>16, <1>17,
           <1>18, <1>19, <1>20 DEF OfficeStep

\* An account being made lies behind those of the start.
LEMMA BeingMade ==
  ASSUME TypeOK, TakenInv, IndexInv, NEW o \in Offices, pc[o] \in StoredPlaces
  PROVE  accountsIndex >= Openings
<1>1. tlv[o] \in Creations
  BY DEF TakenInv, StoredPlaces, CreatingPlaces
<1> QED BY <1>1 DEF Stored, IndexInv, IndexCounts

\* No step writes over an account of the start: a new one goes behind them.
LEMMA OpeningStays ==
  ASSUME BasicInv, NEW o \in Offices, OfficeStep(o)
  PROVE  OpeningKept'
<1> USE DEF BasicInv
<1>1. DOMAIN Opening \subseteq Slots
  BY Room DEF Slots
<1>2. CASE WriteAccount(o)
  <2>1. accountsIndex \notin DOMAIN Opening /\ accountsIndex \in Slots
    BY <1>2, Room, BeingMade DEF WriteAccount, StoredPlaces, TypeOK
  <2>2. \A i \in DOMAIN Opening : bankAccounts'[i] = bankAccounts[i]
    BY <1>1, <1>2, <2>1 DEF WriteAccount, NewSlot, TypeOK
  <2> QED BY <2>2 DEF OpeningKept
<1>3. CASE Credit(o) \/ Debit(o)
  <2>1. tlv[o].amount \in Int /\ \A i \in Slots : bankAccounts[i].balance \in Int
    BY RequestsAssumption, ArgumentsAssumption DEF TypeOK, RequestType, Account, Word
  <2>2. index[o] \in Slots /\ dest[o] \in Slots
    BY DEF TypeOK
  <2>3. \E i \in Slots, balance \in Int : SetBalance(i, balance)
    BY <1>3, <2>1, <2>2 DEF Credit, Debit, Source
  <2> QED BY <1>1, <2>3, BalanceStored DEF OpeningKept
<1>4. CASE ~WriteAccount(o) /\ ~Credit(o) /\ ~Debit(o)
  <2>1. bankAccounts' = bankAccounts
    BY <1>4 DEF OfficeStep, TakeRequest, Login, Lock, SearchID, LoadIndex, StoreIndex, InitLock,
       PickLock, UnlockNew, Resolve, CheckFunds, FindDest, CheckRoom, ReadBalance, tableVars
  <2> QED BY <2>1 DEF OpeningKept
<1> QED BY <1>2, <1>3, <1>4

-----------------------------------------------------------------------------
(* What follows, however creations overlap.                                *)

\* It holds at the start.
LEMMA BasicAtStart == Init => BasicInv
<1> SUFFICES ASSUME Init
             PROVE  BasicInv
  OBVIOUS
<1>1. Openings - 1 \in Slots /\ DOMAIN Opening \subseteq Slots
  BY Room DEF Slots
<1>2. UnusedAccount \in Account /\ 0 \in Slots
  BY Room, ArgumentsAssumption DEF UnusedAccount, Account, AccountIDs, Word, Slots
<1>3. bankAccounts \in [Slots -> Account]
  BY <1>1, <1>2, OpeningAssumption DEF Init
<1>4. "idle" \in Places /\ "RC_OK" \in RetCodes /\ NoReply \in
        [ret_code : RetCodes \cup {"none"}, balance : Word \cup {NoBalance}]
  BY DEF Places, RetCodes, NoReply
<1>5. (CHOOSE r \in Requests : TRUE) \in Requests
  BY RequestsAssumption
<1>6. accountsIndex \in Slots
  BY <1>1 DEF Init, Openings
<1>7. TypeOK
  BY <1>2, <1>3, <1>4, <1>5, <1>6 DEF Init, TypeOK
<1>8. TakenInv
  BY DEF Init, TakenInv, CreatingPlaces, PayPlaces, ReadPlaces
<1>9. IndexInv
  <2>1. Stored = {}
    BY DEF Init, Stored, StoredPlaces, NoReply, Creations
  <2> QED BY <2>1, HighestBounded, Room DEF Init, IndexInv, IndexCounts, Openings
<1>10. OpeningKept
  BY <1>1 DEF Init, OpeningKept
<1>11. UnansweredInv
  BY DEF Init, UnansweredInv, TypeOK
<1> QED BY <1>7, <1>8, <1>9, <1>10, <1>11 DEF BasicInv

\* Every step keeps it.
LEMMA BasicKept == BasicInv /\ [Next]_vars => BasicInv'
<1>1. ASSUME BasicInv, NEW o \in Offices, OfficeStep(o)
      PROVE  BasicInv'
  BY <1>1, TypeKept, TakenKept, UnansweredKept, IndexKept, OpeningStays DEF BasicInv
<1>2. ASSUME BasicInv, UNCHANGED vars
      PROVE  BasicInv'
  BY <1>2 DEF vars, tableVars, localVars, queueVars, BasicInv, TypeOK, TakenInv, IndexInv,
     UnansweredInv, NoReply, NoBalance, IndexCounts, OpeningKept, Highest, Stored, Openings, Creations
<1> QED BY <1>1, <1>2 DEF Next

\* So it holds always.
LEMMA BasicHolds == Spec => []BasicInv
BY BasicAtStart, BasicKept, PTL DEF Spec

\* Every reachable state is well typed, however creations race, as long as there
\* are no more of them than the table has room for: that is assumed, as the code
\* does not test it.  (AccountsAssumption)
THEOREM AccountsTypeCorrect == Spec => []TypeOK
BY BasicHolds, PTL DEF BasicInv

\* Whatever offices read and write of accountsIndex without a lock, it lies behind
\* the accounts of the start once a creation has moved it, and is no more than one
\* for each creation that was confirmed or is about to be: a race may lose an
\* increment but never adds one, and what is refused uses no room.
\* (accountsIndex++ in createNewAccount)
THEOREM IndexCountsCreations == Spec => []IndexCounts
BY BasicHolds, PTL DEF BasicInv, IndexInv

\* Accounts of the start are never overwritten, however creations race for
\* accountsIndex: only accounts made since can be lost.
THEOREM OpeningSurvives == Spec => []OpeningKept
BY BasicHolds, PTL DEF BasicInv

-----------------------------------------------------------------------------
(* Locks, while creations do not overlap.                                  *)

\* The places at which an office holds a lock.
LEMMA Holding == HoldingPlaces = {"funds", "room", "credit", "debit", "read", "write", "unlockNew"}
BY DEF HoldingPlaces, LockPlaces, Section

\* LockDiscipline, office by office.
LEMMA Holds ==
  ASSUME LockDiscipline, NEW i \in Slots, NEW p \in Offices
  PROVE  accountLocks[i] = p <=> pc[p] \in HoldingPlaces /\ LockIndex(p) = i
<1>1. p \in {q \in Offices : accountLocks[i] = q}
        <=> p \in {q \in Offices : pc[q] \in HoldingPlaces /\ LockIndex(q) = i}
  BY DEF LockDiscipline
<1> QED BY <1>1

\* An office that holds a lock keeps LockDiscipline when it lets it go.
LEMMA Released ==
  ASSUME TypeOK, LockDiscipline, NEW o \in Offices, OfficeStep(o),
         pc[o] \in HoldingPlaces, pc'[o] \notin HoldingPlaces, Unlock(LockIndex(o))
  PROVE  LockDiscipline'
<1>1. LockIndex(o) \in Slots /\ accountLocks[LockIndex(o)] = o
  BY LockIndexType, Holds
<1>2. SUFFICES ASSUME NEW i \in Slots', NEW p \in Offices
               PROVE  accountLocks'[i] = p <=> pc'[p] \in HoldingPlaces /\ LockIndex(p)' = i
  BY DEF LockDiscipline, HoldingPlaces, LockPlaces, Section
<1>3. i \in Slots /\ (accountLocks[i] = p <=> pc[p] \in HoldingPlaces /\ LockIndex(p) = i)
  BY Holds DEF Slots
<1>4. accountLocks'[i] = IF i = LockIndex(o) THEN Nobody ELSE accountLocks[i]
  BY <1>1, <1>3 DEF Unlock, TypeOK
<1>5. CASE p = o
  BY <1>1, <1>3, <1>4, <1>5, AccountsAssumption
<1>6. CASE p # o
  <2>1. pc'[p] = pc[p] /\ LockIndex(p)' = LockIndex(p)
    BY <1>6, OthersKept DEF LockIndex
  <2> QED BY <1>1, <1>3, <1>4, <1>6, <2>1, AccountsAssumption
<1> QED BY <1>5, <1>6

\* So does one that holds none and leaves the locks alone.
LEMMA LocksLeftAlone ==
  ASSUME TypeOK, LockDiscipline, NEW o \in Offices, OfficeStep(o), UNCHANGED accountLocks,
         \/ pc[o] \notin HoldingPlaces /\ pc'[o] \notin HoldingPlaces
         \/ pc[o] = "write" /\ pc'[o] = "unlockNew" /\ slot' = slot
  PROVE  LockDiscipline'
<1>2. SUFFICES ASSUME NEW i \in Slots', NEW p \in Offices
               PROVE  accountLocks'[i] = p <=> pc'[p] \in HoldingPlaces /\ LockIndex(p)' = i
  BY DEF LockDiscipline, HoldingPlaces, LockPlaces, Section
<1>3. i \in Slots /\ (accountLocks[i] = p <=> pc[p] \in HoldingPlaces /\ LockIndex(p) = i)
  BY Holds DEF Slots
<1>5. CASE p = o
  <2>1. CASE pc[o] \notin HoldingPlaces /\ pc'[o] \notin HoldingPlaces
    BY <1>3, <1>5, <2>1
  <2>2. CASE pc[o] = "write" /\ pc'[o] = "unlockNew" /\ slot' = slot
    BY <1>3, <1>5, <2>2, Holding DEF LockIndex
  <2> QED BY <2>1, <2>2
<1>6. CASE p # o
  <2>1. pc'[p] = pc[p] /\ LockIndex(p)' = LockIndex(p)
    BY <1>6, OthersKept DEF LockIndex
  <2> QED BY <1>3, <2>1
<1> QED BY <1>5, <1>6

\* So does one that takes a lock, for it waits until nobody holds it.
LEMMA Locked ==
  ASSUME TypeOK, LockDiscipline, NEW o \in Offices, Lock(o)
  PROVE  LockDiscipline'
<1>0. OfficeStep(o)
  BY DEF OfficeStep
<1>1. LockIndex(o) \in Slots /\ accountLocks[LockIndex(o)] = Nobody
  BY LockIndexType DEF Lock
<1>2. SUFFICES ASSUME NEW i \in Slots', NEW p \in Offices
               PROVE  accountLocks'[i] = p <=> pc'[p] \in HoldingPlaces /\ LockIndex(p)' = i
  BY DEF LockDiscipline, HoldingPlaces, LockPlaces, Section
<1>3. i \in Slots /\ (accountLocks[i] = p <=> pc[p] \in HoldingPlaces /\ LockIndex(p) = i)
  BY Holds DEF Slots
<1>4. accountLocks'[i] = IF i = LockIndex(o) THEN o ELSE accountLocks[i]
  BY <1>1, <1>3 DEF Lock, TypeOK
<1>5. CASE p = o
  <2>1. pc'[o] = Section[pc[o]] /\ pc[o] \in LockPlaces
    BY DEF Lock, Goto, TypeOK
  <2>2. pc'[o] \in HoldingPlaces /\ pc[o] \notin HoldingPlaces
    BY <2>1, Holding DEF LockPlaces, Section
  <2>3. LockIndex(o)' = LockIndex(o)
    BY <2>1 DEF Lock, LockIndex, localVars, LockPlaces, Section
  <2> QED BY <1>1, <1>3, <1>4, <1>5, <2>2, <2>3
<1>6. CASE p # o
  <2>1. pc'[p] = pc[p] /\ LockIndex(p)' = LockIndex(p)
    BY <1>0, <1>6, OthersKept DEF LockIndex
  <2> QED BY <1>1, <1>3, <1>4, <1>6, <2>1, AccountsAssumption
<1> QED BY <1>5, <1>6

\* The lock that createNewAccount initialises is held by nobody: its account is
\* not used yet, and an office holds the lock of an account that is, or of the
\* one it creates.
LEMMA NewLockIsFree ==
  ASSUME SerialInv, OneCreation, NEW o \in Offices, pc[o] = "init"
  PROVE  accountLocks[accountsIndex] = Nobody
<1> USE DEF SerialInv, BasicInv
<1>1. accountsIndex \in Slots /\ accountsIndex \notin Used
  <2>1. bankAccounts[accountsIndex] = UnusedAccount
    BY DEF TableInv, StoredPlaces
  <2> QED BY <2>1 DEF Used, UnusedAccount, TypeOK
<1>2. ASSUME NEW p \in Offices, accountLocks[accountsIndex] = p
      PROVE  FALSE
  <2>1. pc[p] \in HoldingPlaces /\ LockIndex(p) = accountsIndex
    BY <1>1, <1>2, Holds
  <2>2. pc[p] \notin {"write", "unlockNew"}
    BY <2>1 DEF OneCreation, CreatingPlaces
  <2>3. LockIndex(p) \in Used
    BY <2>1, <2>2, Holding DEF LockIndex, WorkInv, PayPlaces, ReadPlaces, DestPlaces
  <2> QED BY <1>1, <2>1, <2>3
<1> QED BY <1>1, <1>2 DEF TypeOK

\* Every step keeps LockDiscipline.
LEMMA LocksKept ==
  ASSUME SerialInv, OneCreation, NEW o \in Offices, OfficeStep(o)
  PROVE  LockDiscipline'
<1> USE DEF SerialInv, BasicInv
<1>1. CASE Lock(o)
  BY <1>1, Locked
<1>2. CASE InitLock(o)
  <2>1. accountLocks' = accountLocks
    BY <1>2, NewLockIsFree DEF InitLock, Unlock, TypeOK
  <2>2. pc[o] \notin HoldingPlaces /\ pc'[o] \notin HoldingPlaces
    BY <1>2, Holding DEF InitLock, Goto, TypeOK
  <2> QED BY <2>1, <2>2, LocksLeftAlone
<1>3. CASE TakeRequest(o) \/ Login(o) \/ SearchID(o) \/ LoadIndex(o) \/ StoreIndex(o)
             \/ PickLock(o) \/ Resolve(o) \/ FindDest(o)
  <2>1. accountLocks' = accountLocks
    BY <1>3 DEF TakeRequest, Login, SearchID, LoadIndex, StoreIndex, PickLock, Resolve, FindDest,
       tableVars
  <2>2. pc[o] \notin HoldingPlaces
    BY <1>3, Holding
       DEF TakeRequest, Login, SearchID, LoadIndex, StoreIndex, PickLock, Resolve, FindDest
  <2>3. \E place \in Places \ HoldingPlaces : Goto(o, place)
    BY <1>3, Holding
       DEF TakeRequest, Login, SearchID, LoadIndex, StoreIndex, PickLock, Resolve, FindDest, Reply,
           Places, LockPlaces, Section
  <2>4. pc'[o] \notin HoldingPlaces
    BY <2>3 DEF Goto, TypeOK
  <2> QED BY <2>1, <2>2, <2>4, LocksLeftAlone
<1>4. CASE WriteAccount(o)
  BY <1>4, LocksLeftAlone DEF WriteAccount, Goto, TypeOK, localVars
<1>5. CASE UnlockNew(o) \/ CheckFunds(o) \/ CheckRoom(o) \/ Credit(o) \/ Debit(o) \/ ReadBalance(o)
  <2>1. pc[o] \in HoldingPlaces
    BY <1>5, Holding DEF UnlockNew, CheckFunds, CheckRoom, Credit, Debit, ReadBalance
  <2>2. \E place \in {"idle", "find", "lockRead", "lockCredit", "lockDebit"} : Goto(o, place)
    BY <1>5 DEF UnlockNew, CheckFunds, CheckRoom, Credit, Debit, ReadBalance, Reply
  <2>3. pc'[o] \notin HoldingPlaces
    BY <2>2, Holding DEF Goto, TypeOK
  <2>4. Unlock(LockIndex(o))
    <3>1. CASE UnlockNew(o)
      BY <3>1 DEF UnlockNew, LockIndex, TableInv
    <3>2. CASE ~UnlockNew(o)
      BY <1>5, <3>2 DEF LockIndex, CheckFunds, CheckRoom, Credit, Debit, ReadBalance
    <3> QED BY <3>1, <3>2
  <2> QED BY <2>1, <2>3, <2>4, Released
<1> QED BY <1>1, <1>2, <1>3, <1>4, <1>5 DEF OfficeStep

-----------------------------------------------------------------------------
(* The table, while creations do not overlap.                              *)

\* What no step does to the accounts in use: it leaves them in use, with their
\* identifier and password.
LEMMA UsedStay ==
  ASSUME SerialInv, NEW o \in Offices, OfficeStep(o)
  PROVE  \A i \in Used : /\ i \in Used'
                         /\ bankAccounts'[i].account_id = bankAccounts[i].account_id
                         /\ bankAccounts'[i].password = bankAccounts[i].password
<1> USE DEF SerialInv, BasicInv
<1>1. Used \subseteq Slots
  BY Room DEF Used, InUse, Slots, TypeOK
<1>2. CASE StoreIndex(o)
  <2>1. pc[o] = "store" /\ bankAccounts' = bankAccounts /\ accountsIndex' = slot[o] + 1
    BY <1>2 DEF StoreIndex, OneMore
  <2>2. accountsIndex \in Nat /\ accountsIndex' = accountsIndex + 1
    BY <2>1 DEF TableInv, TypeOK, Slots
  <2> QED BY <2>1, <2>2 DEF Used, InUse
<1>3. CASE WriteAccount(o)
  <2>1. pc[o] = "write" /\ accountsIndex' = accountsIndex /\ accountsIndex \in Slots
    BY <1>3 DEF WriteAccount, TypeOK
  <2>2. bankAccounts[accountsIndex] = UnusedAccount
    BY <2>1 DEF TableInv, StoredPlaces
  <2>3. accountsIndex \notin Used
    BY <2>2 DEF Used, UnusedAccount
  <2>4. \A i \in Used : bankAccounts'[i] = bankAccounts[i]
    BY <1>1, <1>3, <2>1, <2>3 DEF WriteAccount, NewSlot, TypeOK
  <2> QED BY <2>1, <2>4 DEF Used, InUse
<1>4. CASE Credit(o) \/ Debit(o)
  <2>1. tlv[o].amount \in Int /\ \A i \in Slots : bankAccounts[i].balance \in Int
    BY RequestsAssumption, ArgumentsAssumption DEF TypeOK, RequestType, Account, Word
  <2>2. index[o] \in Slots /\ dest[o] \in Slots
    BY DEF TypeOK
  <2>3. \E i \in Slots, balance \in Int : SetBalance(i, balance)
    BY <1>4, <2>1, <2>2 DEF Credit, Debit, Source
  <2>4. accountsIndex' = accountsIndex
    BY <1>4 DEF Credit, Debit
  <2> QED BY <1>1, <2>3, <2>4, BalanceStored DEF Used, InUse
<1>5. CASE ~StoreIndex(o) /\ ~WriteAccount(o) /\ ~Credit(o) /\ ~Debit(o)
  <2>1. bankAccounts' = bankAccounts /\ accountsIndex' = accountsIndex
    BY <1>5 DEF OfficeStep, TakeRequest, Login, Lock, SearchID, LoadIndex, InitLock,
       PickLock, UnlockNew, Resolve, CheckFunds, FindDest, CheckRoom, ReadBalance, tableVars
  <2> QED BY <2>1 DEF Used, InUse
<1> QED BY <1>2, <1>3, <1>4, <1>5

\* Most steps leave accountsIndex alone, and every account unused that was: a
\* transfer changes the balance of accounts in use.
LEMMA TableStays ==
  ASSUME SerialInv, NEW o \in Offices, OfficeStep(o), ~StoreIndex(o), ~WriteAccount(o)
  PROVE  /\ accountsIndex' = accountsIndex /\ Used' = Used
         /\ \A i \in Slots : /\ bankAccounts'[i].account_id = bankAccounts[i].account_id
                             /\ bankAccounts'[i].password = bankAccounts[i].password
                             /\ bankAccounts[i] = UnusedAccount => bankAccounts'[i] = UnusedAccount
<1> USE DEF SerialInv, BasicInv
<1>1. InUse \subseteq Slots
  BY Room DEF InUse, Slots, TypeOK
<1>2. CASE Credit(o) \/ Debit(o)
  <2>1. tlv[o].amount \in Int /\ \A i \in Slots : bankAccounts[i].balance \in Int
    BY RequestsAssumption, ArgumentsAssumption DEF TypeOK, RequestType, Account, Word
  <2>2. PICK i \in Used, balance \in Int : SetBalance(i, balance)
    <3>1. CASE Credit(o)
      <4>1. dest[o] \in Used /\ dest[o] \in Slots
        BY <3>1 DEF Credit, WorkInv, DestPlaces, TypeOK
      <4> QED BY <2>1, <3>1, <4>1 DEF Credit
    <3>2. CASE Debit(o)
      <4>1. index[o] \in Used /\ index[o] \in Slots
        BY <3>2 DEF Debit, WorkInv, PayPlaces, TypeOK
      <4> QED BY <2>1, <3>2, <4>1 DEF Debit, Source
    <3> QED BY <1>2, <3>1, <3>2
  <2>3. accountsIndex' = accountsIndex
    BY <1>2 DEF Credit, Debit
  <2>4. i \in Slots /\ bankAccounts[i] # UnusedAccount
    BY <1>1, <2>2 DEF Used, UnusedAccount
  <2> QED BY <1>1, <2>2, <2>3, <2>4, BalanceStored DEF Used, InUse
<1>3. CASE ~Credit(o) /\ ~Debit(o)
  <2>1. bankAccounts' = bankAccounts /\ accountsIndex' = accountsIndex
    BY <1>3 DEF OfficeStep, TakeRequest, Login, Lock, SearchID, LoadIndex, InitLock,
       PickLock, UnlockNew, Resolve, CheckFunds, FindDest, CheckRoom, ReadBalance, tableVars
  <2> QED BY <2>1 DEF Used, InUse
<1> QED BY <1>2, <1>3

\* An account that a creation was confirmed for stays.
LEMMA AccountStays ==
  ASSUME SerialInv, NEW o \in Offices, OfficeStep(o), NEW r, HasAccount(r)
  PROVE  HasAccount(r)'
BY UsedStay DEF HasAccount

\* A creation is confirmed by the office that stored its account.
LEMMA ConfirmedIsThere ==
  ASSUME SerialInv, NEW o \in Offices, OfficeStep(o),
         NEW r \in Creations, replies'[r].ret_code = "RC_OK"
  PROVE  HasAccount(r)'
<1> USE DEF SerialInv, BasicInv
<1>1. CASE replies'[r] = replies[r]
  BY <1>1, AccountStays DEF TableInv
<1>2. CASE replies'[r] # replies[r]
  <2>1. r \in Requests /\ r.type = "OP_CREATE_ACCOUNT"
    BY DEF Creations
  <2>2. PICK code, balance : Reply(o, code, balance)
    BY <1>2 DEF OfficeStep, TakeRequest, Login, Lock, SearchID, LoadIndex, StoreIndex, InitLock,
       PickLock, WriteAccount, UnlockNew, Resolve, CheckFunds, FindDest, CheckRoom, Credit, Debit,
       ReadBalance
  <2>3. r = tlv[o] /\ code = "RC_OK"
    BY <1>2, <2>1, <2>2 DEF Reply, TypeOK
  <2>4. pc'[o] = "idle" /\ replies'[tlv[o]].ret_code = "RC_OK"
    BY <2>2, <2>3 DEF Reply, Goto, TypeOK
  <2>5. CASE Login(o)
    BY <2>1, <2>3, <2>4, <2>5 DEF Login, Reply, Goto, TypeOK
  <2>6. CASE UnlockNew(o)
    BY <2>3, <2>6, AccountStays DEF UnlockNew, TableInv
  <2>7. CASE ReadBalance(o)
    BY <2>1, <2>3, <2>7 DEF ReadBalance, TakenInv, ReadPlaces
  <2>8. CASE SearchID(o) \/ CheckFunds(o)
    BY <2>1, <2>3, <2>4, <2>8 DEF SearchID, CheckFunds, Reply, Goto, TypeOK
  <2>9. CASE ~Login(o) /\ ~UnlockNew(o) /\ ~ReadBalance(o) /\ ~SearchID(o) /\ ~CheckFunds(o)
    BY <1>2, <2>9 DEF OfficeStep, TakeRequest, Lock, LoadIndex, StoreIndex, InitLock,
       PickLock, WriteAccount, Resolve, FindDest, CheckRoom, Credit, Debit
  <2> QED BY <2>5, <2>6, <2>7, <2>8, <2>9
<1> QED BY <1>1, <1>2

\* What TableInv says of office p.
AtWork(p) ==
  /\ pc[p] \in StoredPlaces \ {"unlockNew"} => bankAccounts[accountsIndex] = UnusedAccount
  /\ pc[p] \in CreatingPlaces \ {"search", "unlockNew"} =>
       \A i \in Used : bankAccounts[i].account_id # tlv[p].target
  /\ pc[p] \in {"store", "lockNew", "write", "unlockNew"} => slot[p] = accountsIndex
  /\ pc[p] = "unlockNew" => HasAccount(tlv[p])

\* Every step keeps TableInv: one that does not touch the table;
LEMMA TableLeftAlone ==
  ASSUME SerialInv, NEW o \in Offices, OfficeStep(o), ~StoreIndex(o), ~WriteAccount(o)
  PROVE  TableInv'
<1> USE DEF SerialInv, BasicInv
<1>1. /\ accountsIndex' = accountsIndex /\ Used' = Used /\ accountsIndex \in Slots
      /\ \A i \in Slots : /\ bankAccounts'[i].account_id = bankAccounts[i].account_id
                          /\ bankAccounts'[i].password = bankAccounts[i].password
                          /\ bankAccounts[i] = UnusedAccount => bankAccounts'[i] = UnusedAccount
  BY TableStays DEF TypeOK
<1>2. Used \subseteq Slots
  BY Room DEF Used, InUse, Slots, TypeOK
<1>3. \A i \in Slots' : i > accountsIndex' \/ bankAccounts'[i].password = NoPassword
                         => bankAccounts'[i] = UnusedAccount'
  BY <1>1 DEF TableInv, Slots, UnusedAccount
<1>4. \A i, j \in Used' :
        bankAccounts'[i].account_id = bankAccounts'[j].account_id => i = j
  BY <1>1, <1>2 DEF TableInv
<1>5. \A r \in Creations' : replies'[r].ret_code = "RC_OK" => HasAccount(r)'
  BY ConfirmedIsThere DEF Creations
<1>6. ASSUME NEW p \in Offices, pc'[p] = pc[p], tlv'[p] = tlv[p], slot'[p] = slot[p]
      PROVE  AtWork(p)'
  <2>1. AtWork(p)
    BY DEF TableInv, AtWork
  <2>2. HasAccount(tlv[p]) => HasAccount(tlv[p])'
    BY <1>6, UsedStay DEF HasAccount
  <2> QED BY <1>1, <1>2, <1>6, <2>1, <2>2 DEF AtWork, StoredPlaces, CreatingPlaces
<1>7. AtWork(o)'
  <2> USE DEF StoredPlaces, CreatingPlaces
  <2>1. CASE SearchID(o)
    <3>1. pc'[o] \in {"idle", "load"} /\ tlv' = tlv
      BY <2>1 DEF SearchID, Reply, Goto, TypeOK, queueVars
    <3>2. pc'[o] = "load" => \A i \in Used : bankAccounts[i].account_id # tlv[o].target
      BY <2>1 DEF SearchID, Reply, Goto, TypeOK, IDInUse, WithID, Used
    <3> QED BY <1>1, <1>2, <3>1, <3>2 DEF AtWork
  <2>2. CASE LoadIndex(o)
    <3>1. pc[o] = "load" /\ pc'[o] = "store" /\ tlv' = tlv /\ slot'[o] = accountsIndex
      BY <2>2 DEF LoadIndex, Goto, TypeOK, queueVars
    <3> QED BY <1>1, <1>2, <3>1 DEF AtWork, TableInv
  <2>3. CASE InitLock(o) \/ PickLock(o)
    <3>1. /\ pc[o] \in {"init", "pick"} /\ pc'[o] \in {"pick", "lockNew"} /\ tlv' = tlv
          /\ pc'[o] = "lockNew" => slot'[o] = accountsIndex
      BY <2>3 DEF InitLock, PickLock, Goto, TypeOK, queueVars
    <3> QED BY <1>1, <1>2, <3>1 DEF AtWork, TableInv
  <2>4. CASE Lock(o)
    <3>1. /\ pc'[o] \in CreatingPlaces => pc[o] = "lockNew" /\ pc'[o] = "write"
          /\ tlv' = tlv /\ slot' = slot
      BY <2>4 DEF Lock, Goto, TypeOK, queueVars, localVars, LockPlaces, Section
    <3> QED BY <1>1, <1>2, <3>1 DEF AtWork, TableInv
  <2>5. CASE TakeRequest(o) \/ Login(o) \/ UnlockNew(o) \/ Resolve(o) \/ CheckFunds(o)
               \/ FindDest(o) \/ CheckRoom(o) \/ Credit(o) \/ Debit(o) \/ ReadBalance(o)
    <3>1. \E place \in {"login", "idle", "search", "resolve", "undefined", "lockRead", "lockFunds",
                        "find", "lockRoom", "lockCredit", "lockDebit"} : Goto(o, place)
      BY <2>5 DEF TakeRequest, Login, UnlockNew, Resolve, CheckFunds, FindDest, CheckRoom, Credit,
         Debit, ReadBalance, Reply
    <3>2. pc'[o] \notin CreatingPlaces \ {"search"}
      BY <3>1 DEF Goto, TypeOK
    <3> QED BY <3>2 DEF AtWork
  <2> QED BY <2>1, <2>2, <2>3, <2>4, <2>5 DEF OfficeStep
<1>8. \A p \in Offices : AtWork(p)'
  BY <1>6, <1>7, OthersKept
<1> QED BY <1>3, <1>4, <1>5, <1>8 DEF TableInv, AtWork

\* one that moves accountsIndex on to an account not used yet;
LEMMA IndexMoves ==
  ASSUME SerialInv, OneCreation, NEW o \in Offices, StoreIndex(o), TypeOK'
  PROVE  TableInv' /\ Used' = Used
<1> USE DEF SerialInv, BasicInv
<1>0. OfficeStep(o)
  BY DEF OfficeStep
<1>1. /\ pc[o] = "store" /\ pc'[o] = "init" /\ bankAccounts' = bankAccounts
      /\ tlv' = tlv /\ accountsIndex' = slot[o] + 1
  BY DEF StoreIndex, OneMore, Goto, TypeOK, queueVars
<1>2. accountsIndex \in Nat /\ accountsIndex' = accountsIndex + 1 /\ accountsIndex' \in Slots
  BY <1>1 DEF TableInv, TypeOK, Slots
<1>3. bankAccounts[accountsIndex'] = UnusedAccount
  BY <1>2 DEF TableInv
<1>4. Used' = Used
  BY <1>1, <1>2, <1>3 DEF Used, InUse, UnusedAccount
<1>5. \A i \in Slots' : i > accountsIndex' \/ bankAccounts'[i].password = NoPassword
                         => bankAccounts'[i] = UnusedAccount'
  BY <1>1, <1>2 DEF TableInv, Slots, UnusedAccount
<1>6. \A i, j \in Used' :
        bankAccounts'[i].account_id = bankAccounts'[j].account_id => i = j
  BY <1>1, <1>4 DEF TableInv
<1>7. \A r \in Creations' : replies'[r].ret_code = "RC_OK" => HasAccount(r)'
  BY <1>0, ConfirmedIsThere DEF Creations
<1>8. AtWork(o)'
  BY <1>1, <1>3, <1>4 DEF AtWork, TableInv, StoredPlaces, CreatingPlaces, UnusedAccount
<1>9. ASSUME NEW p \in Offices, p # o
      PROVE  AtWork(p)'
  <2>1. pc'[p] \notin CreatingPlaces
    BY <1>0, <1>1, <1>9, OthersKept DEF OneCreation, CreatingPlaces
  <2> QED BY <2>1 DEF AtWork, CreatingPlaces, StoredPlaces
<1>10. \A p \in Offices : AtWork(p)'
  BY <1>8, <1>9
<1> QED BY <1>4, <1>5, <1>6, <1>7, <1>10 DEF TableInv, AtWork

\* and one that writes the account there.
LEMMA AccountWritten ==
  ASSUME SerialInv, OneCreation, NEW o \in Offices, WriteAccount(o)
  PROVE  TableInv' /\ Used' = Used \cup {accountsIndex} /\ accountsIndex \notin Used
<1> USE DEF SerialInv, BasicInv
<1> DEFINE new == accountsIndex
           r == tlv[o]
<1>0. OfficeStep(o)
  BY DEF OfficeStep
<1>1. /\ pc[o] = "write" /\ pc'[o] = "unlockNew" /\ accountsIndex' = new
      /\ tlv' = tlv /\ slot' = slot /\ new \in Slots
  BY DEF WriteAccount, Goto, TypeOK, queueVars, localVars
<1>2. r \in Requests /\ r.newPassword \in Passwords
  BY RequestsAssumption DEF TypeOK, RequestType
<1>3. /\ bankAccounts'[new].account_id = r.target /\ bankAccounts'[new].password = r.newPassword
      /\ \A i \in Slots \ {new} : bankAccounts'[i] = bankAccounts[i]
  BY <1>1 DEF WriteAccount, NewSlot, TypeOK
<1>4. Used' = Used \cup {new} /\ new \notin Used /\ Used \subseteq Slots
  <2>1. InUse \subseteq Slots /\ new \in InUse /\ InUse' = InUse
    BY <1>1, Room DEF InUse, Slots
  <2>2. bankAccounts[new] = UnusedAccount
    BY <1>1 DEF TableInv, StoredPlaces
  <2>3. r.newPassword # NoPassword
    BY <1>2, AccountsAssumption
  <2> QED BY <1>1, <1>3, <2>1, <2>2, <2>3 DEF Used, UnusedAccount
<1>5. \A i \in Slots' : i > accountsIndex' \/ bankAccounts'[i].password = NoPassword
                         => bankAccounts'[i] = UnusedAccount'
  <2>1. bankAccounts'[new].password # NoPassword /\ ~(new > new)
    BY <1>1, <1>2, <1>3, AccountsAssumption DEF Slots
  <2> QED BY <1>1, <1>3, <2>1 DEF TableInv, Slots, UnusedAccount
<1>6. \A i, j \in Used' :
        bankAccounts'[i].account_id = bankAccounts'[j].account_id => i = j
  <2>1. \A i \in Used : bankAccounts[i].account_id # r.target
    BY <1>1 DEF TableInv, CreatingPlaces
  <2>2. \A i \in Used : bankAccounts'[i] = bankAccounts[i]
    BY <1>3, <1>4
  <2> QED BY <1>3, <1>4, <2>1, <2>2 DEF TableInv
<1>7. \A q \in Creations' : replies'[q].ret_code = "RC_OK" => HasAccount(q)'
  BY <1>0, ConfirmedIsThere DEF Creations
<1>8. AtWork(o)'
  <2>1. HasAccount(tlv[o])'
    BY <1>1, <1>3, <1>4 DEF HasAccount
  <2>2. slot'[o] = accountsIndex'
    BY <1>1 DEF TableInv
  <2> QED BY <1>1, <2>1, <2>2 DEF AtWork, StoredPlaces, CreatingPlaces
<1>9. ASSUME NEW p \in Offices, p # o
      PROVE  AtWork(p)'
  <2>1. pc'[p] \notin CreatingPlaces
    BY <1>0, <1>1, <1>9, OthersKept DEF OneCreation, CreatingPlaces
  <2> QED BY <2>1 DEF AtWork, CreatingPlaces, StoredPlaces
<1>10. \A p \in Offices : AtWork(p)'
  BY <1>8, <1>9
<1> QED BY <1>4, <1>5, <1>6, <1>7, <1>10 DEF TableInv, AtWork

-----------------------------------------------------------------------------
(* The accounts that offices work on, while creations do not overlap.      *)

\* A login is for an account in use.
LEMMA LoginIsUsed ==
  ASSUME NEW r \in Requests
  PROVE  LoginMatches(r) = {i \in Used : /\ bankAccounts[i].account_id = r.account_id
                                         /\ bankAccounts[i].password = r.password}
<1>1. r.password # NoPassword
  BY RequestsAssumption, AccountsAssumption DEF RequestType
<1> QED BY <1>1 DEF LoginMatches, WithID, Used

\* The account that a transfer finds is one in use: an account being created has
\* the identifier of the administrator's, which is found first.
LEMMA DestIsUsed ==
  ASSUME SerialInv, NEW id, WithID(id) # {}
  PROVE  First(WithID(id)) \in Used /\ bankAccounts[First(WithID(id))].account_id = id
<1> USE DEF SerialInv, BasicInv
<1> DEFINE i == First(WithID(id))
<1>1. i \in WithID(id) /\ \A j \in WithID(id) : i <= j
  BY FoundInUse, FirstIsLeast DEF Slots
<1>2. i \in InUse /\ i \in Slots /\ bankAccounts[i].account_id = id
  BY <1>1, FoundInUse DEF WithID
<1>3. CASE bankAccounts[i].password = NoPassword
  <2>1. id = ADMIN_ACCOUNT_ID
    BY <1>2, <1>3 DEF TableInv, UnusedAccount, ADMIN_ACCOUNT_ID
  <2>2. 0 \in DOMAIN Opening /\ 0 \in InUse
    BY Room DEF InUse, TypeOK, Slots
  <2>3. 0 \in WithID(id)
    BY <2>1, <2>2, OpeningAssumption DEF OpeningKept, WithID
  <2>4. i = 0
    BY <1>1, <1>2, <2>3 DEF Slots
  <2> QED BY <1>3, <2>2, <2>4, OpeningAssumption DEF OpeningKept
<1>4. CASE bankAccounts[i].password # NoPassword
  BY <1>2, <1>4 DEF Used
<1> QED BY <1>3, <1>4

\* Every step leaves the offices with accounts that are there.
LEMMA WorkKept ==
  ASSUME SerialInv, NEW o \in Offices, OfficeStep(o)
  PROVE  WorkInv'
<1> USE DEF SerialInv, BasicInv, PayPlaces, ReadPlaces, DestPlaces
<1> DEFINE WorksOn(p) ==
             /\ pc[p] # "undefined"
             /\ pc[p] = "resolve" => LoginMatches(tlv[p]) # {}
             /\ pc[p] \in PayPlaces \cup ReadPlaces => index[p] \in Used
             /\ pc[p] \in DestPlaces => dest[p] \in Used
<1>1. \A p \in Offices : WorksOn(p) /\ tlv[p] \in Requests
  BY DEF WorkInv, TypeOK
<1>2. \A i \in Used : i \in Used'
  BY UsedStay
<1>3. ASSUME NEW r \in Requests, LoginMatches(r) # {}
      PROVE  LoginMatches(r)' # {}
  <2>1. PICK i \in Used : bankAccounts[i].account_id = r.account_id
                           /\ bankAccounts[i].password = r.password
    BY <1>3, LoginIsUsed
  <2> QED BY <2>1, UsedStay DEF LoginMatches, WithID, Used
<1>4. ASSUME NEW p \in Offices, p # o
      PROVE  WorksOn(p)'
  <2>1. /\ pc'[p] = pc[p] /\ tlv'[p] = tlv[p]
        /\ index'[p] = index[p] /\ dest'[p] = dest[p]
    BY <1>4, OthersKept
  <2>2. LoginMatches(tlv[p]) # {} => LoginMatches(tlv[p])' # {}
    <3>1. \A r \in Requests : r = tlv'[p] => LoginMatches(tlv[p])' = LoginMatches(r)'
      BY DEF LoginMatches, WithID
    <3> QED BY <1>1, <1>3, <2>1, <3>1
  <2> QED BY <1>1, <1>2, <2>1, <2>2
<1>5. WorksOn(o)'
  <2>1. CASE Login(o)
    <3>1. pc'[o] \in {"idle", "search", "resolve"} /\ tlv' = tlv
      BY <2>1 DEF Login, Reply, Goto, TypeOK, queueVars
    <3>2. pc'[o] = "resolve" => LoginMatches(tlv[o]) # {}
      BY <2>1 DEF Login, Reply, Goto, TypeOK
    <3>3. \A r \in Requests : r = tlv[o] => LoginMatches(tlv[o])' = LoginMatches(r)'
      BY <3>1 DEF LoginMatches, WithID
    <3> QED BY <1>1, <1>3, <3>1, <3>2, <3>3
  <2>2. CASE Resolve(o)
    <3>1. LoginMatches(tlv[o]) # {} /\ LoginMatches(tlv[o]) \subseteq Used
      BY <1>1, <2>2, LoginIsUsed DEF Resolve
    <3>2. First(LoginMatches(tlv[o])) \in LoginMatches(tlv[o])
      BY <3>1, FoundInUse, FirstIsLeast DEF Slots
    <3>3. pc'[o] \in {"lockRead", "lockFunds"} /\ index'[o] = First(LoginMatches(tlv[o]))
      BY <2>2, <3>1 DEF Resolve, Goto, TypeOK
    <3> QED BY <1>2, <3>1, <3>2, <3>3
  <2>3. CASE FindDest(o)
    <3>1. /\ pc'[o] \in {"lockRead", "lockRoom"} /\ index' = index /\ pc[o] = "find"
          /\ pc'[o] = "lockRoom" =>
               WithID(tlv[o].target) # {} /\ dest'[o] = First(WithID(tlv[o].target))
      BY <2>3 DEF FindDest, Goto, TypeOK
    <3> QED BY <1>1, <1>2, <3>1, DestIsUsed
  <2>4. CASE Lock(o)
    <3>1. /\ pc[o] \in LockPlaces /\ pc'[o] = Section[pc[o]] /\ index' = index /\ dest' = dest
      BY <2>4 DEF Lock, Goto, TypeOK, localVars
    <3> QED BY <1>1, <1>2, <3>1 DEF LockPlaces, Section
  <2>5. CASE CheckFunds(o) \/ CheckRoom(o) \/ Credit(o) \/ Debit(o) \/ ReadBalance(o)
    <3>1. index' = index /\ dest' = dest
      BY <2>5 DEF CheckFunds, CheckRoom, Credit, Debit, ReadBalance, localVars
    <3>2. /\ pc[o] \in PayPlaces \cup ReadPlaces
          /\ pc'[o] \in {"idle", "find", "lockRead", "lockCredit", "lockDebit"}
          /\ pc'[o] \in {"lockCredit", "lockDebit"} => pc[o] \in DestPlaces
          /\ pc'[o] # "idle" => pc[o] \in PayPlaces
      BY <2>5 DEF CheckFunds, CheckRoom, Credit, Debit, ReadBalance, Reply, Goto, TypeOK
    <3> QED BY <1>1, <1>2, <3>1, <3>2
  <2>6. CASE TakeRequest(o) \/ SearchID(o) \/ LoadIndex(o) \/ StoreIndex(o) \/ InitLock(o)
               \/ PickLock(o) \/ WriteAccount(o) \/ UnlockNew(o)
    <3>1. pc'[o] \in {"login", "idle", "load", "store", "init", "pick", "lockNew", "unlockNew"}
      BY <2>6 DEF TakeRequest, SearchID, LoadIndex, StoreIndex, InitLock, PickLock, WriteAccount,
         UnlockNew, Reply, Goto, TypeOK
    <3> QED BY <3>1
  <2> QED BY <2>1, <2>2, <2>3, <2>4, <2>5, <2>6 DEF OfficeStep
<1> QED BY <1>4, <1>5 DEF WorkInv

-----------------------------------------------------------------------------
(* What follows, while creations do not overlap.                           *)

\* It holds at the start.
LEMMA SerialAtStart == Init => SerialInv
<1> SUFFICES ASSUME Init
             PROVE  SerialInv
  OBVIOUS
<1>1. BasicInv
  BY BasicAtStart
<1>2. accountsIndex = Openings - 1 /\ DOMAIN Opening = 0 .. Openings - 1 /\ Openings \in Nat
  BY Room DEF Init, Openings
<1>3. Used = DOMAIN Opening
  BY <1>2, Room, OpeningAssumption DEF Init, Used, InUse, UnusedAccount, Slots
<1>4. TableInv
  <2>1. \A i \in Slots : i > accountsIndex \/ bankAccounts[i].password = NoPassword
                          => bankAccounts[i] = UnusedAccount
    BY <1>2, OpeningAssumption DEF Init, Slots
  <2>2. \A i, j \in Used : bankAccounts[i].account_id = bankAccounts[j].account_id => i = j
    BY <1>2, <1>3, Room, OpeningAssumption DEF Init, Slots
  <2>3. \A r \in Creations : replies[r].ret_code # "RC_OK"
    BY DEF Init, NoReply, Creations
  <2> QED BY <2>1, <2>2, <2>3 DEF Init, TableInv, StoredPlaces, CreatingPlaces
<1>5. WorkInv
  BY DEF Init, WorkInv, PayPlaces, ReadPlaces, DestPlaces
<1>6. LockDiscipline
  BY Holding, AccountsAssumption DEF Init, LockDiscipline
<1> QED BY <1>1, <1>4, <1>5, <1>6 DEF SerialInv

\* Every step keeps it.
LEMMA SerialKept == SerialInv /\ OneCreation /\ [Next]_vars => SerialInv'
<1>1. ASSUME SerialInv, OneCreation, NEW o \in Offices, OfficeStep(o)
      PROVE  SerialInv'
  <2>1. BasicInv'
    BY <1>1, BasicKept DEF SerialInv, Next
  <2>2. TableInv'
    BY <1>1, <2>1, TableLeftAlone, IndexMoves, AccountWritten DEF BasicInv
  <2>3. WorkInv' /\ LockDiscipline'
    BY <1>1, WorkKept, LocksKept
  <2> QED BY <2>1, <2>2, <2>3 DEF SerialInv
<1>2. ASSUME SerialInv, UNCHANGED vars
      PROVE  SerialInv'
  <2>1. BasicInv'
    BY <1>2, BasicKept DEF SerialInv
  <2>2. UNCHANGED <<bankAccounts, accountsIndex, accountLocks, todo, tlv, pc, index, dest, slot,
                    ret_code, replies>>
    BY <1>2 DEF vars, tableVars, localVars, queueVars
  <2>3. Used' = Used /\ UnusedAccount' = UnusedAccount
    BY <2>2 DEF Used, InUse, UnusedAccount
  <2>4. TableInv'
    BY <1>2, <2>2, <2>3 DEF SerialInv, TableInv, HasAccount, Creations, Slots
  <2>5. WorkInv'
    BY <1>2, <2>2, <2>3 DEF SerialInv, WorkInv, LoginMatches, WithID, InUse
  <2>6. LockDiscipline'
    BY <1>2, <2>2 DEF SerialInv, LockDiscipline, LockIndex, Slots, HoldingPlaces, LockPlaces,
       Section
  <2> QED BY <2>1, <2>4, <2>5, <2>6 DEF SerialInv
<1> QED BY <1>1, <1>2 DEF Next

\* So it holds always, while creations do not overlap.
LEMMA SerialHolds == Spec /\ []OneCreation => []SerialInv
BY SerialAtStart, SerialKept, PTL DEF Spec

\* Creations do not overlap when one request at most is for one.
LEMMA SingleCreation ==
  ASSUME Cardinality(Creations) <= 1
  PROVE  Spec => []OneCreation
<1>1. \A r, q \in Creations : r = q
  <2>1. IsFiniteSet(Creations) /\ Cardinality(Creations) \in Nat
    BY Room
  <2>2. CASE Cardinality(Creations) = 0
    BY <2>1, <2>2, FS_EmptySet
  <2>3. CASE Cardinality(Creations) = 1
    BY <2>1, <2>3, FS_Singleton
  <2> QED BY <2>1, <2>2, <2>3
<1>2. BasicInv => OneCreation
  BY <1>1 DEF BasicInv, TakenInv, OneCreation, CreatingPlaces
<1> QED BY <1>2, BasicHolds, PTL

\* An account's lock is held by the office at work on the account and by no
\* other, whatever the paths of the operations: the lock that createNewAccount
\* initialises is nobody's, and what it unlocks is what it locked.
THEOREM LocksAreDisciplined == Spec /\ []OneCreation => []LockDiscipline
BY SerialHolds, PTL DEF SerialInv

\* A login that was checked is still there when checkBalance or bankTransfer
\* looks it up again: accountLocks[-1] is never reached.
THEOREM IndexIsNeverWild == Spec /\ []OneCreation => []NoWildIndex
<1>1. SerialInv => NoWildIndex
  BY DEF SerialInv, WorkInv, NoWildIndex
<1> QED BY <1>1, SerialHolds, PTL

\* Identifiers are unique, and a creation that is confirmed has its account.
THEOREM ConfirmedAccountsAreThere == Spec /\ []OneCreation => []CreatedIsThere
<1>1. SerialInv => CreatedIsThere
  BY DEF SerialInv, TableInv, HasAccount, CreatedIsThere, WithID, Used
<1> QED BY <1>1, SerialHolds, PTL

-----------------------------------------------------------------------------
(* Balances, while one office is at work.                                  *)

\* Sums and differences of balances in range are what they are on paper: words
\* are wide enough.
LEMMA InRange ==
  ASSUME NEW balance \in MIN_BALANCE .. MAX_BALANCE, NEW amount \in 1 .. MAX_BALANCE
  PROVE  /\ (balance + amount) % Modulus = balance + amount
         /\ ~NoFunds(balance, amount) => balance - amount >= MIN_BALANCE
         /\ balance - amount >= MIN_BALANCE => (balance - amount) % Modulus = balance - amount
<1> DEFINE half == Modulus \div 2
<1>1. /\ Modulus \in Nat \ {0} /\ half \in Nat /\ 2 * half = Modulus
      /\ MAX_BALANCE \in Nat /\ 2 * MAX_BALANCE < half /\ MIN_BALANCE = 1
  <2>1. Modulus \in Nat \ {0} /\ Modulus % 2 = 0 /\ MAX_BALANCE \in Nat /\ 4 * MAX_BALANCE < Modulus
    BY ArgumentsAssumption
  <2>2. half \in Nat /\ 2 * half = Modulus
    BY <2>1
  <2> QED BY <2>1, <2>2, AccountsAssumption
<1>2. \A x \in 0 .. Modulus - 1 : x % Modulus = x
  BY <1>1
<1>3. balance + amount \in 0 .. Modulus - 1
  BY <1>1
<1>4. CASE balance - amount >= 0
  <2>1. balance - amount \in 0 .. Modulus - 1 /\ balance - amount < half
    BY <1>1, <1>4
  <2>2. (balance - amount) % Modulus = balance - amount
    BY <1>2, <2>1
  <2>3. ToInt((balance - amount) % Modulus) = balance - amount
    BY <2>1, <2>2 DEF ToInt
  <2> QED BY <1>1, <1>2, <1>3, <2>2, <2>3 DEF NoFunds
<1>5. CASE balance - amount < 0
  <2>1. balance - amount + Modulus \in half .. Modulus - 1
    BY <1>1, <1>5
  <2>2. (balance - amount) % Modulus = balance - amount + Modulus
    <3>1. (balance - amount) \in -Modulus .. -1
      BY <1>1, <1>5
    <3>2. \A x \in -Modulus .. -1 : x + Modulus \in 0 .. Modulus - 1 => x % Modulus = x + Modulus
      BY <1>1
    <3> QED BY <1>1, <2>1, <3>1, <3>2
  <2>3. ToInt((balance - amount) % Modulus) = balance - amount
    BY <1>1, <2>1, <2>2 DEF ToInt
  <2> QED BY <1>1, <1>2, <1>3, <1>5, <2>3 DEF NoFunds
<1> QED BY <1>4, <1>5

\* An office that is not at work pays nothing.
LEMMA IdlePays ==
  ASSUME NEW p \in Offices, pc[p] = "idle"
  PROVE  PaysInRange(p)
BY DEF PaysInRange, PayPlaces, DestPlaces

\* A step that leaves the table alone keeps balances in range when the office
\* goes where it may.
LEMMA RangeLeftAlone ==
  ASSUME SerialInv, OneAtWork, RangeInv, NEW o \in Offices, OfficeStep(o),
         UNCHANGED bankAccounts, Used' = Used, PaysInRange(o)'
  PROVE  RangeInv'
<1> USE DEF SerialInv, BasicInv
<1>1. ASSUME NEW p \in Offices, p # o
      PROVE  PaysInRange(p)'
  <2>1. pc'[p] = pc[p] /\ tlv'[p] = tlv[p] /\ index'[p] = index[p] /\ dest'[p] = dest[p]
    BY <1>1, OthersKept
  <2>2. PaysInRange(p)
    BY DEF RangeInv
  <2> QED BY <2>1, <2>2 DEF PaysInRange, TooHigh
<1>2. \A p \in Offices : PaysInRange(p)'
  BY <1>1
<1> QED BY <1>2 DEF RangeInv

\* A step that stores a balance in range keeps them in range, as the others have
\* no transfer at hand.
LEMMA RangeStored ==
  ASSUME SerialInv, OneAtWork, RangeInv, NEW o \in Offices, OfficeStep(o), pc[o] # "idle",
         NEW i \in Used', \A j \in Used' \ {i} : j \in Used /\ bankAccounts'[j] = bankAccounts[j],
         bankAccounts'[i].account_id # ADMIN_ACCOUNT_ID =>
           bankAccounts'[i].balance \in MIN_BALANCE .. MAX_BALANCE,
         PaysInRange(o)'
  PROVE  RangeInv'
<1>1. ASSUME NEW p \in Offices, p # o
      PROVE  PaysInRange(p)'
  <2>1. pc'[p] = "idle"
    BY <1>1, OthersKept DEF OneAtWork, SerialInv, BasicInv
  <2> QED BY <2>1 DEF PaysInRange, PayPlaces, DestPlaces
<1>2. \A p \in Offices : PaysInRange(p)'
  BY <1>1
<1>3. \A j \in Used' : bankAccounts'[j].account_id # ADMIN_ACCOUNT_ID' =>
        bankAccounts'[j].balance \in MIN_BALANCE .. MAX_BALANCE
  BY DEF RangeInv, ADMIN_ACCOUNT_ID
<1> QED BY <1>2, <1>3 DEF RangeInv

\* Every step keeps balances in range.
LEMMA RangeKept ==
  ASSUME SerialInv, OneAtWork, RangeInv, NEW o \in Offices, OfficeStep(o), TypeOK'
  PROVE  RangeInv'
<1> USE DEF SerialInv, BasicInv, PayPlaces, DestPlaces
<1> DEFINE r == tlv[o]
<1>1. PaysInRange(o) /\ r \in Requests
  BY DEF RangeInv, TypeOK
<1>2. pc[o] \in PayPlaces => r.amount \in 1 .. MAX_BALANCE
  BY RequestsAssumption DEF TakenInv
<1>3. OneCreation
  BY DEF OneAtWork, OneCreation, CreatingPlaces
<1>4. CASE StoreIndex(o)
  <2>1. bankAccounts' = bankAccounts /\ Used' = Used /\ pc'[o] = "init"
    BY <1>3, <1>4, IndexMoves DEF StoreIndex, Goto, TypeOK
  <2>2. PaysInRange(o)'
    BY <2>1 DEF PaysInRange
  <2> QED BY <2>1, <2>2, RangeLeftAlone
<1>5. CASE WriteAccount(o)
  <2>1. Used' = Used \cup {accountsIndex} /\ accountsIndex \notin Used
    BY <1>3, <1>5, AccountWritten
  <2>2. pc[o] = "write" /\ pc'[o] = "unlockNew" /\ accountsIndex \in Slots
    BY <1>5 DEF WriteAccount, Goto, TypeOK
  <2>3. r.amount \in MIN_BALANCE .. MAX_BALANCE
    BY <2>2, RequestsAssumption DEF TakenInv, CreatingPlaces
  <2>4. /\ bankAccounts'[accountsIndex].balance = r.amount
        /\ \A j \in Slots \ {accountsIndex} : bankAccounts'[j] = bankAccounts[j]
    BY <1>5, <2>2 DEF WriteAccount, NewSlot, TypeOK
  <2>5. Used \subseteq Slots
    BY Room DEF Used, InUse, Slots, TypeOK
  <2>6. PaysInRange(o)'
    BY <2>2 DEF PaysInRange
  <2> QED BY <2>1, <2>2, <2>3, <2>4, <2>5, <2>6, RangeStored
<1>6. CASE Credit(o)
  <2>1. /\ pc[o] = "credit" /\ pc'[o] = "lockDebit" /\ dest[o] \in Slots
        /\ tlv' = tlv /\ index' = index /\ dest' = dest
    BY <1>6 DEF Credit, Goto, TypeOK, queueVars, localVars
  <2>2. /\ dest[o] \in Used /\ index[o] \in Used /\ Used' = Used /\ Used \subseteq Slots
    <3>1. Used' = Used
      BY <1>6, <2>1, TableStays DEF StoreIndex, WriteAccount
    <3> QED BY <2>1, <3>1, Room DEF WorkInv, Used, InUse, Slots, TypeOK
  <2>3. r.amount \in 1 .. MAX_BALANCE /\ bankAccounts[dest[o]].balance \in Int
    BY <1>2, <2>1, ArgumentsAssumption DEF TypeOK, Account, Word
  <2>4. /\ bankAccounts[dest[o]].account_id = r.target /\ r.target # r.account_id
        /\ bankAccounts[index[o]].account_id = r.account_id /\ r.account_id # ADMIN_ACCOUNT_ID
        /\ bankAccounts[index[o]].balance - r.amount >= MIN_BALANCE
        /\ ~TooHigh(bankAccounts[dest[o]].balance, r.amount)
    BY <1>1, <2>1 DEF PaysInRange
  <2>5. SetBalance(dest[o], bankAccounts[dest[o]].balance + r.amount)
        /\ bankAccounts[dest[o]].balance + r.amount \in Int
    BY <1>6, <2>3, ArgumentsAssumption DEF Credit
  <2>6. /\ bankAccounts'[dest[o]].balance = (bankAccounts[dest[o]].balance + r.amount) % Modulus
        /\ \A j \in Slots : /\ bankAccounts'[j].account_id = bankAccounts[j].account_id
                            /\ j # dest[o] => bankAccounts'[j] = bankAccounts[j]
    BY <2>1, <2>5, BalanceStored
  <2>7. ASSUME bankAccounts'[dest[o]].account_id # ADMIN_ACCOUNT_ID
        PROVE  bankAccounts'[dest[o]].balance \in MIN_BALANCE .. MAX_BALANCE
    <3>1. bankAccounts[dest[o]].balance \in MIN_BALANCE .. MAX_BALANCE
      BY <2>1, <2>2, <2>6, <2>7 DEF RangeInv
    <3>2. bankAccounts'[dest[o]].balance = bankAccounts[dest[o]].balance + r.amount
      BY <2>3, <2>6, <3>1, InRange
    <3>3. bankAccounts'[dest[o]].balance <= MAX_BALANCE
      BY <2>4, <2>6, <3>2, <2>3, <3>1, ArgumentsAssumption DEF TooHigh
    <3> QED BY <2>3, <3>1, <3>2, <3>3, AccountsAssumption, ArgumentsAssumption
  <2>8. PaysInRange(o)'
    <3>1. bankAccounts'[index[o]] = bankAccounts[index[o]]
      BY <2>2, <2>4, <2>6
    <3> QED BY <2>1, <2>2, <2>4, <2>6, <3>1 DEF PaysInRange, ADMIN_ACCOUNT_ID
  <2> QED BY <2>1, <2>2, <2>6, <2>7, <2>8, RangeStored
<1>7. CASE Debit(o)
  <2>1. pc[o] = "debit" /\ pc'[o] = "lockRead" /\ index[o] \in Slots
    BY <1>7 DEF Debit, Goto, TypeOK
  <2>2. index[o] \in Used /\ Used' = Used /\ Used \subseteq Slots
    <3>1. Used' = Used
      BY <1>7, <2>1, TableStays DEF StoreIndex, WriteAccount
    <3> QED BY <2>1, <3>1, Room DEF WorkInv, Used, InUse, Slots, TypeOK
  <2>3. r.amount \in 1 .. MAX_BALANCE
    BY <1>2, <2>1
  <2>4. /\ bankAccounts[index[o]].account_id = r.account_id /\ r.account_id # ADMIN_ACCOUNT_ID
        /\ bankAccounts[index[o]].balance - r.amount >= MIN_BALANCE
    BY <1>1, <2>1 DEF PaysInRange
  <2>5. bankAccounts[index[o]].balance \in MIN_BALANCE .. MAX_BALANCE
    BY <2>2, <2>4 DEF RangeInv
  <2>6. SetBalance(index[o], bankAccounts[index[o]].balance - r.amount)
        /\ bankAccounts[index[o]].balance - r.amount \in Int
    BY <1>7, <2>3, <2>5, ArgumentsAssumption DEF Debit, Source
  <2>7. /\ bankAccounts'[index[o]].balance = (bankAccounts[index[o]].balance - r.amount) % Modulus
        /\ \A j \in Slots : j # index[o] => bankAccounts'[j] = bankAccounts[j]
    BY <2>1, <2>6, BalanceStored
  <2>8. bankAccounts'[index[o]].balance \in MIN_BALANCE .. MAX_BALANCE
    <3>1. bankAccounts'[index[o]].balance = bankAccounts[index[o]].balance - r.amount
      BY <2>3, <2>4, <2>5, <2>7, InRange
    <3> QED BY <2>3, <2>4, <2>5, <3>1, ArgumentsAssumption
  <2>9. PaysInRange(o)'
    BY <2>1 DEF PaysInRange
  <2> QED BY <2>1, <2>2, <2>7, <2>8, <2>9, RangeStored
<1>8. CASE ~StoreIndex(o) /\ ~WriteAccount(o) /\ ~Credit(o) /\ ~Debit(o)
  <2>1. bankAccounts' = bankAccounts /\ Used' = Used
    BY <1>8, TableStays DEF OfficeStep, TakeRequest, Login, Lock, SearchID, LoadIndex, InitLock,
       PickLock, UnlockNew, Resolve, CheckFunds, FindDest, CheckRoom, ReadBalance, tableVars
  <2>2. PaysInRange(o)'
    <3>1. CASE Login(o)
      <4>1. /\ pc'[o] \in {"idle", "search", "resolve"} /\ tlv' = tlv
            /\ pc'[o] = "resolve" => r.account_id # ADMIN_ACCOUNT_ID
        BY <3>1 DEF Login, Reply, Goto, TypeOK, queueVars, Allowed, Served
      <4> QED BY <4>1 DEF PaysInRange, ADMIN_ACCOUNT_ID
    <3>2. CASE Resolve(o)
      <4>1. pc[o] = "resolve" /\ LoginMatches(r) # {} /\ tlv' = tlv /\ r.account_id # ADMIN_ACCOUNT_ID
        BY <1>1, <3>2 DEF Resolve, WorkInv, queueVars, PaysInRange
      <4>2. /\ pc'[o] \in {"lockRead", "lockFunds"}
            /\ pc'[o] = "lockFunds" => r.target # r.account_id
            /\ index'[o] = First(LoginMatches(r))
        BY <3>2, <4>1 DEF Resolve, Goto, TypeOK
      <4>3. First(LoginMatches(r)) \in LoginMatches(r)
        BY <4>1, FoundInUse, FirstIsLeast DEF Slots
      <4>4. bankAccounts'[index'[o]].account_id = r.account_id
        BY <1>1, <2>1, <4>2, <4>3 DEF LoginMatches, WithID
      <4> QED BY <4>1, <4>2, <4>4 DEF PaysInRange, ADMIN_ACCOUNT_ID
    <3>3. CASE CheckFunds(o)
      <4>1. /\ pc[o] = "funds" /\ pc'[o] \in {"idle", "find"} /\ tlv' = tlv /\ index' = index
            /\ pc'[o] = "find" => ~NoFunds(bankAccounts[index[o]].balance, r.amount)
        BY <3>3 DEF CheckFunds, Reply, Goto, TypeOK, queueVars, localVars
      <4>2. /\ r.account_id # ADMIN_ACCOUNT_ID /\ r.target # r.account_id
            /\ bankAccounts[index[o]].account_id = r.account_id
        BY <1>1, <4>1 DEF PaysInRange
      <4>3. bankAccounts[index[o]].balance \in MIN_BALANCE .. MAX_BALANCE
        BY <4>1, <4>2 DEF RangeInv, WorkInv
      <4>4. pc'[o] = "find" => bankAccounts[index[o]].balance - r.amount >= MIN_BALANCE
        BY <1>2, <4>1, <4>3, InRange
      <4> QED BY <2>1, <4>1, <4>2, <4>4 DEF PaysInRange, ADMIN_ACCOUNT_ID
    <3>4. CASE FindDest(o)
      <4>1. /\ pc[o] = "find" /\ pc'[o] \in {"lockRead", "lockRoom"} /\ tlv' = tlv /\ index' = index
            /\ pc'[o] = "lockRoom" =>
                 WithID(r.target) # {} /\ dest'[o] = First(WithID(r.target))
        BY <3>4 DEF FindDest, Goto, TypeOK, queueVars
      <4>2. pc'[o] = "lockRoom" => bankAccounts[dest'[o]].account_id = r.target
        BY <4>1, DestIsUsed
      <4> QED BY <1>1, <2>1, <4>1, <4>2 DEF PaysInRange, ADMIN_ACCOUNT_ID
    <3>5. CASE CheckRoom(o)
      <4>1. /\ pc[o] = "room" /\ pc'[o] \in {"lockRead", "lockCredit"} /\ tlv' = tlv
            /\ index' = index /\ dest' = dest
            /\ pc'[o] = "lockCredit" => ~TooHigh(bankAccounts[dest[o]].balance, r.amount)
        BY <3>5 DEF CheckRoom, Goto, TypeOK, queueVars
      <4> QED BY <1>1, <2>1, <4>1 DEF PaysInRange, ADMIN_ACCOUNT_ID, TooHigh
    <3>6. CASE Lock(o)
      <4>1. /\ pc[o] \in LockPlaces /\ pc'[o] = Section[pc[o]] /\ tlv' = tlv
            /\ index' = index /\ dest' = dest
        BY <3>6 DEF Lock, Goto, TypeOK, queueVars, localVars
      <4> QED BY <1>1, <2>1, <4>1 DEF PaysInRange, ADMIN_ACCOUNT_ID, TooHigh, LockPlaces, Section
    <3>7. CASE TakeRequest(o) \/ SearchID(o) \/ LoadIndex(o) \/ InitLock(o) \/ PickLock(o)
                 \/ UnlockNew(o) \/ ReadBalance(o)
      <4>1. pc'[o] \in {"login", "idle", "load", "store", "pick", "lockNew"}
        BY <3>7 DEF TakeRequest, SearchID, LoadIndex, InitLock, PickLock, UnlockNew, ReadBalance,
           Reply, Goto, TypeOK
      <4> QED BY <4>1 DEF PaysInRange
    <3> QED BY <1>8, <3>1, <3>2, <3>3, <3>4, <3>5, <3>6, <3>7 DEF OfficeStep
  <2> QED BY <2>1, <2>2, RangeLeftAlone
<1> QED BY <1>4, <1>5, <1>6, <1>7, <1>8

\* Balances are in range at the start.
LEMMA RangeAtStart == Init => RangeInv
<1> SUFFICES ASSUME Init
             PROVE  RangeInv
  OBVIOUS
<1>1. \A p \in Offices : PaysInRange(p)
  BY IdlePays DEF Init
<1>2. Used = DOMAIN Opening /\ DOMAIN Opening \subseteq Slots
  <2>1. accountsIndex = Openings - 1 /\ DOMAIN Opening = 0 .. Openings - 1 /\ Openings \in Nat
    BY Room DEF Init, Openings
  <2> QED BY <2>1, Room, OpeningAssumption DEF Init, Used, InUse, UnusedAccount, Slots
<1>3. \A i \in Used : bankAccounts[i] = Opening[i]
  BY <1>2 DEF Init
<1> QED BY <1>1, <1>2, <1>3, OpeningAssumption DEF RangeInv

\* So they stay, while one office is at work.
LEMMA RangeHolds == Spec /\ []OneAtWork => [](SerialInv /\ RangeInv)
<1>1. OneAtWork => OneCreation
  BY DEF OneAtWork, OneCreation, CreatingPlaces
<1>2. SerialInv /\ RangeInv /\ OneAtWork /\ OneCreation /\ [Next]_vars => RangeInv'
  <2>1. ASSUME SerialInv, RangeInv, OneAtWork, OneCreation, NEW o \in Offices, OfficeStep(o)
        PROVE  RangeInv'
    <3>1. TypeOK'
      BY <2>1, SerialKept DEF Next, SerialInv, BasicInv
    <3> QED BY <2>1, <3>1, RangeKept
  <2>2. ASSUME RangeInv, UNCHANGED vars
        PROVE  RangeInv'
    <3>1. UNCHANGED <<bankAccounts, accountsIndex, tlv, pc, index, dest>>
      BY <2>2 DEF vars, tableVars, localVars, queueVars
    <3>2. Used' = Used
      BY <3>1 DEF Used, InUse
    <3> QED BY <2>2, <3>1, <3>2 DEF RangeInv, PaysInRange, TooHigh, ADMIN_ACCOUNT_ID
  <2> QED BY <2>1, <2>2 DEF Next
<1> QED BY <1>1, <1>2, SerialAtStart, SerialKept, RangeAtStart, PTL DEF Spec

\* types.h promises that a client's balance stays between MIN_BALANCE and
\* MAX_BALANCE: so it does as long as one office is at work, for the tests that
\* a transfer starts with still hold when it moves the money.
THEOREM BalancesInRange == Spec /\ []OneAtWork => []BalanceInRange
<1>1. SerialInv /\ RangeInv => BalanceInRange
  <2> SUFFICES ASSUME SerialInv, RangeInv, NEW i \in Used,
                      bankAccounts[i].account_id # ADMIN_ACCOUNT_ID
               PROVE  /\ ToInt(bankAccounts[i].balance) >= MIN_BALANCE
                      /\ ToInt(bankAccounts[i].balance) <= MAX_BALANCE
    BY DEF BalanceInRange
  <2>1. bankAccounts[i].balance \in MIN_BALANCE .. MAX_BALANCE
    BY DEF RangeInv
  <2>2. MAX_BALANCE \in Nat /\ 2 * MAX_BALANCE < Modulus /\ Modulus \in Nat /\ MIN_BALANCE \in Nat
    BY ArgumentsAssumption
  <2>3. bankAccounts[i].balance < Modulus \div 2
    <3>1. 2 * (Modulus \div 2) = Modulus /\ Modulus \div 2 \in Nat
      BY ArgumentsAssumption
    <3> QED BY <2>1, <2>2, <3>1
  <2> QED BY <2>1, <2>2, <2>3 DEF ToInt
<1> QED BY <1>1, RangeHolds, PTL

\* With a single bank office one is at work at most.
LEMMA SingleOffice ==
  ASSUME NEW CONSTANT o, Offices = {o}
  PROVE  Spec => []OneAtWork
<1>1. BasicInv => OneAtWork
  BY DEF OneAtWork
<1> QED BY <1>1, BasicHolds, PTL
=============================================================================
