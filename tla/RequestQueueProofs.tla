------------------------- MODULE RequestQueueProofs -------------------------
(***************************************************************************)
(* What RequestQueue.tla states about the request path, proved for every   *)
(* number of offices, users and slots.                                     *)
(***************************************************************************)
EXTENDS RequestQueue, FiniteSetTheorems, SequenceTheorems, TLAPS

-----------------------------------------------------------------------------
(* Type correctness.                                                       *)

\* The server starts in a state of the right type.
LEMMA InitTypeOK == Init => TypeOK
<1> SUFFICES ASSUME Init PROVE TypeOK
  OBVIOUS
<1>1. serverFIFO \in Seq(Users)
  BY EmptySeq DEF Init
<1>2. inputIndex \in Indices /\ outputIndex \in Indices /\ slots \in Int
  BY QueueAssumption DEF Init, Indices
<1>3. /\ user \in [Users -> UserStates]
      /\ officePC \in [Offices -> OfficeStates]
      /\ requestQueue \in [Indices -> Users \cup {NoRequest}]
      /\ tlv \in [Offices -> Users \cup {NoRequest}]
  BY DEF Init, UserStates, OfficeStates
<1>4. /\ fifoMode \in FifoModes /\ mainPC \in MainStates
      /\ mainTlv \in Users \cup {NoRequest}
      /\ requests \in Int /\ activeThreads \in Int
  BY DEF Init, FifoModes, MainStates
<1>5. shutdown \in BOOLEAN /\ alive \in BOOLEAN
  BY Zenon DEF Init
<1> QED
  BY <1>1, <1>2, <1>3, <1>4, <1>5 DEF TypeOK

\* The next slot of the circular buffer is one of its slots.
LEMMA NextIndexType == \A i \in Indices : NextIndex(i) \in Indices
BY QueueAssumption DEF Indices, NextIndex

\* A step of a user process keeps every variable in its type.
LEMMA UserTypeOK ==
  ASSUME TypeOK, NEW u \in Users, UserStep(u)
  PROVE  TypeOK'
<1>1. CASE OpenServerFIFO(u) \/ OpenRefused(u)
  BY <1>1 DEF TypeOK, OpenServerFIFO, OpenRefused, UserStates, fifoVars,
     mainVars, bufferVars, countVars, officeVars
<1>2. CASE WriteRequest(u)
  <2>1. serverFIFO' \in Seq(Users)
    BY <1>2, AppendProperties DEF TypeOK, WriteRequest
  <2> QED
    BY <1>2, <2>1 DEF TypeOK, WriteRequest, UserStates, mainVars, bufferVars,
       countVars, officeVars
<1> QED BY <1>1, <1>2 DEF UserStep

\* A step of the main thread keeps every variable in its type.
LEMMA MainTypeOK ==
  ASSUME TypeOK, MainStep \/ SpuriousMainWakeup
  PROVE  TypeOK'
<1> USE DEF TypeOK, MainGoto, MainStates, FifoModes, fifoVars, mainVars,
       bufferVars, countVars, officeVars
<1>1. CASE MakeServerFIFO \/ OpenForReading \/ ReadNothing \/ TestShutdown
  BY <1>1 DEF MakeServerFIFO, OpenForReading, ReadNothing, TestShutdown
<1>2. CASE ReadRequest
  <2>1. Head(serverFIFO) \in Users /\ Tail(serverFIFO) \in Seq(Users)
    BY <1>2, HeadTailProperties DEF ReadRequest
  <2> QED BY <1>2, <2>1 DEF ReadRequest
<1>3. CASE ClaimSlot \/ WaitForSlot \/ SpuriousMainWakeup
  BY <1>3 DEF ClaimSlot, WaitForSlot, SpuriousMainWakeup
<1>4. CASE InsertRequest
  <2>1. NextIndex(inputIndex) \in Indices
    BY NextIndexType
  <2> QED BY <1>4, <2>1 DEF InsertRequest
<1>5. CASE AnnounceRequest
  <2>1. officePC' \in [Offices -> OfficeStates]
    BY <1>5 DEF AnnounceRequest, SignalOffice, Goto, Waiting, OfficeStates
  <2> QED BY <1>5, <2>1 DEF AnnounceRequest
<1> QED BY <1>1, <1>2, <1>3, <1>4, <1>5 DEF MainStep

\* A step of an office keeps every variable in its type.
LEMMA OfficeTypeOK ==
  ASSUME TypeOK, NEW o \in Offices, OfficeStep(o) \/ SpuriousWakeup(o)
  PROVE  TypeOK'
<1> USE DEF TypeOK, Goto, OfficeStates, fifoVars, mainVars, bufferVars,
       countVars, officeVars
<1>1. CASE ExitDrained(o)
  BY <1>1 DEF ExitDrained, BroadcastAndLeave
<1>2. CASE ExitWoken(o) \/ WaitForRequest(o) \/ ClaimRequest(o) \/ SpuriousWakeup(o)
  BY <1>2 DEF ExitWoken, WaitForRequest, ClaimRequest, SpuriousWakeup
<1>3. CASE GetRequest(o)
  <2>1. OldestRequest \in Users \cup {NoRequest} /\ NextIndex(outputIndex) \in Indices
    BY NextIndexType DEF OldestRequest
  <2> QED BY <1>3, <2>1 DEF GetRequest
<1>4. CASE BeginRequest(o) \/ HandleRequest(o)
  BY <1>4 DEF BeginRequest, HandleRequest
<1>5. CASE HandleShutdown(o) \/ SetShutdown(o)
  <2>1. CASE HandleShutdown(o)
    BY <2>1 DEF HandleShutdown, FifoModes
  <2>2. CASE SetShutdown(o)
    <3>1. shutdown' \in BOOLEAN
      BY <2>2, Zenon DEF SetShutdown
    <3> QED BY <2>2, <3>1 DEF SetShutdown
  <2> QED BY <1>5, <2>1, <2>2
<1>6. CASE OpenUserFIFO(o)
  <2>1. PICK result \in {"write", "userDown"} : Goto(o, result)
    BY <1>6 DEF OpenUserFIFO
  <2>2. officePC' \in [Offices -> OfficeStates]
    BY <2>1
  <2> QED BY <1>6, <2>2 DEF OpenUserFIFO
<1>7. CASE EndRequest(o) \/ FreeSlot(o)
  BY <1>7 DEF EndRequest, EndCount, ReplyFailed, FreeSlot, MainStates
<1>8. CASE WriteReply(o)
  <2>1. alive' \in BOOLEAN
    BY <1>8, Zenon DEF WriteReply
  <2>2. officePC' \in [Offices -> OfficeStates]
    BY <1>8 DEF WriteReply
  <2> QED BY <1>8, <2>1, <2>2 DEF WriteReply
<1> QED BY <1>1, <1>2, <1>3, <1>4, <1>5, <1>6, <1>7, <1>8 DEF OfficeStep

\* Every reachable state of the request path has the right type: in
\* particular both indices stay inside requestQueue.
THEOREM TypeCorrect == Spec => []TypeOK
<1>1. TypeOK /\ [Next]_vars => TypeOK'
  <2> SUFFICES ASSUME TypeOK, [Next]_vars PROVE TypeOK'
    OBVIOUS
  <2>1. CASE UNCHANGED vars
    BY <2>1 DEF TypeOK, vars, fifoVars, mainVars, bufferVars, countVars, officeVars
  <2> QED BY <2>1, UserTypeOK, MainTypeOK, OfficeTypeOK DEF Next
<1> QED BY InitTypeOK, <1>1, PTL DEF Spec

-----------------------------------------------------------------------------
(* Counting offices.                                                       *)

\* How many offices are at given places is a natural number.
LEMMA CountType ==
  ASSUME NEW places
  PROVE  Cardinality(At(places)) \in Nat /\ Cardinality(At(places))' \in Nat
BY QueueAssumption, FS_Subset, FS_CardinalityType DEF At

\* An office that moves changes the number of offices at some places by what
\* it leaves and what it enters.
LEMMA CountMove ==
  ASSUME TypeOK, NEW o \in Offices, NEW place, Goto(o, place), NEW places
  PROVE  Cardinality(At(places))' =
           Cardinality(At(places)) - One(officePC[o] \in places) + One(place \in places)
<1>1. IsFiniteSet(At(places))
  BY QueueAssumption, FS_Subset DEF At
<1>2. officePC' = [officePC EXCEPT ![o] = place] /\ officePC \in [Offices -> OfficeStates]
  BY DEF Goto, TypeOK
<1>3. CASE officePC[o] \in places /\ place \in places
  <2>1. At(places)' = At(places)
    BY <1>2, <1>3 DEF At
  <2> QED BY <2>1, <1>3, CountType DEF One
<1>4. CASE officePC[o] \in places /\ place \notin places
  <2>1. At(places)' = At(places) \ {o} /\ o \in At(places)
    BY <1>2, <1>4 DEF At
  <2>2. Cardinality(At(places) \ {o}) = Cardinality(At(places)) - 1
    BY <2>1, <1>1, FS_RemoveElement
  <2> QED BY <2>1, <2>2, <1>4, CountType DEF One
<1>5. CASE officePC[o] \notin places /\ place \in places
  <2>1. At(places)' = At(places) \cup {o} /\ o \notin At(places)
    BY <1>2, <1>5 DEF At
  <2>2. Cardinality(At(places) \cup {o}) = Cardinality(At(places)) + 1
    BY <2>1, <1>1, FS_AddElement
  <2> QED BY <2>1, <2>2, <1>5, CountType DEF One
<1>6. CASE officePC[o] \notin places /\ place \notin places
  <2>1. At(places)' = At(places)
    BY <1>2, <1>6 DEF At
  <2> QED BY <2>1, <1>6, CountType DEF One
<1> QED BY <1>3, <1>4, <1>5, <1>6

\* A broadcast on requestsCond moves no office in or out of other places.
LEMMA CountBroadcast ==
  ASSUME TypeOK, NEW o \in Offices, officePC[o] = "top", BroadcastAndLeave(o),
         NEW places, places \cap {"top", "exited", "wait", "woken"} = {}
  PROVE  At(places)' = At(places)
BY DEF TypeOK, BroadcastAndLeave, At

\* Nor does a signal.
LEMMA CountSignal ==
  ASSUME TypeOK, SignalOffice, NEW places, places \cap {"wait", "woken"} = {}
  PROVE  At(places)' = At(places)
BY DEF TypeOK, SignalOffice, Waiting, Goto, At

-----------------------------------------------------------------------------
(* activeThreads.                                                          *)

\* Users and the main thread do not move an office into or out of
\* processRequestReply and do not touch activeThreads.
LEMMA OthersKeepActive ==
  ASSUME TypeOK, ActiveThreadsExact,
         (\E u \in Users : UserStep(u)) \/ MainStep \/ SpuriousMainWakeup
  PROVE  ActiveThreadsExact'
<1>1. CASE AnnounceRequest
  <2>1. Active' = Active
    BY <1>1, CountSignal DEF AnnounceRequest, Active, ActivePlaces
  <2> QED BY <1>1, <2>1 DEF AnnounceRequest, ActiveThreadsExact
<1>2. CASE ~AnnounceRequest
  <2>1. UNCHANGED <<officePC, activeThreads>>
    BY <1>2 DEF UserStep, OpenServerFIFO, OpenRefused, WriteRequest, MainStep,
       MakeServerFIFO, OpenForReading, ReadRequest, ReadNothing, TestShutdown,
       ClaimSlot, WaitForSlot, InsertRequest, SpuriousMainWakeup,
       officeVars, countVars
  <2> QED BY <2>1 DEF ActiveThreadsExact, Active, At
<1> QED BY <1>1, <1>2

\* An office counts itself in and out exactly when it enters and leaves
\* processRequestReply.
LEMMA OfficeKeepsActive ==
  ASSUME TypeOK, ActiveThreadsExact,
         NEW o \in Offices, OfficeStep(o) \/ SpuriousWakeup(o)
  PROVE  ActiveThreadsExact'
<1> USE DEF ActiveThreadsExact, Active
<1> DEFINE Moves(place) ==
      /\ Goto(o, place)
      /\ activeThreads' = activeThreads - One(officePC[o] \in ActivePlaces)
                                       + One(place \in ActivePlaces)
<1>1. ASSUME NEW place, Moves(place)
      PROVE  ActiveThreadsExact'
  BY <1>1, CountMove, CountType
<1> HIDE DEF Moves
<1>2. CASE ExitDrained(o)
  BY <1>2, CountBroadcast DEF ExitDrained, ActivePlaces, countVars
<1>3. CASE ExitWoken(o) \/ WaitForRequest(o) \/ ClaimRequest(o) \/ SpuriousWakeup(o)
  <2>1. Moves("exited") \/ Moves("wait") \/ Moves("pop") \/ Moves("woken")
    BY <1>3 DEF Moves, ExitWoken, WaitForRequest, ClaimRequest, InWaitLoop,
       SpuriousWakeup, ActivePlaces, One, countVars, TypeOK
  <2> QED BY <2>1, <1>1
<1>4. CASE GetRequest(o) \/ BeginRequest(o)
  <2>1. Moves("begin") \/ Moves("handle")
    BY <1>4 DEF Moves, GetRequest, BeginRequest, ActivePlaces, One, countVars, TypeOK
  <2> QED BY <2>1, <1>1
<1>5. CASE HandleRequest(o) \/ HandleShutdown(o) \/ SetShutdown(o)
  <2>1. Moves("reply") \/ Moves("flag")
    BY <1>5 DEF Moves, HandleRequest, HandleShutdown, SetShutdown, ActivePlaces,
       One, countVars, TypeOK
  <2> QED BY <2>1, <1>1
<1>6. CASE OpenUserFIFO(o)
  <2>1. PICK result \in {"write", "userDown"} : Goto(o, result)
    BY <1>6 DEF OpenUserFIFO
  <2>2. Moves(result)
    BY <1>6, <2>1 DEF Moves, OpenUserFIFO, ActivePlaces, One, countVars, TypeOK
  <2> QED BY <2>2, <1>1
<1>7. CASE EndRequest(o) \/ FreeSlot(o)
  <2>1. Moves("free") \/ Moves("top")
    BY <1>7 DEF Moves, EndRequest, EndCount, ReplyFailed, FreeSlot, ActivePlaces, One, TypeOK
  <2> QED BY <2>1, <1>1
<1>8. CASE WriteReply(o)
  <2>1. CASE Goto(o, "replied")
    <3>1. Moves("replied")
      BY <1>8, <2>1 DEF Moves, WriteReply, ActivePlaces, One, countVars, TypeOK
    <3> QED BY <3>1, <1>1
  <2>2. CASE UNCHANGED officePC
    BY <1>8, <2>2 DEF WriteReply, At, countVars
  <2> QED BY <1>8, <2>1, <2>2 DEF WriteReply
<1> QED BY <1>2, <1>3, <1>4, <1>5, <1>6, <1>7, <1>8 DEF OfficeStep

\* activeThreads is at all times the number of offices at work on a request.
THEOREM ActiveThreadsCorrect == Spec => []ActiveThreadsExact
<1>1. Init => ActiveThreadsExact
  <2> SUFFICES ASSUME Init PROVE ActiveThreadsExact
    OBVIOUS
  <2>1. Active = {}
    BY DEF Init, Active, At, ActivePlaces
  <2> QED BY <2>1, FS_EmptySet DEF Init, ActiveThreadsExact
<1>2. TypeOK /\ ActiveThreadsExact /\ [Next]_vars => ActiveThreadsExact'
  <2> SUFFICES ASSUME TypeOK, ActiveThreadsExact, [Next]_vars
               PROVE  ActiveThreadsExact'
    OBVIOUS
  <2>1. CASE UNCHANGED vars
    BY <2>1 DEF vars, officeVars, countVars, ActiveThreadsExact, Active, At
  <2> QED BY <2>1, OthersKeepActive, OfficeKeepsActive DEF Next
<1> QED BY <1>1, <1>2, TypeCorrect, PTL DEF Spec

-----------------------------------------------------------------------------
(* Wakeups.                                                                *)

\* The main thread and the users put no office to sleep, and the one step of
\* theirs that makes a request claimable wakes an office if one sleeps.
LEMMA OthersKeepAwake ==
  ASSUME TypeOK, NoLostWakeup,
         (\E u \in Users : UserStep(u)) \/ MainStep \/ SpuriousMainWakeup
  PROVE  NoLostWakeup'
<1>1. CASE AnnounceRequest
  <2>1. CASE Waiting = {}
    BY <1>1, <2>1 DEF AnnounceRequest, SignalOffice, NoLostWakeup, Waiting
  <2>2. CASE Waiting # {}
    <3>1. PICK o \in Waiting : officePC' = [officePC EXCEPT ![o] = "woken"]
      BY <1>1, <2>2 DEF AnnounceRequest, SignalOffice, Goto
    <3>2. o \in Offices /\ officePC[o] = "wait" /\ officePC'[o] = "woken"
      BY <3>1 DEF Waiting, TypeOK
    <3>3. \A p \in Offices : p # o => officePC'[p] = officePC[p]
      BY <3>1 DEF TypeOK
    <3>4. shutdown' = shutdown
      BY <1>1 DEF AnnounceRequest
    <3> QED BY <2>2, <3>2, <3>3, <3>4 DEF NoLostWakeup, Waiting
  <2> QED BY <2>1, <2>2
<1>2. CASE ~AnnounceRequest
  <2>1. UNCHANGED <<officePC, requests, shutdown>>
    BY <1>2 DEF UserStep, OpenServerFIFO, OpenRefused, WriteRequest, MainStep,
       MakeServerFIFO, OpenForReading, ReadRequest, ReadNothing, TestShutdown,
       ClaimSlot, WaitForSlot, InsertRequest, SpuriousMainWakeup,
       officeVars, countVars
  <2> QED BY <2>1 DEF NoLostWakeup, Waiting
<1> QED BY <1>1, <1>2

\* An office that goes to sleep leaves nothing to be woken for, and one that
\* leaves wakes the others or leaves another behind that will.
LEMMA OfficeKeepsAwake ==
  ASSUME TypeOK, NoLostWakeup,
         NEW o \in Offices, OfficeStep(o) \/ SpuriousWakeup(o)
  PROVE  NoLostWakeup'
<1> USE DEF NoLostWakeup, Waiting
<1>1. CASE ExitDrained(o)
  BY <1>1 DEF ExitDrained, BroadcastAndLeave, countVars, TypeOK
<1>2. CASE ExitWoken(o)
  BY <1>2 DEF ExitWoken, Goto, countVars, TypeOK
<1>3. CASE WaitForRequest(o)
  BY <1>3 DEF WaitForRequest, Goto, countVars, TypeOK
<1>4. CASE SpuriousWakeup(o)
  BY <1>4 DEF SpuriousWakeup, Goto, countVars, TypeOK
<1>5. ASSUME NEW place \in OfficeStates \ {"wait", "woken", "exited"},
             Goto(o, place), officePC[o] \notin {"wait", "exited"},
             officePC[o] = "woken" => ~shutdown',
             shutdown => shutdown'
      PROVE  NoLostWakeup'
  BY <1>5 DEF Goto, TypeOK
<1>6. CASE ClaimRequest(o) \/ GetRequest(o) \/ BeginRequest(o)
  BY <1>5, <1>6 DEF ClaimRequest, InWaitLoop, GetRequest, BeginRequest,
     OfficeStates, countVars
<1>7. CASE HandleRequest(o) \/ HandleShutdown(o) \/ SetShutdown(o)
  BY <1>5, <1>7 DEF HandleRequest, HandleShutdown, SetShutdown, OfficeStates, countVars
<1>8. CASE OpenUserFIFO(o)
  <2>1. PICK result \in {"write", "userDown"} : Goto(o, result)
    BY <1>8 DEF OpenUserFIFO
  <2> QED BY <1>5, <1>8, <2>1 DEF OpenUserFIFO, OfficeStates, countVars
<1>9. CASE EndRequest(o) \/ FreeSlot(o)
  BY <1>5, <1>9 DEF EndRequest, ReplyFailed, FreeSlot, OfficeStates
<1>10. CASE WriteReply(o)
  <2>1. CASE Goto(o, "replied")
    BY <1>5, <1>10, <2>1 DEF WriteReply, OfficeStates, countVars
  <2>2. CASE UNCHANGED officePC
    BY <1>10, <2>2 DEF WriteReply, countVars
  <2> QED BY <1>10, <2>1, <2>2 DEF WriteReply
<1> QED BY <1>1, <1>2, <1>3, <1>4, <1>6, <1>7, <1>8, <1>9, <1>10 DEF OfficeStep

\* Neither a request nor the shutdown is slept through by all offices.
THEOREM WakeupCorrect == Spec => []NoLostWakeup
<1>1. Init => NoLostWakeup
  BY DEF Init, NoLostWakeup, Waiting
<1>2. TypeOK /\ NoLostWakeup /\ [Next]_vars => NoLostWakeup'
  <2> SUFFICES ASSUME TypeOK, NoLostWakeup, [Next]_vars PROVE NoLostWakeup'
    OBVIOUS
  <2>1. CASE UNCHANGED vars
    BY <2>1 DEF vars, officeVars, countVars, NoLostWakeup, Waiting
  <2> QED BY <2>1, OthersKeepAwake, OfficeKeepsAwake DEF Next
<1> QED BY <1>1, <1>2, TypeCorrect, PTL DEF Spec

-----------------------------------------------------------------------------
(* The circular buffer.                                                    *)

\* Reduction of a position at most one lap ahead.
LEMMA RingIndex ==
  ASSUME NEW S \in Nat \ {0}, NEW x \in Nat, x < 2 * S
  PROVE  x % S = IF x < S THEN x ELSE x - S
<1>1. CASE x < S
  BY <1>1, Z3
<1>2. CASE ~(x < S)
  <2>1. x % S = x - S
    BY <1>2, Z3
  <2> QED BY <2>1, <1>2
<1> QED BY <1>1, <1>2

\* The number of filled positions, and what is known of the quantities that
\* BufferSafe relates.
LEMMA BufferQuantities ==
  ASSUME TypeOK, BufferSafe
  PROVE  /\ slots \in Nat /\ requests \in Nat
         /\ Cardinality(HaveToken) \in Nat /\ Cardinality(Serving) \in Nat
         /\ Filled \in 0 .. MAX_SAVED_REQUESTS
         /\ MAX_SAVED_REQUESTS \in Nat \ {0}
<1>1. Cardinality(HaveToken) \in Nat /\ Cardinality(Serving) \in Nat
  BY CountType DEF HaveToken, Serving
<1>2. slots \in Nat /\ requests \in Nat /\ MAX_SAVED_REQUESTS \in Nat \ {0}
  BY QueueAssumption DEF TypeOK, BufferSafe
<1>3. One(mainPC = "insert") \in 0 .. 1 /\ One(mainPC = "announce") \in 0 .. 1
  BY DEF One
<1>4. Filled \in Nat
  BY <1>1, <1>2, <1>3 DEF Filled
<1>5. Filled <= MAX_SAVED_REQUESTS
  BY <1>1, <1>2, <1>3, <1>4 DEF BufferSafe
<1> QED BY <1>1, <1>2, <1>4, <1>5

\* Filling the position at inputIndex keeps the indices Filled apart.
LEMMA InsertMovesIndex ==
  ASSUME NEW S \in Nat \ {0}, NEW out \in 0 .. S - 1, NEW n \in 0 .. S - 1,
         NEW in, in = (out + n) % S
  PROVE  (in + 1) % S = (out + (n + 1)) % S
<1> DEFINE x == out + n
           y == in + 1
           z == out + (n + 1)
<1>1. x \in Nat /\ x < 2 * S /\ z \in Nat /\ z < 2 * S
  OBVIOUS
<1>2. in = IF x < S THEN x ELSE x - S
  <2> HIDE DEF x
  <2>1. in = x % S
    BY DEF x
  <2> QED BY <1>1, <2>1, RingIndex
<1>3. y \in Nat /\ y < 2 * S
  BY <1>2
<1>4. y % S = IF y < S THEN y ELSE y - S
  <2> HIDE DEF y
  <2> QED BY <1>3, RingIndex
<1>5. z % S = IF z < S THEN z ELSE z - S
  <2> HIDE DEF z
  <2> QED BY <1>1, RingIndex
<1> HIDE DEF x, y, z
<1>6. y % S = z % S
  <2>1. y = in + 1 /\ z = x + 1 /\ x \in Nat
    BY <1>1 DEF x, y, z
  <2> QED BY <1>1, <1>2, <1>3, <1>4, <1>5, <2>1
<1> QED BY <1>6 DEF y, z

\* So does emptying the one at outputIndex.
LEMMA RemoveMovesIndex ==
  ASSUME NEW S \in Nat \ {0}, NEW out \in 0 .. S - 1, NEW n \in 1 .. S,
         NEW in, in = (out + n) % S
  PROVE  in = (((out + 1) % S) + (n - 1)) % S
<1>1. CASE out + 1 < S
  <2>1. (out + 1) % S = out + 1
    BY <1>1, Z3
  <2>2. (out + 1) + (n - 1) = out + n
    OBVIOUS
  <2> QED BY <2>1, <2>2
<1>2. CASE out + 1 = S
  <2>1. (out + 1) % S = 0 /\ 0 + (n - 1) = n - 1
    BY <1>2, Z3
  <2>2. (n - 1) % S = n - 1
    BY Z3
  <2>3. (out + n) % S = n - 1
    <3>1. out + n = S + (n - 1)
      BY <1>2
    <3>2. (S + (n - 1)) % S = n - 1
      BY Z3
    <3> QED BY <3>1, <3>2
  <2> QED BY <2>1, <2>2, <2>3
<1> QED BY <1>1, <1>2

\* A step of an office keeps the counters and the indices in agreement.
LEMMA OfficeKeepsBuffer ==
  ASSUME TypeOK, BufferSafe, NEW o \in Offices, OfficeStep(o) \/ SpuriousWakeup(o)
  PROVE  BufferSafe'
<1> DEFINE token == Cardinality(HaveToken)
           serving == Cardinality(Serving)
<1>1. ASSUME NEW place, Goto(o, place)
      PROVE  /\ token' = token - One(officePC[o] = "pop") + One(place = "pop")
             /\ serving' = serving - One(officePC[o] \in ServingPlaces)
                                 + One(place \in ServingPlaces)
             /\ place = "pop" => ~(place \in ServingPlaces)
             /\ officePC[o] = "pop" => ~(officePC[o] \in ServingPlaces)
  <2>1. token' = token - One(officePC[o] \in {"pop"}) + One(place \in {"pop"})
    BY <1>1, CountMove DEF HaveToken
  <2>2. serving' = serving - One(officePC[o] \in ServingPlaces)
                           + One(place \in ServingPlaces)
    BY <1>1, CountMove DEF Serving, ServingPlaces, ActivePlaces
  <2> QED BY <2>1, <2>2 DEF One, ServingPlaces, ActivePlaces
<1>2. /\ slots \in Nat /\ requests \in Nat /\ token \in Nat /\ serving \in Nat
      /\ Filled \in 0 .. MAX_SAVED_REQUESTS /\ MAX_SAVED_REQUESTS \in Nat \ {0}
  BY BufferQuantities
<1>14. token' \in Nat /\ serving' \in Nat
  BY CountType DEF HaveToken, Serving
<1>3. Filled = requests + token + One(mainPC = "announce")
  BY DEF Filled
<1>4. Filled' = requests' + token' + One(mainPC' = "announce")
  BY DEF Filled
<1> HIDE DEF token, serving
<1> DEFINE Same == UNCHANGED <<inputIndex, outputIndex>>
<1>5. ASSUME Same, slots' = slots, requests' = requests, mainPC' = mainPC,
             token' = token, serving' <= serving, serving' \in Nat
      PROVE  BufferSafe'
  <2>1. Filled' = Filled
    BY <1>3, <1>4, <1>5
  <2> QED BY <1>2, <1>5, <2>1 DEF BufferSafe, serving, One
<1>6. CASE ExitDrained(o)
  <2>1. HaveToken' = HaveToken /\ Serving' = Serving
    BY <1>6, CountBroadcast DEF ExitDrained, HaveToken, Serving, ServingPlaces, ActivePlaces
  <2>2. token' = token /\ serving' = serving
    BY <2>1 DEF token, serving
  <2> QED BY <1>2, <1>5, <1>6, <2>2 DEF ExitDrained, mainVars, bufferVars, countVars
<1>7. CASE ExitWoken(o) \/ WaitForRequest(o) \/ SpuriousWakeup(o)
  <2>1. token' = token /\ serving' = serving
    BY <1>1, <1>2, <1>7 DEF ExitWoken, WaitForRequest, InWaitLoop, SpuriousWakeup,
       One, ServingPlaces, ActivePlaces
  <2> QED BY <1>2, <1>5, <1>7, <2>1 DEF ExitWoken, WaitForRequest, SpuriousWakeup,
       mainVars, bufferVars, countVars
<1>8. CASE ClaimRequest(o)
  <2>1. token' = token + 1 /\ serving' = serving
    BY <1>1, <1>2, <1>8 DEF ClaimRequest, InWaitLoop, One, ServingPlaces, ActivePlaces
  <2>2. Filled' = Filled /\ requests' \in Nat
    BY <1>2, <1>3, <1>4, <1>8, <2>1 DEF ClaimRequest, mainVars, One
  <2> QED BY <1>8, <2>1, <2>2 DEF ClaimRequest, BufferSafe, mainVars, bufferVars, serving
<1>9. CASE GetRequest(o)
  <2>1. token' = token - 1 /\ serving' = serving + 1
    BY <1>1, <1>2, <1>9 DEF GetRequest, One, ServingPlaces, ActivePlaces
  <2>2. token' \in Nat
    BY <1>14
  <2>3. Filled' = Filled - 1 /\ Filled \in 1 .. MAX_SAVED_REQUESTS
    BY <1>2, <1>3, <1>4, <1>9, <2>1, <2>2 DEF GetRequest, mainVars, countVars, One
  <2>4. inputIndex = (NextIndex(outputIndex) + (Filled - 1)) % MAX_SAVED_REQUESTS
    BY <1>2, <2>3, RemoveMovesIndex DEF BufferSafe, TypeOK, Indices, NextIndex
  <2>5. inputIndex' = (outputIndex' + Filled') % MAX_SAVED_REQUESTS
    BY <1>9, <2>3, <2>4 DEF GetRequest
  <2> QED
    BY <1>2, <1>9, <2>1, <2>3, <2>5
       DEF GetRequest, BufferSafe, mainVars, countVars, serving, One
<1>10. CASE BeginRequest(o) \/ HandleRequest(o) \/ HandleShutdown(o) \/ SetShutdown(o)
  <2>1. token' = token /\ serving' = serving
    BY <1>1, <1>2, <1>10 DEF BeginRequest, HandleRequest, HandleShutdown, SetShutdown,
       One, ServingPlaces, ActivePlaces
  <2> QED BY <1>2, <1>5, <1>10, <2>1 DEF BeginRequest, HandleRequest, HandleShutdown,
       SetShutdown, mainVars, bufferVars, countVars
<1>11. CASE OpenUserFIFO(o)
  <2>1. PICK result \in {"write", "userDown"} : Goto(o, result)
    BY <1>11 DEF OpenUserFIFO
  <2>2. token' = token /\ serving' = serving
    BY <1>1, <1>2, <1>11, <2>1 DEF OpenUserFIFO, One, ServingPlaces, ActivePlaces
  <2> QED BY <1>2, <1>5, <1>11, <2>2 DEF OpenUserFIFO, mainVars, bufferVars, countVars
<1>12. CASE EndRequest(o)
  <2>1. token' = token /\ (serving' = serving \/ serving' = serving - 1)
    BY <1>1, <1>2, <1>12 DEF EndRequest, ReplyFailed, One, ServingPlaces, ActivePlaces
  <2>2. serving' \in Nat
    BY <1>14
  <2> QED BY <1>2, <1>5, <1>12, <2>1, <2>2 DEF EndRequest, mainVars, bufferVars
<1>13. CASE FreeSlot(o)
  <2>1. token' = token /\ serving' = serving - 1
    BY <1>1, <1>2, <1>13 DEF FreeSlot, One, ServingPlaces, ActivePlaces
  <2>2. /\ mainPC' = "announce" <=> mainPC = "announce"
        /\ mainPC' = "insert" <=> mainPC = "insert"
    BY <1>13 DEF FreeSlot
  <2>3. Filled' = Filled
    BY <1>3, <1>4, <1>13, <2>1, <2>2 DEF FreeSlot, One
  <2> QED BY <1>2, <1>13, <2>1, <2>2, <2>3 DEF FreeSlot, BufferSafe, bufferVars, serving, One
<1>15. CASE WriteReply(o)
  <2>1. Goto(o, "replied") => token' = token /\ serving' = serving
    BY <1>1, <1>2, <1>15 DEF WriteReply, One, ServingPlaces, ActivePlaces
  <2>2. officePC' = officePC => token' = token /\ serving' = serving
    BY DEF token, serving, HaveToken, Serving, At
  <2>3. token' = token /\ serving' = serving
    BY <1>15, <2>1, <2>2 DEF WriteReply
  <2> QED BY <1>2, <1>5, <1>15, <2>3 DEF WriteReply, mainVars, bufferVars, countVars
<1> QED
  BY <1>6, <1>7, <1>8, <1>9, <1>10, <1>11, <1>12, <1>13, <1>15 DEF OfficeStep

\* So does a step of the main thread; users do not touch them.
LEMMA OthersKeepBuffer ==
  ASSUME TypeOK, BufferSafe,
         (\E u \in Users : UserStep(u)) \/ MainStep \/ SpuriousMainWakeup
  PROVE  BufferSafe'
<1> DEFINE token == Cardinality(HaveToken)
           serving == Cardinality(Serving)
<1>1. /\ slots \in Nat /\ requests \in Nat /\ token \in Nat /\ serving \in Nat
      /\ Filled \in 0 .. MAX_SAVED_REQUESTS /\ MAX_SAVED_REQUESTS \in Nat \ {0}
  BY BufferQuantities
<1>2. Filled = requests + token + One(mainPC = "announce")
  BY DEF Filled
<1>3. Filled' = requests' + token' + One(mainPC' = "announce")
  BY DEF Filled
<1>4. officePC' = officePC => token' = token /\ serving' = serving
  BY DEF HaveToken, Serving, At
<1>5. CASE AnnounceRequest
  <2>1. HaveToken' = HaveToken /\ Serving' = Serving
    BY <1>5, CountSignal DEF AnnounceRequest, HaveToken, Serving, ServingPlaces, ActivePlaces
  <2>2. token' = token /\ serving' = serving
    BY <2>1
  <2> HIDE DEF token, serving
  <2>3. Filled' = Filled /\ requests' \in Nat
    BY <1>1, <1>2, <1>3, <1>5, <2>2 DEF AnnounceRequest, MainGoto, One
  <2> QED
    BY <1>1, <1>5, <2>2, <2>3
       DEF AnnounceRequest, MainGoto, BufferSafe, bufferVars, serving, One
<1> HIDE DEF token, serving
<1>6. CASE ClaimSlot
  <2>1. token' = token /\ serving' = serving
    BY <1>4, <1>6 DEF ClaimSlot, officeVars
  <2>2. Filled' = Filled /\ slots > 0
    BY <1>2, <1>3, <1>6, <2>1 DEF ClaimSlot, SlotFree, MainGoto, One
  <2> QED
    BY <1>1, <1>6, <2>1, <2>2
       DEF ClaimSlot, MainGoto, BufferSafe, bufferVars, serving, One
<1>7. CASE InsertRequest
  <2>1. token' = token /\ serving' = serving
    BY <1>4, <1>7 DEF InsertRequest, officeVars
  <2>2. Filled' = Filled + 1
    BY <1>1, <1>2, <1>3, <1>7, <2>1 DEF InsertRequest, MainGoto, countVars, One
  <2>3. Filled \in 0 .. MAX_SAVED_REQUESTS - 1
    BY <1>1, <1>7 DEF InsertRequest, BufferSafe, serving, One
  <2>4. NextIndex(inputIndex) = (outputIndex + (Filled + 1)) % MAX_SAVED_REQUESTS
    BY <1>1, <2>3, InsertMovesIndex DEF BufferSafe, TypeOK, Indices, NextIndex
  <2>5. inputIndex' = (outputIndex' + Filled') % MAX_SAVED_REQUESTS
    BY <1>7, <2>2, <2>4 DEF InsertRequest
  <2> QED
    BY <1>1, <1>7, <2>1, <2>2, <2>3, <2>5
       DEF InsertRequest, MainGoto, BufferSafe, countVars, serving, One
<1>8. CASE ~(AnnounceRequest \/ ClaimSlot \/ InsertRequest)
  <2>1. /\ UNCHANGED <<officePC, slots, requests, inputIndex, outputIndex>>
        /\ mainPC' = mainPC
             \/ {mainPC, mainPC'} \cap {"insert", "announce"} = {}
    BY <1>8 DEF UserStep, OpenServerFIFO, OpenRefused, WriteRequest, MainStep,
       MakeServerFIFO, OpenForReading, ReadRequest, ReadNothing, TestShutdown,
       WaitForSlot, SpuriousMainWakeup, MainGoto, mainVars, officeVars,
       bufferVars, countVars
  <2>2. One(mainPC' = "insert") = One(mainPC = "insert") /\ Filled' = Filled
    BY <1>2, <1>3, <1>4, <2>1 DEF One
  <2> QED BY <1>4, <2>1, <2>2 DEF BufferSafe, serving
<1> QED BY <1>5, <1>6, <1>7, <1>8

\* The counters slots and requests and the two indices always agree, so no
\* request is overwritten or taken twice, for any number of slots and offices.
THEOREM BufferCorrect == Spec => []BufferSafe
<1>1. Init => BufferSafe
  <2> SUFFICES ASSUME Init PROVE BufferSafe
    OBVIOUS
  <2>1. HaveToken = {} /\ Serving = {}
    BY DEF Init, HaveToken, Serving, At, ServingPlaces, ActivePlaces
  <2>2. Filled = 0
    BY <2>1, FS_EmptySet DEF Init, Filled, One
  <2>3. (0 + 0) % MAX_SAVED_REQUESTS = 0
    BY QueueAssumption, Z3
  <2> QED
    BY <2>1, <2>2, <2>3, FS_EmptySet, QueueAssumption DEF Init, BufferSafe, One
<1>2. TypeOK /\ BufferSafe /\ [Next]_vars => BufferSafe'
  <2> SUFFICES ASSUME TypeOK, BufferSafe, [Next]_vars PROVE BufferSafe'
    OBVIOUS
  <2>1. CASE UNCHANGED vars
    BY <2>1 DEF vars, officeVars, countVars, bufferVars, mainVars, BufferSafe,
       Filled, HaveToken, Serving, At
  <2> QED BY <2>1, OthersKeepBuffer, OfficeKeepsBuffer DEF Next
<1> QED BY <1>1, <1>2, TypeCorrect, PTL DEF Spec

-----------------------------------------------------------------------------
(* The request path implements RequestChannel: what users write to the       *)
(* server FIFO comes out of the circular buffer once, in the order it was    *)
(* written.  Every step of a user, of the main thread and of an office is a  *)
(* Send, a Receive or no step of the channel.                                *)

\* The places of bankCycle and produceRequest where tlv holds a request that
\* is in the FIFO no more and in the buffer not yet.
Carrying == {"claim", "waitSlot", "wokenSlot", "insert"}

\* What main carries, and what lies between the two indices, are requests and
\* not what the buffer was initialised with.
HoldsRequests ==
  /\ mainPC \in Carrying => mainTlv \in Users
  /\ \A k \in 1 .. Filled :
       requestQueue[(outputIndex + k - 1) % MAX_SAVED_REQUESTS] \in Users

QueueInv == TypeOK /\ BufferSafe /\ HoldsRequests

-----------------------------------------------------------------------------
(* Positions of the circular buffer.                                       *)

\* Positions less than a lap apart are different slots.
LEMMA RingDistinct ==
  ASSUME NEW S \in Nat \ {0}, NEW out \in 0 .. S - 1,
         NEW a \in 0 .. S - 1, NEW b \in 0 .. S - 1, a # b
  PROVE  (out + a) % S # (out + b) % S
<1> DEFINE x == out + a
           y == out + b
<1>1. x \in Nat /\ x < 2 * S /\ y \in Nat /\ y < 2 * S
  OBVIOUS
<1>2. x % S = IF x < S THEN x ELSE x - S
  <2> HIDE DEF x
  <2> QED BY <1>1, RingIndex
<1>3. y % S = IF y < S THEN y ELSE y - S
  <2> HIDE DEF y
  <2> QED BY <1>1, RingIndex
<1> HIDE DEF x, y
<1>4. x - y = a - b /\ a - b \in Int /\ x - out \in 0 .. S - 1 /\ y - out \in 0 .. S - 1
  BY DEF x, y
<1>5. x % S # y % S
  BY <1>1, <1>2, <1>3, <1>4
<1> QED BY <1>5 DEF x, y

\* A position is the same slot counted from the next index.
LEMMA RingShift ==
  ASSUME NEW S \in Nat \ {0}, NEW out \in 0 .. S - 1, NEW a \in 0 .. S - 1
  PROVE  (((out + 1) % S) + a) % S = (out + (a + 1)) % S
<1>1. CASE out + 1 < S
  <2>1. (out + 1) % S = out + 1 /\ (out + 1) + a = out + (a + 1)
    BY <1>1, Z3
  <2> QED BY <2>1
<1>2. CASE out + 1 = S
  <2>1. (out + 1) % S = 0 /\ 0 + a = a
    BY <1>2, Z3
  <2>2. a % S = a
    BY Z3
  <2>3. out + (a + 1) = S + a /\ (S + a) % S = a
    BY <1>2, Z3
  <2> QED BY <2>1, <2>2, <2>3
<1> QED BY <1>1, <1>2

\* The slot at inputIndex is the one after the filled ones, and not one of them.
LEMMA InputIsNext ==
  ASSUME QueueInv, Filled < MAX_SAVED_REQUESTS
  PROVE  /\ (outputIndex + (Filled + 1) - 1) % MAX_SAVED_REQUESTS = inputIndex
         /\ \A k \in 1 .. Filled :
              (outputIndex + k - 1) % MAX_SAVED_REQUESTS # inputIndex
<1>1. /\ MAX_SAVED_REQUESTS \in Nat \ {0} /\ Filled \in Nat
      /\ outputIndex \in 0 .. MAX_SAVED_REQUESTS - 1
      /\ inputIndex = (outputIndex + Filled) % MAX_SAVED_REQUESTS
  BY BufferQuantities DEF QueueInv, BufferSafe, TypeOK, Indices
<1>2. outputIndex + (Filled + 1) - 1 = outputIndex + Filled
  BY <1>1
<1>3. ASSUME NEW k \in 1 .. Filled
      PROVE  (outputIndex + k - 1) % MAX_SAVED_REQUESTS # inputIndex
  <2>1. k - 1 \in 0 .. MAX_SAVED_REQUESTS - 1 /\ k - 1 # Filled
        /\ Filled \in 0 .. MAX_SAVED_REQUESTS - 1
        /\ outputIndex + k - 1 = outputIndex + (k - 1)
    BY <1>1
  <2>2. (outputIndex + (k - 1)) % MAX_SAVED_REQUESTS
          # (outputIndex + Filled) % MAX_SAVED_REQUESTS
    BY <1>1, <2>1, RingDistinct
  <2> QED BY <1>1, <2>1, <2>2
<1> QED BY <1>1, <1>2, <1>3

-----------------------------------------------------------------------------
(* Queued, InTransit and Pending.                                          *)

\* The three parts of the channel are sequences of requests.
LEMMA PendingType ==
  ASSUME QueueInv
  PROVE  /\ Queued \in Seq(Users) /\ Len(Queued) = Filled
         /\ InTransit \in Seq(Users)
         /\ serverFIFO \in Seq(Users)
         /\ Pending \in Seq(Users)
<1>1. Filled \in Nat
  BY BufferQuantities DEF QueueInv
<1>2. Queued \in [1 .. Filled -> Users]
  BY DEF Queued, QueueInv, HoldsRequests
<1>3. Queued \in Seq(Users) /\ Len(Queued) = Filled
  BY <1>1, <1>2, SeqDef
<1>4. InTransit \in Seq(Users) /\ serverFIFO \in Seq(Users)
  BY EmptySeq DEF InTransit, QueueInv, HoldsRequests, Carrying, TypeOK
<1>5. Pending \in Seq(Users)
  BY <1>3, <1>4, ConcatProperties DEF Pending
<1> QED BY <1>3, <1>4, <1>5

\* The buffer holds what it held while neither its slots, nor where it starts,
\* nor how many are filled changes.
LEMMA SameQueued ==
  ASSUME Filled' = Filled, UNCHANGED <<requestQueue, outputIndex>>
  PROVE  Queued' = Queued
BY DEF Queued

\* A step that keeps Filled, the buffer, what main carries and the FIFO leaves
\* the channel as it is.
LEMMA SamePending ==
  ASSUME Filled' = Filled, UNCHANGED <<requestQueue, outputIndex, mainTlv, serverFIFO>>,
         mainPC' \in Carrying <=> mainPC \in Carrying
  PROVE  Pending' = Pending
<1>1. Queued' = Queued
  BY SameQueued
<1>2. InTransit' = InTransit
  BY DEF InTransit, Carrying
<1> QED BY <1>1, <1>2 DEF Pending

\* What is appended to the last of three sequences is appended to all.
LEMMA AppendToLast ==
  ASSUME NEW S, NEW a \in Seq(S), NEW b \in Seq(S), NEW c \in Seq(S), NEW e \in S
  PROVE  a \o b \o Append(c, e) = Append(a \o b \o c, e)
<1>1. a \o b \in Seq(S) /\ a \o b \o c \in Seq(S) /\ <<e>> \in Seq(S)
  BY ConcatProperties
<1>2. Append(c, e) = c \o <<e>> /\ Append(a \o b \o c, e) = (a \o b \o c) \o <<e>>
  BY <1>1, AppendIsConcat
<1> QED BY <1>1, <1>2, ConcatAssociative

\* Taking the head of a sequence and putting it before the tail changes nothing.
LEMMA HeadThenTail ==
  ASSUME NEW S, NEW s \in Seq(S), s # << >>
  PROVE  <<Head(s)>> \in Seq(S) /\ Tail(s) \in Seq(S) /\ <<Head(s)>> \o Tail(s) = s
<1>1. /\ Head(s) \in S /\ Tail(s) \in Seq(S) /\ Len(Tail(s)) = Len(s) - 1
      /\ Len(s) \in Nat \ {0}
      /\ \A i \in 1 .. Len(Tail(s)) : Tail(s)[i] = s[i + 1]
  BY HeadTailProperties, EmptySeq
<1>2. <<Head(s)>> \in Seq(S) /\ Len(<<Head(s)>>) = 1 /\ <<Head(s)>>[1] = Head(s)
  BY <1>1
<1>3. /\ <<Head(s)>> \o Tail(s) \in Seq(S)
      /\ Len(<<Head(s)>> \o Tail(s)) = Len(s)
      /\ \A i \in 1 .. Len(s) : (<<Head(s)>> \o Tail(s))[i] =
           IF i <= 1 THEN Head(s) ELSE Tail(s)[i - 1]
  BY <1>1, <1>2, ConcatProperties
<1>4. \A i \in 1 .. Len(s) : (<<Head(s)>> \o Tail(s))[i] = s[i]
  BY <1>1, <1>3
<1> QED BY <1>1, <1>2, <1>3, <1>4, SeqEqual

\* The head of a concatenation is that of its first part.
LEMMA HeadOfConcat ==
  ASSUME NEW S, NEW a \in Seq(S), NEW b \in Seq(S), a # << >>
  PROVE  /\ a \o b # << >>
         /\ Head(a \o b) = Head(a)
         /\ Tail(a \o b) = Tail(a) \o b
<1>1. /\ a \o b \in Seq(S) /\ Len(a \o b) = Len(a) + Len(b)
      /\ \A i \in 1 .. Len(a) + Len(b) : (a \o b)[i] =
           IF i <= Len(a) THEN a[i] ELSE b[i - Len(a)]
      /\ Len(a) \in Nat \ {0} /\ Len(b) \in Nat
  BY ConcatProperties, EmptySeq, LenProperties
<1>2. a \o b # << >>
  BY <1>1, EmptySeq
<1>3. Head(a \o b) = Head(a)
  BY <1>1, <1>2
<1>4. /\ Tail(a) \in Seq(S) /\ Len(Tail(a)) = Len(a) - 1
      /\ \A i \in 1 .. Len(a) - 1 : Tail(a)[i] = a[i + 1]
      /\ Tail(a \o b) \in Seq(S) /\ Len(Tail(a \o b)) = Len(a) + Len(b) - 1
      /\ \A i \in 1 .. Len(a) + Len(b) - 1 : Tail(a \o b)[i] = (a \o b)[i + 1]
  BY <1>1, <1>2, HeadTailProperties
<1>5. /\ Tail(a) \o b \in Seq(S) /\ Len(Tail(a) \o b) = Len(a) - 1 + Len(b)
      /\ \A i \in 1 .. Len(a) - 1 + Len(b) : (Tail(a) \o b)[i] =
           IF i <= Len(a) - 1 THEN Tail(a)[i] ELSE b[i - (Len(a) - 1)]
  BY <1>4, ConcatProperties
<1>6. ASSUME NEW i \in 1 .. Len(a) + Len(b) - 1
      PROVE  Tail(a \o b)[i] = (Tail(a) \o b)[i]
  <2>1. Tail(a \o b)[i] = IF i + 1 <= Len(a) THEN a[i + 1] ELSE b[(i + 1) - Len(a)]
    BY <1>1, <1>4
  <2>2. (Tail(a) \o b)[i] = IF i <= Len(a) - 1 THEN a[i + 1] ELSE b[i - (Len(a) - 1)]
    BY <1>1, <1>4, <1>5
  <2>3. (i + 1) - Len(a) = i - (Len(a) - 1) /\ (i + 1 <= Len(a) <=> i <= Len(a) - 1)
    BY <1>1
  <2> QED BY <2>1, <2>2, <2>3
<1>7. Len(a) - 1 + Len(b) = Len(a) + Len(b) - 1
  BY <1>1
<1>8. Tail(a \o b) = Tail(a) \o b
  BY <1>4, <1>5, <1>6, <1>7, SeqEqual
<1> QED BY <1>2, <1>3, <1>8

-----------------------------------------------------------------------------
(* How many positions are filled.                                          *)

\* An office that moves changes the number of filled positions by the request
\* it claims or takes.
LEMMA FilledMove ==
  ASSUME TypeOK, BufferSafe, NEW o \in Offices, NEW place, Goto(o, place), mainPC' = mainPC,
         requests' \in Int
  PROVE  Filled' = Filled + (requests' - requests)
                     - One(officePC[o] = "pop") + One(place = "pop")
<1>1. Cardinality(HaveToken)' =
        Cardinality(HaveToken) - One(officePC[o] \in {"pop"}) + One(place \in {"pop"})
  BY CountMove DEF HaveToken
<1>2. /\ Cardinality(HaveToken) \in Int /\ requests \in Int
      /\ One(mainPC = "announce") \in Int
  BY BufferQuantities DEF One
<1> QED BY <1>1, <1>2 DEF Filled, One

\* A step that moves no office, and main neither to nor from announcing a
\* request, fills and empties nothing.
LEMMA FilledKept ==
  ASSUME UNCHANGED <<officePC, requests>>,
         mainPC' = "announce" <=> mainPC = "announce"
  PROVE  Filled' = Filled
BY DEF Filled, HaveToken, At, One

\* An office that claims a request takes the token for one that is filled, and
\* only copying it out empties a position.
LEMMA OfficeFills ==
  ASSUME TypeOK, BufferSafe, NEW o \in Offices, OfficeStep(o) \/ SpuriousWakeup(o),
         ~GetRequest(o)
  PROVE  Filled' = Filled
<1> DEFINE Moves(place, n) ==
      /\ Goto(o, place) /\ mainPC' = mainPC /\ requests' = requests - n
      /\ n = One(place = "pop") /\ officePC[o] # "pop"
<1>1. ASSUME NEW place, NEW n \in 0 .. 1, Moves(place, n)
      PROVE  Filled' = Filled
  BY <1>1, FilledMove, BufferQuantities DEF One
<1> HIDE DEF Moves
<1>2. CASE ExitDrained(o)
  <2>1. HaveToken' = HaveToken
    BY <1>2, CountBroadcast DEF ExitDrained, HaveToken
  <2> QED BY <1>2, <2>1 DEF ExitDrained, Filled, mainVars, countVars
<1>3. CASE ExitWoken(o) \/ WaitForRequest(o) \/ SpuriousWakeup(o)
  <2>1. Moves("exited", 0) \/ Moves("wait", 0) \/ Moves("woken", 0)
    BY <1>3 DEF Moves, ExitWoken, WaitForRequest, SpuriousWakeup, InWaitLoop,
       One, mainVars, countVars, TypeOK
  <2> QED BY <2>1, <1>1
<1>4. CASE ClaimRequest(o)
  <2>1. Moves("pop", 1)
    BY <1>4 DEF Moves, ClaimRequest, InWaitLoop, One, mainVars
  <2> QED BY <2>1, <1>1
<1>5. CASE BeginRequest(o) \/ HandleRequest(o) \/ HandleShutdown(o) \/ SetShutdown(o)
  <2>1. Moves("handle", 0) \/ Moves("reply", 0) \/ Moves("flag", 0)
    BY <1>5 DEF Moves, BeginRequest, HandleRequest, HandleShutdown, SetShutdown,
       One, mainVars, countVars, TypeOK
  <2> QED BY <2>1, <1>1
<1>6. CASE OpenUserFIFO(o)
  <2>1. Moves("write", 0) \/ Moves("userDown", 0)
    BY <1>6 DEF Moves, OpenUserFIFO, One, mainVars, countVars, TypeOK
  <2> QED BY <2>1, <1>1
<1>7. CASE EndRequest(o)
  <2>1. Moves("top", 0) \/ Moves("free", 0)
    BY <1>7 DEF Moves, EndRequest, ReplyFailed, One, mainVars, TypeOK
  <2> QED BY <2>1, <1>1
<1>8. CASE FreeSlot(o)
  <2>1. Cardinality(HaveToken)' = Cardinality(HaveToken)
    <3>1. Cardinality(HaveToken)' =
            Cardinality(HaveToken) - One(officePC[o] \in {"pop"}) + One("top" \in {"pop"})
      BY <1>8, CountMove DEF FreeSlot, HaveToken
    <3> QED BY <1>8, <3>1, BufferQuantities DEF FreeSlot, One
  <2>2. mainPC' = "announce" <=> mainPC = "announce"
    BY <1>8 DEF FreeSlot
  <2> QED BY <1>8, <2>1, <2>2 DEF FreeSlot, Filled, One
<1>9. CASE WriteReply(o)
  <2>1. CASE Goto(o, "replied")
    <3>1. Moves("replied", 0)
      BY <1>9, <2>1 DEF Moves, WriteReply, One, mainVars, countVars, TypeOK
    <3> QED BY <3>1, <1>1
  <2>2. CASE UNCHANGED officePC
    BY <1>9, <2>2, FilledKept DEF WriteReply, mainVars, countVars
  <2> QED BY <1>9, <2>1, <2>2 DEF WriteReply
<1> QED BY <1>2, <1>3, <1>4, <1>5, <1>6, <1>7, <1>8, <1>9 DEF OfficeStep

-----------------------------------------------------------------------------
(* The steps.  Users who write are Sends, offices that take a request are  *)
(* Receives; for the rest the channel does not change.                     *)

Sent == {u \in Users : user[u] = "sent"}

ChannelStep == [Channel!Next]_(Channel!vars)

\* A step that changes no part of the channel maps to no step, and keeps what
\* the buffer and main hold.
LEMMA Stutters ==
  ASSUME QueueInv, Filled' = Filled,
         UNCHANGED <<requestQueue, outputIndex, mainTlv, serverFIFO, tlv>>,
         mainPC' \in Carrying <=> mainPC \in Carrying, Sent' = Sent
  PROVE  HoldsRequests' /\ ChannelStep
<1>1. Pending' = Pending
  BY SamePending
<1>2. HoldsRequests'
  BY DEF QueueInv, HoldsRequests
<1> QED BY <1>1, <1>2 DEF ChannelStep, Channel!vars, Sent

\* The steps of a user.
LEMMA UserSends ==
  ASSUME QueueInv, NEW u \in Users, UserStep(u)
  PROVE  HoldsRequests' /\ ChannelStep
<1>1. Filled' = Filled
  BY FilledKept DEF UserStep, OpenServerFIFO, OpenRefused, WriteRequest,
     officeVars, countVars, mainVars
<1>2. UNCHANGED <<requestQueue, outputIndex, mainTlv, mainPC, tlv>>
  BY DEF UserStep, OpenServerFIFO, OpenRefused, WriteRequest,
     officeVars, mainVars, bufferVars
<1>3. CASE OpenServerFIFO(u) \/ OpenRefused(u)
  <2>1. Sent' = Sent /\ serverFIFO' = serverFIFO
    BY <1>3 DEF OpenServerFIFO, OpenRefused, Sent, QueueInv, TypeOK
  <2> QED BY <1>1, <1>2, <2>1, Stutters
<1>4. CASE WriteRequest(u) /\ user' = [user EXCEPT ![u] = "killed"]
  <2>1. Sent' = Sent /\ serverFIFO' = serverFIFO
    BY <1>4 DEF WriteRequest, Sent, QueueInv, TypeOK
  <2> QED BY <1>1, <1>2, <2>1, Stutters
<1>5. CASE /\ WriteRequest(u) /\ user' = [user EXCEPT ![u] = "sent"]
           /\ serverFIFO' = Append(serverFIFO, u)
  <2>1. u \notin Sent /\ Sent' = Sent \cup {u}
    BY <1>5 DEF WriteRequest, Sent, QueueInv, TypeOK
  <2>2. Queued' = Queued /\ InTransit' = InTransit
    BY <1>1, <1>2, SameQueued DEF InTransit
  <2>3. Pending' = Append(Pending, u)
    BY <1>5, <2>2, PendingType, AppendToLast DEF Pending
  <2>4. HoldsRequests'
    BY <1>1, <1>2 DEF QueueInv, HoldsRequests
  <2>5. Channel!Send(u)
    BY <1>2, <2>1, <2>3 DEF Channel!Send, Sent
  <2> QED BY <2>4, <2>5 DEF ChannelStep, Channel!Next
<1> QED BY <1>3, <1>4, <1>5 DEF UserStep, WriteRequest

\* The steps of main: a request moves from the FIFO to tlv and from there to
\* the buffer, behind those that are there.
LEMMA MainCarries ==
  ASSUME QueueInv, MainStep \/ SpuriousMainWakeup
  PROVE  HoldsRequests' /\ ChannelStep
<1>1. Sent' = Sent /\ tlv' = tlv
  BY DEF Sent, MainStep, MakeServerFIFO, OpenForReading, ReadRequest, ReadNothing,
     TestShutdown, ClaimSlot, WaitForSlot, InsertRequest, AnnounceRequest,
     SpuriousMainWakeup, fifoVars, officeVars
<1>2. CASE ReadRequest
  <2>1. Queued' = Queued
    BY <1>2, FilledKept, SameQueued
       DEF ReadRequest, MainGoto, officeVars, countVars, bufferVars
  <2>2. InTransit = << >> /\ InTransit' = <<Head(serverFIFO)>>
    BY <1>2 DEF ReadRequest, MainGoto, InTransit
  <2>3. Pending' = Pending
    <3>1. serverFIFO # << >> /\ serverFIFO' = Tail(serverFIFO)
      BY <1>2 DEF ReadRequest
    <3>2. Queued \o InTransit = Queued
      BY <2>2, PendingType, ConcatEmptySeq
    <3> QED BY <2>1, <2>2, <3>1, <3>2, PendingType, HeadThenTail, ConcatAssociative DEF Pending
  <2>4. HoldsRequests'
    <3>1. Head(serverFIFO) \in Users
      BY <1>2, PendingType, HeadTailProperties DEF ReadRequest
    <3>2. Filled' = Filled
      BY <1>2, FilledKept DEF ReadRequest, MainGoto, officeVars, countVars
    <3> QED BY <1>2, <3>1, <3>2 DEF ReadRequest, bufferVars, QueueInv, HoldsRequests
  <2> QED BY <1>1, <2>3, <2>4 DEF ChannelStep, Channel!vars, Sent
<1>3. CASE InsertRequest
  <2>1. Filled' = Filled + 1 /\ Filled < MAX_SAVED_REQUESTS
    <3>1. Cardinality(HaveToken)' = Cardinality(HaveToken)
      BY <1>3 DEF InsertRequest, officeVars, HaveToken, At
    <3> QED BY <1>3, <3>1, BufferQuantities
            DEF QueueInv, InsertRequest, MainGoto, countVars, Filled, BufferSafe, One
  <2>2. mainTlv \in Users /\ Filled \in Nat
    BY <1>3, BufferQuantities DEF InsertRequest, QueueInv, HoldsRequests, Carrying
  <2>3. requestQueue' = [requestQueue EXCEPT ![inputIndex] = mainTlv] /\ outputIndex' = outputIndex
    BY <1>3 DEF InsertRequest
  <2>4. /\ requestQueue'[(outputIndex' + (Filled + 1) - 1) % MAX_SAVED_REQUESTS] = mainTlv
        /\ \A k \in 1 .. Filled :
             requestQueue'[(outputIndex' + k - 1) % MAX_SAVED_REQUESTS]
               = requestQueue[(outputIndex + k - 1) % MAX_SAVED_REQUESTS]
    BY <2>1, <2>3, InputIsNext DEF QueueInv, TypeOK
  <2>5. HoldsRequests'
    <3>1. mainPC' \notin Carrying
      BY <1>3 DEF InsertRequest, MainGoto, Carrying
    <3>2. \A k \in 1 .. Filled + 1 : k = Filled + 1 \/ k \in 1 .. Filled
      BY <2>2
    <3> QED BY <2>1, <2>2, <2>4, <3>1, <3>2 DEF QueueInv, HoldsRequests
  <2>6. Queued' = Append(Queued, mainTlv)
    <3>1. Queued' \in Seq(Users) /\ Len(Queued') = Filled + 1
      <4>1. Queued' \in [1 .. Filled + 1 -> Users]
        BY <2>1, <2>5 DEF Queued, HoldsRequests
      <4> QED BY <2>2, <4>1, SeqDef
    <3>2. /\ Append(Queued, mainTlv) \in Seq(Users)
          /\ Len(Append(Queued, mainTlv)) = Filled + 1
          /\ \A i \in 1 .. Filled : Append(Queued, mainTlv)[i] = Queued[i]
          /\ Append(Queued, mainTlv)[Filled + 1] = mainTlv
      BY <2>2, PendingType, AppendProperties
    <3>3. ASSUME NEW i \in 1 .. Filled + 1
          PROVE  Queued'[i] = Append(Queued, mainTlv)[i]
      <4>1. Queued'[i] = requestQueue'[(outputIndex' + i - 1) % MAX_SAVED_REQUESTS]
        BY <2>1 DEF Queued
      <4>2. CASE i = Filled + 1
        BY <2>4, <3>2, <4>1, <4>2
      <4>3. CASE i \in 1 .. Filled
        <5>1. Queued[i] = requestQueue[(outputIndex + i - 1) % MAX_SAVED_REQUESTS]
          BY <4>3 DEF Queued
        <5> QED BY <2>4, <3>2, <4>1, <4>3, <5>1
      <4>4. i = Filled + 1 \/ i \in 1 .. Filled
        BY <2>2
      <4> QED BY <4>2, <4>3, <4>4
    <3> QED BY <3>1, <3>2, <3>3, SeqEqual
  <2>7. InTransit = <<mainTlv>> /\ InTransit' = << >> /\ serverFIFO' = serverFIFO
    BY <1>3 DEF InsertRequest, MainGoto, InTransit, fifoVars
  <2>8. Pending' = Pending
    <3>1. Append(Queued, mainTlv) \in Seq(Users)
          /\ Append(Queued, mainTlv) = Queued \o <<mainTlv>>
      BY <2>2, PendingType, AppendProperties, AppendIsConcat
    <3>2. Append(Queued, mainTlv) \o << >> = Append(Queued, mainTlv)
      BY <3>1, ConcatEmptySeq
    <3> QED BY <2>6, <2>7, <3>1, <3>2 DEF Pending
  <2> QED BY <1>1, <2>5, <2>8 DEF ChannelStep, Channel!vars, Sent
<1>4. CASE AnnounceRequest
  <2>1. Filled' = Filled
    <3>1. HaveToken' = HaveToken
      BY <1>4, CountSignal DEF AnnounceRequest, HaveToken, QueueInv
    <3>2. Cardinality(HaveToken) \in Nat /\ requests \in Nat
      BY BufferQuantities DEF QueueInv
    <3> QED BY <1>4, <3>1, <3>2 DEF AnnounceRequest, MainGoto, Filled, One
  <2> QED BY <1>1, <1>4, <2>1, Stutters
          DEF AnnounceRequest, MainGoto, Carrying, fifoVars, bufferVars
<1>5. CASE ~(ReadRequest \/ InsertRequest \/ AnnounceRequest)
  <2>1. /\ UNCHANGED <<officePC, requests, requestQueue, outputIndex, mainTlv, serverFIFO>>
        /\ mainPC' = "announce" <=> mainPC = "announce"
        /\ mainPC' \in Carrying <=> mainPC \in Carrying
    BY <1>5 DEF MainStep, MakeServerFIFO, OpenForReading, ReadNothing, TestShutdown,
       ClaimSlot, WaitForSlot, SpuriousMainWakeup, MainGoto, Carrying,
       fifoVars, mainVars, bufferVars, countVars, officeVars
  <2> QED BY <1>1, <2>1, FilledKept, Stutters
<1> QED BY <1>2, <1>3, <1>4, <1>5

\* An office that copies a request out of the buffer receives the oldest one.
LEMMA TakeReceives ==
  ASSUME QueueInv, NEW o \in Offices, GetRequest(o)
  PROVE  HoldsRequests' /\ Channel!Receive(o)
<1>1. requests' = requests /\ mainPC' = mainPC /\ Goto(o, "begin") /\ officePC[o] = "pop"
  BY DEF GetRequest, countVars, mainVars
<1>2. Filled' = Filled - 1 /\ Filled \in 1 .. MAX_SAVED_REQUESTS
  <2>1. Filled' = Filled - 1
    BY <1>1, FilledMove, BufferQuantities DEF QueueInv, One
  <2>2. o \in HaveToken /\ IsFiniteSet(HaveToken)
    BY <1>1, QueueAssumption, FS_Subset DEF HaveToken, At
  <2>3. Cardinality(HaveToken) # 0
    BY <2>2, FS_EmptySet
  <2> QED BY <2>1, <2>3, BufferQuantities DEF QueueInv, Filled, One
<1>3. /\ requestQueue' = requestQueue /\ outputIndex' = NextIndex(outputIndex)
      /\ UNCHANGED <<mainTlv, serverFIFO>> /\ Sent' = Sent
      /\ tlv' = [tlv EXCEPT ![o] = requestQueue[outputIndex]]
  BY DEF GetRequest, OldestRequest, mainVars, fifoVars, Sent
<1>4. ASSUME NEW k \in 1 .. Filled - 1
      PROVE  requestQueue'[(outputIndex' + k - 1) % MAX_SAVED_REQUESTS]
               = requestQueue[(outputIndex + (k + 1) - 1) % MAX_SAVED_REQUESTS]
  <2>1. /\ MAX_SAVED_REQUESTS \in Nat \ {0} /\ outputIndex \in 0 .. MAX_SAVED_REQUESTS - 1
        /\ k - 1 \in 0 .. MAX_SAVED_REQUESTS - 1
        /\ outputIndex + (k + 1) - 1 = outputIndex + ((k - 1) + 1)
    BY <1>2, QueueAssumption DEF QueueInv, TypeOK, Indices
  <2>2. NextIndex(outputIndex) + k - 1 = ((outputIndex + 1) % MAX_SAVED_REQUESTS) + (k - 1)
    BY <2>1, NextIndexType DEF NextIndex, Indices
  <2> QED BY <1>3, <2>1, <2>2, RingShift
<1>5. HoldsRequests'
  BY <1>1, <1>2, <1>3, <1>4 DEF QueueInv, HoldsRequests
<1>6. /\ Queued # << >> /\ Head(Queued) = requestQueue[outputIndex]
      /\ Tail(Queued) = Queued'
  <2>1. Queued # << >> /\ Len(Queued) = Filled
    BY <1>2, PendingType, EmptySeq
  <2>2. Head(Queued) = Queued[1] /\ Queued[1] = requestQueue[outputIndex]
    <3>1. outputIndex + 1 - 1 = outputIndex /\ outputIndex % MAX_SAVED_REQUESTS = outputIndex
      <4>1. outputIndex \in 0 .. MAX_SAVED_REQUESTS - 1 /\ MAX_SAVED_REQUESTS \in Nat \ {0}
        BY QueueAssumption DEF QueueInv, TypeOK, Indices
      <4> QED BY <4>1, Z3
    <3>2. Queued[1] = requestQueue[(outputIndex + 1 - 1) % MAX_SAVED_REQUESTS]
      BY <1>2 DEF Queued
    <3> QED BY <2>1, <3>1, <3>2, PendingType
  <2>3. Queued' \in Seq(Users) /\ Len(Queued') = Filled - 1
    <3>1. Queued' \in [1 .. Filled - 1 -> Users]
      BY <1>2, <1>5 DEF Queued, HoldsRequests
    <3> QED BY <1>2, <3>1, SeqDef
  <2>4. /\ Tail(Queued) \in Seq(Users) /\ Len(Tail(Queued)) = Filled - 1
        /\ \A i \in 1 .. Filled - 1 : Tail(Queued)[i] = Queued[i + 1]
    BY <2>1, PendingType, HeadTailProperties
  <2>5. ASSUME NEW i \in 1 .. Filled - 1
        PROVE  Tail(Queued)[i] = Queued'[i]
    <3>1. Queued'[i] = requestQueue'[(outputIndex' + i - 1) % MAX_SAVED_REQUESTS]
      BY <1>2 DEF Queued
    <3>2. Queued[i + 1] = requestQueue[(outputIndex + (i + 1) - 1) % MAX_SAVED_REQUESTS]
      BY <1>2 DEF Queued
    <3> QED BY <1>4, <2>4, <3>1, <3>2
  <2>6. Tail(Queued) = Queued'
    BY <2>3, <2>4, <2>5, SeqEqual
  <2> QED BY <2>1, <2>2, <2>6
<1>7. InTransit' = InTransit
  BY <1>1, <1>3 DEF InTransit
<1>8. Pending # << >> /\ Head(Pending) = requestQueue[outputIndex] /\ Tail(Pending) = Pending'
  <2>1. /\ InTransit \o serverFIFO \in Seq(Users)
        /\ Pending = Queued \o (InTransit \o serverFIFO)
    BY PendingType, ConcatProperties, ConcatAssociative DEF Pending
  <2>2. Tail(Queued) \in Seq(Users)
    BY <1>6, PendingType, HeadTailProperties
  <2>3. Pending' = Tail(Queued) \o (InTransit \o serverFIFO)
    <3>1. Pending' = Tail(Queued) \o InTransit \o serverFIFO
      BY <1>3, <1>6, <1>7 DEF Pending
    <3>2. InTransit \in Seq(Users) /\ serverFIFO \in Seq(Users)
      BY PendingType
    <3>3. Tail(Queued) \o InTransit \o serverFIFO = Tail(Queued) \o (InTransit \o serverFIFO)
      BY <2>2, <3>2, ConcatAssociative
    <3> QED BY <3>1, <3>3
  <2> QED BY <1>6, <2>1, <2>3, PendingType, HeadOfConcat
<1>9. Channel!Receive(o)
  BY <1>3, <1>8 DEF Channel!Receive, Sent
<1> QED BY <1>5, <1>9

\* The other steps of an office leave the channel as it is.
LEMMA OfficeReceives ==
  ASSUME QueueInv, NEW o \in Offices, OfficeStep(o) \/ SpuriousWakeup(o)
  PROVE  HoldsRequests' /\ ChannelStep
<1>1. CASE GetRequest(o)
  BY <1>1, TakeReceives DEF ChannelStep, Channel!Next
<1>2. CASE ~GetRequest(o)
  <2>1. /\ UNCHANGED <<requestQueue, outputIndex, mainTlv, serverFIFO, tlv>>
        /\ Sent' = Sent
    BY <1>2 DEF OfficeStep, ExitDrained, ExitWoken, WaitForRequest, ClaimRequest,
       BeginRequest, HandleRequest, HandleShutdown, SetShutdown, OpenUserFIFO, WriteReply,
       EndRequest, FreeSlot, SpuriousWakeup, fifoVars, mainVars, bufferVars, officeVars, Sent
  <2>2. mainPC' \in Carrying <=> mainPC \in Carrying
    BY <1>2 DEF OfficeStep, ExitDrained, ExitWoken, WaitForRequest, ClaimRequest,
       BeginRequest, HandleRequest, HandleShutdown, SetShutdown, OpenUserFIFO, WriteReply,
       EndRequest, FreeSlot, SpuriousWakeup, mainVars, Carrying
  <2>3. Filled' = Filled
    BY <1>2, OfficeFills DEF QueueInv
  <2> QED BY <2>1, <2>2, <2>3, Stutters
<1> QED BY <1>1, <1>2

\* The channel is empty when the server starts.
LEMMA InitChannel == Init => Channel!Init
<1> SUFFICES ASSUME Init PROVE Channel!Init
  OBVIOUS
<1>1. HaveToken = {}
  BY DEF Init, HaveToken, At
<1>2. Filled = 0
  BY <1>1, FS_EmptySet DEF Init, Filled, One
<1>3. Queued = << >> /\ InTransit = << >> /\ serverFIFO = << >>
  BY <1>2 DEF Init, Queued, InTransit
<1>4. Pending = << >>
  BY <1>3 DEF Pending
<1>5. Sent = {} /\ tlv = [o \in Offices |-> NoRequest]
  BY DEF Init, Sent
<1> QED BY <1>4, <1>5 DEF Channel!Init, Sent

\* Every step of the request path is a step of the channel, or none.
LEMMA NextIsChannelStep ==
  ASSUME QueueInv, [Next]_vars
  PROVE  HoldsRequests' /\ ChannelStep
<1>1. CASE UNCHANGED vars
  BY <1>1, FilledKept, Stutters
     DEF vars, fifoVars, mainVars, bufferVars, countVars, officeVars, Sent
<1> QED BY <1>1, UserSends, MainCarries, OfficeReceives DEF Next

-----------------------------------------------------------------------------
(* What a channel says about the requests in it.                           *)

Undelivered == {Pending[k] : k \in DOMAIN Pending}

\* A request is in the channel once or with the office that received it, never
\* both and never with two offices, and somebody sent it.
DeliveredOnce ==
  /\ \A i, j \in DOMAIN Pending : Pending[i] = Pending[j] => i = j
  /\ \A u \in Undelivered : u \in Sent /\ \A o \in Offices : tlv[o] # u
  /\ \A o \in Offices : tlv[o] # NoRequest => tlv[o] \in Sent
  /\ \A o, p \in Offices : tlv[o] = tlv[p] /\ tlv[o] # NoRequest => o = p

\* Sending adds one request to the channel.
LEMMA SendDelivers ==
  ASSUME QueueInv, DeliveredOnce, NEW u \in Users, Channel!Send(u)
  PROVE  DeliveredOnce' /\ Undelivered' = Undelivered \cup {u}
<1>1. /\ u \notin Sent /\ Sent' = Sent \cup {u} /\ tlv' = tlv
      /\ Pending' = Append(Pending, u)
  BY DEF Channel!Send, Sent
<1> DEFINE n == Len(Pending)
<1>2. n \in Nat /\ DOMAIN Pending = 1 .. n
  BY PendingType, LenProperties
<1>3. DOMAIN Pending' = 1 .. n + 1
  <2>1. Pending' \in Seq(Users) /\ Len(Pending') = n + 1
    BY <1>1, PendingType, AppendProperties
  <2> QED BY <2>1, LenProperties
<1>4. Pending'[n + 1] = u /\ \A k \in 1 .. n : Pending'[k] = Pending[k]
  BY <1>1, PendingType, AppendProperties
<1> HIDE DEF n
<1>5. 1 .. n + 1 = (1 .. n) \cup {n + 1}
  BY <1>2
<1>6. Undelivered' = Undelivered \cup {u}
  <2>1. Undelivered' = {Pending'[k] : k \in 1 .. n + 1}
    BY <1>3 DEF Undelivered
  <2>2. Undelivered = {Pending[k] : k \in 1 .. n}
    BY <1>2 DEF Undelivered
  <2> QED BY <1>4, <1>5, <2>1, <2>2
<1>7. u \notin Undelivered /\ \A o \in Offices : tlv[o] # u
  BY <1>1, QueueAssumption DEF DeliveredOnce
<1>8. \A k \in 1 .. n : Pending[k] # u
  BY <1>2, <1>7 DEF Undelivered
<1>9. \A i, j \in 1 .. n + 1 : Pending'[i] = Pending'[j] => i = j
  <2>1. \A i, j \in 1 .. n : Pending[i] = Pending[j] => i = j
    BY <1>2 DEF DeliveredOnce
  <2> HIDE DEF Pending
  <2> QED BY <1>4, <1>5, <1>8, <2>1
<1> QED BY <1>1, <1>3, <1>6, <1>7, <1>9 DEF DeliveredOnce

\* Receiving takes one request out of it.
LEMMA ReceiveDelivers ==
  ASSUME QueueInv, DeliveredOnce, NEW o \in Offices, Channel!Receive(o)
  PROVE  /\ DeliveredOnce'
         /\ tlv'[o] \in Undelivered
         /\ Undelivered' = Undelivered \ {tlv'[o]}
<1>1. /\ Pending # << >> /\ Sent' = Sent /\ Pending' = Tail(Pending)
      /\ tlv' = [tlv EXCEPT ![o] = Head(Pending)]
  BY DEF Channel!Receive, Sent
<1>2. tlv \in [Offices -> Users \cup {NoRequest}]
  BY DEF QueueInv, TypeOK
<1> DEFINE n == Len(Pending)
<1>3. n \in Nat \ {0} /\ DOMAIN Pending = 1 .. n /\ Head(Pending) = Pending[1]
  BY <1>1, PendingType, LenProperties, EmptySeq
<1>4. /\ DOMAIN Pending' = 1 .. n - 1
      /\ \A k \in 1 .. n - 1 : Pending'[k] = Pending[k + 1]
  <2>1. Pending' \in Seq(Users) /\ Len(Pending') = n - 1
    BY <1>1, PendingType, HeadTailProperties
  <2>2. \A k \in 1 .. n - 1 : Pending'[k] = Pending[k + 1]
    BY <1>1, <2>1, PendingType, HeadTailProperties
  <2> QED BY <2>1, <2>2, LenProperties
<1> HIDE DEF n
<1>5. \A i, j \in 1 .. n : Pending[i] = Pending[j] => i = j
  BY <1>3 DEF DeliveredOnce
<1>6. tlv'[o] = Pending[1] /\ Pending[1] \in Undelivered
  BY <1>1, <1>2, <1>3 DEF Undelivered
<1>7. Undelivered' = Undelivered \ {Pending[1]}
  <2>1. Undelivered' = {Pending'[k] : k \in 1 .. n - 1}
    BY <1>4 DEF Undelivered
  <2>2. Undelivered = {Pending[k] : k \in 1 .. n}
    BY <1>3 DEF Undelivered
  <2> HIDE DEF Undelivered, Pending
  <2>3. \A k \in 1 .. n - 1 : k + 1 \in 1 .. n /\ k + 1 # 1
    BY <1>3
  <2>4. \A k \in 1 .. n : k = 1 \/ (k - 1 \in 1 .. n - 1 /\ (k - 1) + 1 = k)
    BY <1>3
  <2>5. ASSUME NEW x \in Undelivered' PROVE x \in Undelivered \ {Pending[1]}
    <3>1. PICK k \in 1 .. n - 1 : x = Pending[k + 1]
      BY <1>4, <2>1, <2>5
    <3> QED BY <1>3, <1>5, <2>2, <2>3, <3>1
  <2>6. ASSUME NEW x \in Undelivered \ {Pending[1]} PROVE x \in Undelivered'
    <3>1. PICK k \in 1 .. n : x = Pending[k] /\ k # 1
      BY <2>2, <2>6
    <3>2. k - 1 \in 1 .. n - 1 /\ Pending'[k - 1] = Pending[k]
      BY <1>4, <2>4, <3>1
    <3> QED BY <2>1, <3>1, <3>2
  <2> QED BY <2>5, <2>6
<1>8. \A i, j \in DOMAIN Pending' : Pending'[i] = Pending'[j] => i = j
  <2> HIDE DEF Pending
  <2> QED BY <1>3, <1>4, <1>5
<1>9. Pending[1] \in Sent /\ \A p \in Offices : tlv[p] # Pending[1]
  BY <1>6 DEF DeliveredOnce
<1> HIDE DEF Undelivered
<1>10. \A v \in Undelivered' : v \in Sent' /\ \A p \in Offices : tlv'[p] # v
  BY <1>1, <1>2, <1>6, <1>7 DEF DeliveredOnce
<1>11. \A p \in Offices : tlv'[p] # NoRequest => tlv'[p] \in Sent'
  BY <1>1, <1>2, <1>6, <1>9 DEF DeliveredOnce
<1>12. \A p, q \in Offices : tlv'[p] = tlv'[q] /\ tlv'[p] # NoRequest => p = q
  BY <1>1, <1>2, <1>6, <1>9 DEF DeliveredOnce
<1> QED BY <1>6, <1>7, <1>8, <1>10, <1>11, <1>12 DEF DeliveredOnce

-----------------------------------------------------------------------------
(* The theorems.                                                           *)

\* Whatever lies between outputIndex and inputIndex, and what main carries, is a
\* request some user wrote and never a slot nothing was stored in, so an office
\* that claimed a request copies a request out.  (getRequest, insertRequest)
THEOREM RequestsHeld == Spec => []HoldsRequests
<1>1. Init => HoldsRequests
  <2> SUFFICES ASSUME Init PROVE HoldsRequests
    OBVIOUS
  <2>1. HaveToken = {}
    BY DEF Init, HaveToken, At
  <2>2. Filled = 0
    BY <2>1, FS_EmptySet DEF Init, Filled, One
  <2> QED BY <2>2 DEF Init, HoldsRequests, Carrying
<1>2. TypeOK /\ BufferSafe /\ HoldsRequests /\ [Next]_vars => HoldsRequests'
  BY NextIsChannelStep DEF QueueInv
<1> QED BY <1>1, <1>2, TypeCorrect, BufferCorrect, PTL DEF Spec

\* The server FIFO, the main thread and the circular buffer together implement
\* the channel: requests come out once each, in the order they were written.
THEOREM ChannelImplemented == Spec => ChannelSpec
<1>1. TypeOK /\ BufferSafe /\ HoldsRequests /\ [Next]_vars => [Channel!Next]_(Channel!vars)
  BY NextIsChannelStep DEF QueueInv, ChannelStep
<1> QED BY InitChannel, <1>1, TypeCorrect, BufferCorrect, RequestsHeld, PTL
        DEF Spec, ChannelSpec, Channel!Spec

\* No request is handed to two offices, or to one office twice, and none that
\* nobody sent.  (getRequest, insertRequest, bankCycle)
THEOREM NeverTwice == Spec => []DeliveredOnce
<1>1. Init => DeliveredOnce
  <2> SUFFICES ASSUME Init PROVE DeliveredOnce
    OBVIOUS
  <2>1. Pending = << >>
    BY InitChannel DEF Channel!Init
  <2>2. Undelivered = {} /\ DOMAIN Pending = {}
    BY <2>1 DEF Undelivered
  <2> QED BY <2>2 DEF Init, DeliveredOnce
<1>2. TypeOK /\ BufferSafe /\ HoldsRequests /\ DeliveredOnce /\ [Next]_vars => DeliveredOnce'
  <2> SUFFICES ASSUME QueueInv, DeliveredOnce, [Next]_vars PROVE DeliveredOnce'
    BY DEF QueueInv
  <2>1. ChannelStep
    BY NextIsChannelStep
  <2>2. CASE UNCHANGED Channel!vars
    BY <2>2 DEF Channel!vars, DeliveredOnce, Undelivered, Sent
  <2>3. CASE \E u \in Users : Channel!Send(u)
    BY <2>3, SendDelivers
  <2>4. CASE \E o \in Offices : Channel!Receive(o)
    BY <2>4, ReceiveDelivers
  <2> QED BY <2>1, <2>2, <2>3, <2>4 DEF ChannelStep, Channel!Next
<1> QED BY <1>1, <1>2, TypeCorrect, BufferCorrect, RequestsHeld, PTL DEF Spec

=============================================================================
