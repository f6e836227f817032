------------------------- MODULE HomeBankingProofs -------------------------
(***************************************************************************)
(* What HomeBanking.tla states about the whole service, proved for every   *)
(* number of users, offices and slots: the composed service is a behaviour *)
(* of the request path, and users and server do not contradict each other. *)
(***************************************************************************)
EXTENDS HomeBanking, RequestQueueProofs

-----------------------------------------------------------------------------
(* The service implements the request path.                                *)

\* A user process does to the request path what RequestQueue lets a user do.
LEMMA UserProcessQueue ==
  ASSUME NEW u \in Users, UserProcess(u)
  PROVE  UserStep(u) \/ UNCHANGED vars
BY DEF UserProcess, MakeUserFIFO, RejectArguments, ConnectToServer, FindServerDown,
   SendRequest, SetAlarm, OpenOwnFIFO, ReadReply, PrintReply, Finish, TimeOut, UserStep

\* So does the server; whether the user is there decides one of its choices.
LEMMA ServerQueue ==
  ASSUME ServerStep \/ \E o \in Offices : AnswerUser(o) \/ SendReply(o)
  PROVE  Next
BY DEF ServerStep, AnswerUser, SendReply, OfficeStep, Next

\* Every step of the service is a step of the request path, or none.
LEMMA SystemStepQueue == [SystemNext]_systemVars => [Next]_vars
<1> SUFFICES ASSUME [SystemNext]_systemVars PROVE [Next]_vars
  OBVIOUS
<1>1. CASE UNCHANGED systemVars
  BY <1>1 DEF systemVars
<1>2. CASE \E u \in Users : UserProcess(u)
  BY <1>2, UserProcessQueue DEF Next
<1> QED BY <1>1, <1>2, ServerQueue DEF SystemNext

\* The users and the server together do nothing that RequestQueue leaves out,
\* so what is proved of the request path holds of the whole service.
THEOREM SystemImplementsQueue == SystemSpec => Spec
BY SystemStepQueue, PTL DEF SystemSpec, SystemInit, Spec

\* What the request path guarantees, in the service.
QueueFacts == QueueInv /\ DeliveredOnce

\* What was proved of the request path holds in the whole service.
LEMMA SystemQueueFacts == SystemSpec => []QueueFacts
<1>1. TypeOK /\ BufferSafe /\ HoldsRequests /\ DeliveredOnce => QueueFacts
  BY DEF QueueFacts, QueueInv
<1> QED BY <1>1, SystemImplementsQueue, TypeCorrect, BufferCorrect, RequestsHeld,
           NeverTwice, PTL

-----------------------------------------------------------------------------
(* User processes.                                                         *)

SessionTypeOK ==
  /\ session   \in [Users -> Sessions]
  /\ userFIFOs \subseteq Users
  /\ told      \in [Users -> SUBSET Outcomes]

\* How far a process is with its request, what it told its user and whether its
\* FIFO is there go together.
SessionInv ==
  \A u \in Users :
    /\ session[u] = "start" => user[u] = "start"
    /\ user[u] = "opened" => session[u] = "made"
    /\ AlarmIsSet(u) => user[u] = "sent"
    /\ user[u] = "start" /\ told[u] # {} => told[u] = {"invalid"} /\ session[u] = "ended"
    /\ user[u] \in {"opened", "killed"} => told[u] = {}
    /\ user[u] = "refused" =>
         told[u] = {"RC_SRV_DOWN"} /\ session[u] \in {"made", "ended"}
    /\ user[u] = "sent" => told[u] \cap {"invalid", "RC_SRV_DOWN"} = {}
    /\ user[u] = "sent" /\ told[u] # {} => session[u] \in {"clean", "ended"}
    /\ session[u] = "clean" => told[u] # {}
    /\ session[u] \notin {"start", "ended"} => u \in userFIFOs
    /\ session[u] = "ended" => (u \in userFIFOs <=> told[u] \subseteq {"invalid"})

\* The variables a user process is about.
userView == <<user, session, userFIFOs, told>>

\* The server changes none of them.
LEMMA ServerKeepsUsers ==
  ASSUME ServerStep \/ \E o \in Offices : AnswerUser(o) \/ SendReply(o)
  PROVE  UNCHANGED userView
<1>1. UNCHANGED <<session, userFIFOs, told>>
  BY DEF ServerStep, AnswerUser, SendReply, sessionVars
<1>2. ASSUME MainStep \/ SpuriousMainWakeup PROVE user' = user
  BY <1>2 DEF MainStep, MakeServerFIFO, OpenForReading, ReadRequest, ReadNothing,
     TestShutdown, ClaimSlot, WaitForSlot, InsertRequest, AnnounceRequest,
     SpuriousMainWakeup, fifoVars
<1>3. ASSUME NEW o \in Offices, OfficeStep(o) \/ SpuriousWakeup(o) PROVE user' = user
  BY <1>3 DEF OfficeStep, ExitDrained, ExitWoken, WaitForRequest, ClaimRequest,
     GetRequest, BeginRequest, HandleRequest, HandleShutdown, SetShutdown, OpenUserFIFO,
     WriteReply, EndRequest, FreeSlot, SpuriousWakeup, fifoVars
<1>4. CASE ServerStep
  BY <1>1, <1>2, <1>3, <1>4 DEF ServerStep, userView
<1>5. CASE \E o \in Offices : AnswerUser(o) \/ SendReply(o)
  <2>1. \E o \in Offices : OfficeStep(o)
    BY <1>5 DEF AnswerUser, SendReply, OfficeStep
  <2> QED BY <1>1, <1>3, <2>1 DEF userView
<1> QED BY <1>4, <1>5

\* A step of a process keeps what it tells and leaves behind consistent.
LEMMA UserKeepsSession ==
  ASSUME TypeOK, SessionTypeOK, SessionInv, NEW u \in Users, UserProcess(u)
  PROVE  SessionTypeOK' /\ SessionInv'
<1> USE DEF SessionTypeOK, TypeOK, Sessions, Outcomes, UserStates
<1>1. CASE MakeUserFIFO(u) \/ SetAlarm(u) \/ OpenOwnFIFO(u)
  BY <1>1 DEF MakeUserFIFO, SetAlarm, OpenOwnFIFO, Step, WriteDone, SessionInv, AlarmIsSet,
     vars, fifoVars
<1>2. CASE ConnectToServer(u)
  BY <1>2 DEF ConnectToServer, OpenServerFIFO, sessionVars, SessionInv, AlarmIsSet
<1>3. CASE FindServerDown(u)
  BY <1>3 DEF FindServerDown, OpenRefused, Tell, SessionInv, AlarmIsSet
<1>4. CASE SendRequest(u)
  BY <1>4 DEF SendRequest, WriteRequest, SessionInv, AlarmIsSet
<1>5. CASE ReadReply(u)
  BY <1>5 DEF ReadReply, Step, SessionInv, AlarmIsSet, vars, fifoVars
<1>6. CASE PrintReply(u)
  BY <1>6 DEF PrintReply, Step, Tell, SessionInv, AlarmIsSet, vars, fifoVars
<1>7. CASE Finish(u)
  BY <1>7 DEF Finish, Step, SessionInv, AlarmIsSet, vars, fifoVars
<1>8. CASE TimeOut(u)
  BY <1>8 DEF TimeOut, Tell, SessionInv, AlarmIsSet, vars, fifoVars
<1>9. CASE RejectArguments(u)
  BY <1>9 DEF RejectArguments, Step, Tell, SessionInv, AlarmIsSet, vars, fifoVars
<1> QED BY <1>1, <1>2, <1>3, <1>4, <1>5, <1>6, <1>7, <1>8, <1>9 DEF UserProcess

\* What processes tell and leave behind is consistent in every state.
LEMMA SessionsConsistent == SystemSpec => [](SessionTypeOK /\ SessionInv)
<1>1. SystemInit => SessionTypeOK /\ SessionInv
  BY DEF SystemInit, Init, SessionTypeOK, SessionInv, Sessions, Outcomes, AlarmIsSet
<1>2. QueueFacts /\ SessionTypeOK /\ SessionInv /\ [SystemNext]_systemVars
        => SessionTypeOK' /\ SessionInv'
  <2> SUFFICES ASSUME QueueFacts, SessionTypeOK, SessionInv, [SystemNext]_systemVars
               PROVE  SessionTypeOK' /\ SessionInv'
    OBVIOUS
  <2>1. CASE UNCHANGED userView
    BY <2>1 DEF userView, SessionTypeOK, SessionInv, AlarmIsSet
  <2>2. CASE \E u \in Users : UserProcess(u)
    BY <2>2, UserKeepsSession DEF QueueFacts, QueueInv
  <2>3. CASE UNCHANGED systemVars
    BY <2>1, <2>3 DEF systemVars, vars, fifoVars, sessionVars, userView
  <2> QED BY <2>1, <2>2, <2>3, ServerKeepsUsers DEF SystemNext
<1> QED BY <1>1, <1>2, SystemQueueFacts, PTL DEF SystemSpec

\* On every path through main and alarm_handler a process that was let through
\* by init and not killed has removed its FIFO when it ends; every other that
\* ended has left it.
THEOREM NoFIFOLeftBehind == SystemSpec => []OwnFIFORemoved
<1>1. SessionInv => OwnFIFORemoved
  BY DEF SessionInv, OwnFIFORemoved
<1> QED BY <1>1, SessionsConsistent, PTL

-----------------------------------------------------------------------------
(* Replies and log entries.                                                *)

ReplyTypeOK == inbox \subseteq Users /\ logged \in [Users -> Logs]

\* A request is logged once, by the office that answers it, and a reply is on
\* its way, read or printed only if it was logged as one.
LogInv ==
  /\ \A u \in Users :
       /\ logged[u] # "none" => u \in Sent /\ u \notin Undelivered
       /\ u \in inbox \/ session[u] = "got" \/ "reply" \in told[u] => logged[u] = "reply"
  /\ \A o \in Offices :
       /\ officePC[o] \in ServingPlaces => tlv[o] \in Users
       /\ officePC[o] \in {"begin", "handle", "flag", "reply"} => logged[tlv[o]] = "none"
       /\ officePC[o] = "write" => logged[tlv[o]] = "reply"
       /\ officePC[o] = "userDown" => logged[tlv[o]] = "RC_USR_DOWN"

SystemInv == QueueFacts /\ SessionTypeOK /\ SessionInv /\ ReplyTypeOK /\ LogInv

\* A request enters the channel only when it is sent.
LEMMA UndeliveredGrows ==
  ASSUME QueueFacts, [SystemNext]_systemVars
  PROVE  Undelivered' \subseteq Undelivered \cup (Sent' \ Sent) /\ Sent \subseteq Sent'
<1>1. ChannelStep
  BY SystemStepQueue, NextIsChannelStep DEF QueueFacts
<1>2. CASE UNCHANGED Channel!vars
  BY <1>2 DEF Channel!vars, Undelivered, Sent
<1>3. ASSUME NEW u \in Users, Channel!Send(u)
      PROVE  Undelivered' \subseteq Undelivered \cup (Sent' \ Sent) /\ Sent \subseteq Sent'
  <2>1. Undelivered' = Undelivered \cup {u}
    BY <1>3, SendDelivers DEF QueueFacts
  <2> HIDE DEF Undelivered
  <2>2. u \notin Sent /\ Sent' = Sent \cup {u}
    BY <1>3 DEF Channel!Send, Sent
  <2> QED BY <2>1, <2>2
<1>4. ASSUME NEW o \in Offices, Channel!Receive(o)
      PROVE  Undelivered' \subseteq Undelivered \cup (Sent' \ Sent) /\ Sent \subseteq Sent'
  <2>1. Undelivered' = Undelivered \ {tlv'[o]}
    BY <1>4, ReceiveDelivers DEF QueueFacts
  <2> HIDE DEF Undelivered
  <2>2. Sent' = Sent
    BY <1>4 DEF Channel!Receive, Sent
  <2> QED BY <2>1, <2>2
<1> QED BY <1>1, <1>2, <1>3, <1>4 DEF ChannelStep, Channel!Next

\* Once a request is logged it stays sent and out of the channel.
LEMMA LoggedStaysOut ==
  ASSUME QueueFacts, LogInv, [SystemNext]_systemVars
  PROVE  \A u \in Users : logged[u] # "none" => u \in Sent' /\ u \notin Undelivered'
<1>1. Undelivered' \subseteq Undelivered \cup (Sent' \ Sent) /\ Sent \subseteq Sent'
  BY UndeliveredGrows
<1> HIDE DEF Undelivered, Sent
<1> QED BY <1>1 DEF LogInv

\* A user reads and prints only what was put into its FIFO.
LEMMA UserKeepsLog ==
  ASSUME SystemInv, NEW u \in Users, UserProcess(u)
  PROVE  ReplyTypeOK' /\ LogInv'
<1> USE DEF SystemInv, SessionTypeOK, Sessions, Outcomes, ReplyTypeOK
<1>1. \A v \in Users : logged[v] # "none" => v \in Sent' /\ v \notin Undelivered'
  BY LoggedStaysOut DEF SystemNext
<1>2. UNCHANGED <<officePC, tlv, logged>>
  BY UserProcessQueue DEF UserProcess, MakeUserFIFO, RejectArguments, ConnectToServer,
     FindServerDown, SendRequest, SetAlarm, OpenOwnFIFO, ReadReply, PrintReply, Finish,
     TimeOut, OpenServerFIFO, OpenRefused, WriteRequest, vars, officeVars, sessionVars
<1>3. /\ inbox' \subseteq inbox
      /\ \A v \in Users : session'[v] = "got" => session[v] = "got" \/ v \in inbox
      /\ \A v \in Users : "reply" \in told'[v] => "reply" \in told[v] \/ session[v] = "got"
  BY DEF UserProcess, MakeUserFIFO, RejectArguments, ConnectToServer, FindServerDown,
     SendRequest, SetAlarm, OpenOwnFIFO, ReadReply, PrintReply, Finish, TimeOut,
     Step, Tell, sessionVars
<1> HIDE DEF Undelivered, Sent
<1>4. ReplyTypeOK'
  BY <1>2, <1>3
<1>5. \A v \in Users :
        /\ logged'[v] # "none" => v \in Sent' /\ v \notin Undelivered'
        /\ v \in inbox' \/ session'[v] = "got" \/ "reply" \in told'[v] => logged'[v] = "reply"
  BY <1>1, <1>2, <1>3 DEF LogInv
<1>6. \A o \in Offices :
       /\ officePC'[o] \in ServingPlaces => tlv'[o] \in Users
       /\ officePC'[o] \in {"begin", "handle", "flag", "reply"} => logged'[tlv'[o]] = "none"
       /\ officePC'[o] = "write" => logged'[tlv'[o]] = "reply"
       /\ officePC'[o] = "userDown" => logged'[tlv'[o]] = "RC_USR_DOWN"
  BY <1>2 DEF LogInv
<1> QED BY <1>4, <1>5, <1>6 DEF LogInv

\* A server step that logs nothing keeps the entries if every office either
\* stays on its side of the entry or takes a request that has none.
LEMMA ServerKeepsLog ==
  ASSUME SystemInv, ServerStep
  PROVE  ReplyTypeOK' /\ LogInv'
<1> USE DEF SystemInv
<1>1. \A v \in Users : logged[v] # "none" => v \in Sent' /\ v \notin Undelivered'
  BY LoggedStaysOut DEF SystemNext
<1>2. UNCHANGED <<session, inbox, told, logged>>
  BY DEF ServerStep, sessionVars
<1>3. TypeOK
  BY DEF QueueFacts, QueueInv
<1> DEFINE OfficeLog(o) ==
       /\ officePC'[o] \in ServingPlaces => tlv'[o] \in Users
       /\ officePC'[o] \in {"begin", "handle", "flag", "reply"} => logged[tlv'[o]] = "none"
       /\ officePC'[o] = "write" => logged[tlv'[o]] = "reply"
       /\ officePC'[o] = "userDown" => logged[tlv'[o]] = "RC_USR_DOWN"
<1>4. ASSUME NEW o \in Offices, tlv'[o] = tlv[o],
             \/ officePC'[o] = officePC[o]
             \/ officePC'[o] \notin ServingPlaces
             \/ /\ officePC[o] \in {"begin", "handle", "flag"}
                /\ officePC'[o] \in {"handle", "flag", "reply"}
             \/ officePC[o] \in ServingPlaces /\ officePC'[o] = "free"
      PROVE  OfficeLog(o)
  BY <1>4 DEF LogInv, ServingPlaces, ActivePlaces
<1>5. CASE MainStep \/ SpuriousMainWakeup
  <2>1. tlv' = tlv /\ (officePC' = officePC \/ SignalOffice)
    BY <1>5 DEF MainStep, MakeServerFIFO, OpenForReading, ReadRequest, ReadNothing,
       TestShutdown, ClaimSlot, WaitForSlot, InsertRequest, AnnounceRequest,
       SpuriousMainWakeup, officeVars
  <2>2. \A o \in Offices : officePC'[o] = officePC[o] \/ officePC'[o] = "woken"
    BY <1>3, <2>1 DEF SignalOffice, Waiting, Goto, TypeOK
  <2>3. \A o \in Offices : OfficeLog(o)
    BY <1>4, <2>1, <2>2 DEF ServingPlaces, ActivePlaces
  <2> HIDE DEF Undelivered, Sent
  <2> QED BY <1>1, <1>2, <2>3 DEF LogInv, ReplyTypeOK
<1>6. ASSUME NEW o \in Offices,
             \/ officePC[o] \notin {"reply", "write"} /\ OfficeStep(o)
             \/ SpuriousWakeup(o)
      PROVE  \A p \in Offices : OfficeLog(p)
  <2>1. CASE GetRequest(o)
    <3>1. tlv'[o] \in Undelivered /\ tlv' = [tlv EXCEPT ![o] = tlv'[o]]
      <4>1. Channel!Receive(o)
        BY <2>1, TakeReceives DEF QueueFacts
      <4>2. tlv'[o] \in Undelivered
        BY <4>1, ReceiveDelivers DEF QueueFacts
      <4> HIDE DEF Undelivered
      <4> QED BY <1>3, <2>1, <4>2 DEF GetRequest, TypeOK
    <3>2. tlv'[o] \in Users
      BY <3>1 DEF QueueFacts, DeliveredOnce, Sent
    <3>3. logged[tlv'[o]] = "none"
      <4> HIDE DEF Undelivered, Sent
      <4> QED BY <3>1, <3>2 DEF LogInv
    <3>4. officePC'[o] = "begin" /\ \A p \in Offices : p # o => officePC'[p] = officePC[p]
      BY <1>3, <2>1 DEF GetRequest, Goto, TypeOK
    <3> HIDE DEF Undelivered
    <3>5. \A p \in Offices : p # o => tlv'[p] = tlv[p]
      BY <1>3, <3>1 DEF TypeOK
    <3> QED BY <1>4, <3>2, <3>3, <3>4, <3>5
  <2>2. CASE ExitDrained(o)
    <3>1. tlv' = tlv
          /\ \A p \in Offices : officePC'[p] = officePC[p] \/ officePC'[p] \in {"exited", "woken"}
      BY <2>2 DEF ExitDrained, BroadcastAndLeave
    <3> QED BY <1>4, <3>1 DEF ServingPlaces, ActivePlaces
  <2>3. CASE ~(GetRequest(o) \/ ExitDrained(o))
    <3>1. /\ tlv' = tlv
          /\ \A p \in Offices : p # o => officePC'[p] = officePC[p]
      BY <1>3, <1>6, <2>3 DEF OfficeStep, ExitWoken, WaitForRequest, ClaimRequest,
         BeginRequest, HandleRequest, HandleShutdown, SetShutdown, OpenUserFIFO,
         WriteReply, EndRequest, FreeSlot, SpuriousWakeup, Goto, officeVars, TypeOK
    <3>2. \/ officePC'[o] \notin ServingPlaces
          \/ /\ officePC[o] \in {"begin", "handle", "flag"}
             /\ officePC'[o] \in {"handle", "flag", "reply"}
          \/ officePC[o] \in ServingPlaces /\ officePC'[o] = "free"
      BY <1>3, <1>6, <2>3 DEF OfficeStep, ExitWoken, WaitForRequest, ClaimRequest,
         BeginRequest, HandleRequest, HandleShutdown, SetShutdown, OpenUserFIFO,
         WriteReply, EndRequest, ReplyFailed, FreeSlot, SpuriousWakeup, Goto, TypeOK,
         ServingPlaces, ActivePlaces
    <3> QED BY <1>4, <3>1, <3>2
  <2> QED BY <2>1, <2>2, <2>3
<1>7. CASE \E o \in Offices : \/ officePC[o] \notin {"reply", "write"} /\ OfficeStep(o)
                              \/ SpuriousWakeup(o)
  <2>1. \A p \in Offices : OfficeLog(p)
    BY <1>6, <1>7
  <2> HIDE DEF Undelivered, Sent
  <2> QED BY <1>1, <1>2, <2>1 DEF LogInv, ReplyTypeOK
<1> QED BY <1>5, <1>7 DEF ServerStep

\* The office that answers logs the request for the first time: nobody else has
\* it, and it is in the channel no more.
LEMMA AnswerKeepsLog ==
  ASSUME SystemInv, NEW o \in Offices, AnswerUser(o)
  PROVE  ReplyTypeOK' /\ LogInv'
<1> USE DEF SystemInv
<1> DEFINE u == tlv[o]
           entry == IF HasReader(u) THEN "reply" ELSE "RC_USR_DOWN"
           place == IF HasReader(u) THEN "write" ELSE "userDown"
<1>1. \A v \in Users : logged[v] # "none" => v \in Sent' /\ v \notin Undelivered'
  BY LoggedStaysOut DEF SystemNext
<1>2. TypeOK /\ ReplyTypeOK
  BY DEF QueueFacts, QueueInv
<1>3. /\ UNCHANGED <<session, inbox, told, tlv, user>>
      /\ logged' = [logged EXCEPT ![u] = entry]
      /\ officePC[o] = "reply"
      /\ officePC'[o] = place /\ \A p \in Offices : p # o => officePC'[p] = officePC[p]
  BY <1>2 DEF AnswerUser, OpenUserFIFO, Goto, TypeOK, fifoVars
<1>4. u \in Users /\ logged[u] = "none"
  BY <1>3 DEF LogInv, ServingPlaces, ActivePlaces
<1>5. u \in Sent /\ u \notin Undelivered
  BY <1>4, QueueAssumption DEF QueueFacts, DeliveredOnce
<1>6. u \in Sent' /\ u \notin Undelivered'
  <2>1. Undelivered' \subseteq Undelivered \cup (Sent' \ Sent) /\ Sent \subseteq Sent'
    BY UndeliveredGrows DEF SystemNext
  <2>2. Sent' = Sent
    BY <1>3 DEF Sent
  <2> HIDE DEF Undelivered, Sent
  <2> QED BY <1>5, <2>1, <2>2
<1>7. \A p \in Offices : p # o => tlv[p] # u
  BY <1>4, QueueAssumption DEF QueueFacts, DeliveredOnce
<1>8. entry \in Logs \ {"none"}
  BY DEF Logs
<1>9. /\ logged' \in [Users -> Logs] /\ logged'[u] = entry
      /\ \A v \in Users : v # u => logged'[v] = logged[v]
  BY <1>2, <1>3, <1>4, <1>8 DEF ReplyTypeOK
<1>10. ReplyTypeOK'
  BY <1>2, <1>3, <1>9 DEF ReplyTypeOK
<1>11. ASSUME NEW v \in Users
       PROVE  /\ logged'[v] # "none" => v \in Sent' /\ v \notin Undelivered'
              /\ v \in inbox' \/ session'[v] = "got" \/ "reply" \in told'[v]
                   => logged'[v] = "reply"
  <2> HIDE DEF u, entry, Undelivered, Sent
  <2>1. CASE v = u
    <3>1. ~(v \in inbox \/ session[v] = "got" \/ "reply" \in told[v])
      BY <1>4, <2>1 DEF LogInv
    <3> QED BY <1>3, <1>6, <2>1, <3>1
  <2>2. CASE v # u
    BY <1>1, <1>3, <1>9, <2>2 DEF LogInv
  <2> QED BY <2>1, <2>2
<1>12. ASSUME NEW p \in Offices
       PROVE  /\ officePC'[p] \in ServingPlaces => tlv'[p] \in Users
              /\ officePC'[p] \in {"begin", "handle", "flag", "reply"}
                   => logged'[tlv'[p]] = "none"
              /\ officePC'[p] = "write" => logged'[tlv'[p]] = "reply"
              /\ officePC'[p] = "userDown" => logged'[tlv'[p]] = "RC_USR_DOWN"
  <2>1. CASE p = o
    BY <1>3, <1>4, <1>9, <2>1
  <2>2. CASE p # o
    <3>1. tlv[p] \in Users => logged'[tlv[p]] = logged[tlv[p]]
      BY <1>7, <1>9, <2>2
    <3> QED BY <1>3, <2>2, <3>1 DEF LogInv, ServingPlaces, ActivePlaces
  <2> QED BY <2>1, <2>2
<1> HIDE DEF Undelivered, Sent
<1> QED BY <1>10, <1>11, <1>12 DEF LogInv

\* The office that writes the reply logged it as one.
LEMMA SendKeepsLog ==
  ASSUME SystemInv, NEW o \in Offices, SendReply(o)
  PROVE  ReplyTypeOK' /\ LogInv'
<1> USE DEF SystemInv
<1>1. \A v \in Users : logged[v] # "none" => v \in Sent' /\ v \notin Undelivered'
  BY LoggedStaysOut DEF SystemNext
<1>2. TypeOK /\ ReplyTypeOK
  BY DEF QueueFacts, QueueInv
<1>3. /\ UNCHANGED <<session, told, logged, tlv>>
      /\ inbox' \in {inbox, inbox \cup {tlv[o]}}
      /\ officePC[o] = "write"
      /\ officePC' = officePC \/ officePC' = [officePC EXCEPT ![o] = "replied"]
  BY DEF SendReply, WriteReply, Goto
<1>4. tlv[o] \in Users /\ logged[tlv[o]] = "reply"
  BY <1>3 DEF LogInv, ServingPlaces, ActivePlaces
<1>5. ReplyTypeOK'
  BY <1>2, <1>3, <1>4 DEF ReplyTypeOK
<1> HIDE DEF Undelivered, Sent
<1>6. \A v \in Users :
        /\ logged'[v] # "none" => v \in Sent' /\ v \notin Undelivered'
        /\ v \in inbox' \/ session'[v] = "got" \/ "reply" \in told'[v]
             => logged'[v] = "reply"
  BY <1>1, <1>3, <1>4 DEF LogInv
<1>7. \A p \in Offices :
        /\ officePC'[p] \in ServingPlaces => tlv'[p] \in Users
        /\ officePC'[p] \in {"begin", "handle", "flag", "reply"} => logged'[tlv'[p]] = "none"
        /\ officePC'[p] = "write" => logged'[tlv'[p]] = "reply"
        /\ officePC'[p] = "userDown" => logged'[tlv'[p]] = "RC_USR_DOWN"
  BY <1>2, <1>3, <1>4 DEF LogInv, TypeOK, ServingPlaces, ActivePlaces
<1> QED BY <1>5, <1>6, <1>7 DEF LogInv

\* Log entries and replies agree in every state.
LEMMA LogsConsistent == SystemSpec => []SystemInv
<1>1. SystemInit => ReplyTypeOK /\ LogInv
  <2> SUFFICES ASSUME SystemInit PROVE ReplyTypeOK /\ LogInv
    OBVIOUS
  <2> QED BY DEF SystemInit, Init, ReplyTypeOK, Logs, LogInv, ServingPlaces, ActivePlaces
<1>2. SystemInv /\ [SystemNext]_systemVars => ReplyTypeOK' /\ LogInv'
  <2> SUFFICES ASSUME SystemInv, [SystemNext]_systemVars PROVE ReplyTypeOK' /\ LogInv'
    OBVIOUS
  <2>1. CASE UNCHANGED systemVars
    <3>1. Undelivered' = Undelivered /\ Sent' = Sent
      <4>1. Filled' = Filled
        BY <2>1, FilledKept DEF systemVars, vars, mainVars, countVars, officeVars
      <4>2. Pending' = Pending
        BY <2>1, <4>1, SamePending DEF systemVars, vars, fifoVars, mainVars, bufferVars
      <4> QED BY <2>1, <4>2 DEF Undelivered, Sent, systemVars, vars, fifoVars
    <3> HIDE DEF Undelivered, Sent
    <3> QED BY <2>1, <3>1 DEF SystemInv, systemVars, vars, sessionVars, officeVars,
            ReplyTypeOK, LogInv
  <2> QED BY <2>1, UserKeepsLog, ServerKeepsLog, AnswerKeepsLog, SendKeepsLog DEF SystemNext
<1>3. QueueFacts /\ SessionTypeOK /\ SessionInv /\ ReplyTypeOK /\ LogInv <=> SystemInv
  BY DEF SystemInv
<1> QED BY <1>1, <1>2, <1>3, SystemQueueFacts, SessionsConsistent, PTL DEF SystemSpec

\* Every reachable state of the service has the right type.
THEOREM SystemTypeCorrect == SystemSpec => []SystemTypeOK
<1>1. SystemInv => SystemTypeOK
  BY DEF SystemInv, QueueFacts, QueueInv, SessionTypeOK, ReplyTypeOK, SystemTypeOK
<1> QED BY <1>1, LogsConsistent, PTL

\* A user that printed a reply is one whose office logged that reply, and the
\* server knows nothing of one that was told it is down or refused by init.
THEOREM UsersAndServerAgree == SystemSpec => []SidesAgree
<1>1. SystemInv => SidesAgree
  <2> SUFFICES ASSUME SystemInv, NEW u \in Users
               PROVE  /\ "reply" \in told[u] => logged[u] = "reply"
                      /\ \A refusal \in {"invalid", "RC_SRV_DOWN"} : refusal \in told[u] =>
                           /\ told[u] = {refusal} /\ logged[u] = "none"
                           /\ u \notin Undelivered
                           /\ \A o \in Offices : tlv[o] # u
    BY DEF SidesAgree, Undelivered
  <2> HIDE DEF Undelivered, Sent
  <2>1. "reply" \in told[u] => logged[u] = "reply"
    BY DEF SystemInv, LogInv
  <2>2. ASSUME NEW refusal \in {"invalid", "RC_SRV_DOWN"}, refusal \in told[u]
        PROVE  user[u] \in {"start", "refused"} /\ told[u] = {refusal}
    <3>1. user[u] \in UserStates
      BY DEF SystemInv, QueueFacts, QueueInv, TypeOK
    <3> QED BY <2>2, <3>1 DEF SystemInv, SessionInv, UserStates
  <2>3. user[u] \in {"start", "refused"} => u \notin Sent
    BY DEF Sent
  <2>4. u \notin Sent => /\ logged[u] = "none" /\ u \notin Undelivered
                         /\ \A o \in Offices : tlv[o] # u
    BY QueueAssumption DEF SystemInv, LogInv, QueueFacts, DeliveredOnce
  <2> QED BY <2>1, <2>2, <2>3, <2>4
<1> QED BY <1>1, LogsConsistent, PTL

-----------------------------------------------------------------------------
(* Where the slots of the buffer go.                                       *)

\* Slots that are free, being filled, filled, or with an office.
SlotSum == slots + One(mainPC = "insert") + Filled + Cardinality(Serving)

\* What SlotSum adds up.
LEMMA SlotQuantities ==
  ASSUME QueueInv
  PROVE  /\ slots \in Int /\ One(mainPC = "insert") \in Int /\ Filled \in Int
         /\ Cardinality(Serving) \in Int /\ SlotSum \in Int
<1>1. slots \in Int /\ Filled \in Int /\ Cardinality(Serving) \in Int
  BY BufferQuantities DEF QueueInv
<1>2. One(mainPC = "insert") \in Int
  BY DEF One
<1> QED BY <1>1, <1>2 DEF SlotSum

\* An office loses a slot when it gives up on a reply, and at no other step.
LEMMA OfficeSlots ==
  ASSUME QueueInv, NEW o \in Offices, OfficeStep(o) \/ SpuriousWakeup(o)
  PROVE  SlotSum' = SlotSum - One(officePC[o] = "userDown")
<1>1. TypeOK /\ BufferSafe
  BY DEF QueueInv
<1> DEFINE serving == Cardinality(Serving)
<1>2. ASSUME NEW place, Goto(o, place)
      PROVE  serving' = serving - One(officePC[o] \in ServingPlaces)
                                + One(place \in ServingPlaces)
  BY <1>1, <1>2, CountMove DEF Serving, ServingPlaces, ActivePlaces
<1>3. ~GetRequest(o) => Filled' = Filled
  BY <1>1, OfficeFills
<1>4. /\ slots \in Int /\ Filled \in Int /\ serving \in Int
      /\ One(mainPC = "insert") \in Int
  BY SlotQuantities
<1>5. officePC' = officePC => serving' = serving
  BY DEF Serving, At
<1> HIDE DEF serving
<1>6. SlotSum = slots + One(mainPC = "insert") + Filled + serving
      /\ SlotSum' = slots' + One(mainPC' = "insert") + Filled' + serving'
  BY DEF SlotSum, serving
<1>7. ASSUME mainPC' = mainPC, slots' = slots, ~GetRequest(o),
             serving' = serving - One(officePC[o] = "userDown")
      PROVE  SlotSum' = SlotSum - One(officePC[o] = "userDown")
  BY <1>3, <1>4, <1>6, <1>7 DEF One
<1>8. CASE GetRequest(o)
  <2>1. serving' = serving + 1
    BY <1>2, <1>4, <1>8 DEF GetRequest, One, ServingPlaces, ActivePlaces
  <2>2. Filled' = Filled - 1
    BY <1>1, <1>4, <1>8, FilledMove DEF GetRequest, One, mainVars, countVars, TypeOK
  <2> QED BY <1>4, <1>6, <1>8, <2>1, <2>2 DEF GetRequest, One, mainVars, countVars
<1>9. CASE ExitDrained(o)
  <2>1. Serving' = Serving
    BY <1>1, <1>9, CountBroadcast DEF ExitDrained, Serving, ServingPlaces, ActivePlaces
  <2>2. ~GetRequest(o)
    BY <1>9 DEF ExitDrained, GetRequest
  <2> QED BY <1>3, <1>4, <1>6, <1>9, <2>1, <2>2 DEF ExitDrained, One, mainVars, countVars, serving
<1>10. CASE ExitWoken(o) \/ WaitForRequest(o) \/ ClaimRequest(o) \/ SpuriousWakeup(o)
  <2>1. serving' = serving
    BY <1>2, <1>4, <1>10 DEF ExitWoken, WaitForRequest, ClaimRequest, InWaitLoop,
       SpuriousWakeup, One, ServingPlaces, ActivePlaces
  <2> QED BY <1>4, <1>7, <1>10, <2>1 DEF ExitWoken, WaitForRequest, ClaimRequest, InWaitLoop,
       SpuriousWakeup, GetRequest, One, mainVars, countVars
<1>11. CASE BeginRequest(o) \/ HandleRequest(o) \/ HandleShutdown(o) \/ SetShutdown(o)
  <2>1. serving' = serving
    BY <1>2, <1>4, <1>11 DEF BeginRequest, HandleRequest, HandleShutdown, SetShutdown,
       One, ServingPlaces, ActivePlaces
  <2> QED BY <1>4, <1>7, <1>11, <2>1 DEF BeginRequest, HandleRequest, HandleShutdown,
       SetShutdown, GetRequest, One, mainVars, countVars
<1>12. CASE OpenUserFIFO(o)
  <2>1. PICK result \in {"write", "userDown"} : Goto(o, result)
    BY <1>12 DEF OpenUserFIFO
  <2>2. serving' = serving
    BY <1>2, <1>4, <1>12, <2>1 DEF OpenUserFIFO, One, ServingPlaces, ActivePlaces
  <2> QED BY <1>4, <1>7, <1>12, <2>2 DEF OpenUserFIFO, GetRequest, One, mainVars, countVars
<1>13. CASE EndRequest(o)
  <2>1. serving' = serving - One(officePC[o] = "userDown")
    BY <1>2, <1>4, <1>13 DEF EndRequest, ReplyFailed, One, ServingPlaces, ActivePlaces
  <2> QED BY <1>4, <1>7, <1>13, <2>1 DEF EndRequest, GetRequest, One, mainVars
<1>14. CASE FreeSlot(o)
  <2>1. serving' = serving - 1
    BY <1>2, <1>4, <1>14 DEF FreeSlot, One, ServingPlaces, ActivePlaces
  <2>2. mainPC' = "insert" <=> mainPC = "insert"
    BY <1>14 DEF FreeSlot
  <2>3. Filled' = Filled /\ slots' = slots + 1
    BY <1>3, <1>14 DEF FreeSlot, GetRequest
  <2> QED BY <1>4, <1>6, <1>14, <2>1, <2>2, <2>3 DEF FreeSlot, One
<1>15. CASE WriteReply(o)
  <2>1. serving' = serving
    <3>1. CASE Goto(o, "replied")
      BY <1>2, <1>4, <1>15, <3>1 DEF WriteReply, One, ServingPlaces, ActivePlaces
    <3> QED BY <1>5, <1>15, <3>1 DEF WriteReply
  <2> QED BY <1>4, <1>7, <1>15, <2>1 DEF WriteReply, GetRequest, One, mainVars, countVars
<1> QED BY <1>8, <1>9, <1>10, <1>11, <1>12, <1>13, <1>14, <1>15 DEF OfficeStep

\* Main moves slots on, and users do not touch them.
LEMMA OtherSlots ==
  ASSUME QueueInv, (\E u \in Users : UserStep(u)) \/ MainStep \/ SpuriousMainWakeup
  PROVE  SlotSum' = SlotSum
<1>1. TypeOK /\ BufferSafe
  BY DEF QueueInv
<1> DEFINE token == Cardinality(HaveToken)
           serving == Cardinality(Serving)
<1>2. /\ slots \in Int /\ requests \in Int /\ token \in Int /\ serving \in Int
      /\ One(mainPC = "insert") \in Int
  BY <1>1, BufferQuantities, SlotQuantities
<1>3. token' = token /\ serving' = serving
  <2>1. CASE AnnounceRequest
    <3>1. HaveToken' = HaveToken /\ Serving' = Serving
      BY <1>1, <2>1, CountSignal
         DEF AnnounceRequest, HaveToken, Serving, ServingPlaces, ActivePlaces
    <3> QED BY <3>1
  <2>2. CASE ~AnnounceRequest
    <3>1. officePC' = officePC
      BY <2>2 DEF UserStep, OpenServerFIFO, OpenRefused, WriteRequest, MainStep,
         MakeServerFIFO, OpenForReading, ReadRequest, ReadNothing, TestShutdown,
         ClaimSlot, WaitForSlot, InsertRequest, SpuriousMainWakeup, officeVars
    <3> QED BY <3>1 DEF HaveToken, Serving, At
  <2> QED BY <2>1, <2>2
<1>4. /\ SlotSum = slots + One(mainPC = "insert")
                     + (requests + token + One(mainPC = "announce")) + serving
      /\ SlotSum' = slots' + One(mainPC' = "insert")
                     + (requests' + token' + One(mainPC' = "announce")) + serving'
  BY DEF SlotSum, Filled
<1> HIDE DEF token, serving
<1>5. CASE ClaimSlot \/ InsertRequest \/ AnnounceRequest
  BY <1>2, <1>3, <1>4, <1>5 DEF ClaimSlot, InsertRequest, AnnounceRequest, MainGoto,
     One, countVars
<1>6. CASE ~(ClaimSlot \/ InsertRequest \/ AnnounceRequest)
  <2>1. /\ slots' = slots /\ requests' = requests
        /\ mainPC' = "insert" <=> mainPC = "insert"
        /\ mainPC' = "announce" <=> mainPC = "announce"
    BY <1>6 DEF UserStep, OpenServerFIFO, OpenRefused, WriteRequest, MainStep,
       MakeServerFIFO, OpenForReading, ReadRequest, ReadNothing, TestShutdown,
       WaitForSlot, SpuriousMainWakeup, MainGoto, mainVars, countVars
  <2> QED BY <1>2, <1>3, <1>4, <2>1 DEF One
<1> QED BY <1>5, <1>6

\* A request is among the lost slots when it is logged so and its office left
\* processRequestReply.
Down == {tlv[o] : o \in At({"userDown"})}

\* The lost slots stay the same while no log entry and no office about to give
\* up changes.
LEMMA SameLost ==
  ASSUME logged' = logged, At({"userDown"})' = At({"userDown"}),
         \A o \in At({"userDown"}) : tlv'[o] = tlv[o]
  PROVE  LostSlots' = LostSlots
BY DEF LostSlots

\* Giving up on a reply costs the slot of its request.
LEMMA EndLoses ==
  ASSUME SystemInv, NEW o \in Offices, EndRequest(o), officePC[o] = "userDown",
         logged' = logged
  PROVE  tlv[o] \notin LostSlots /\ LostSlots' = LostSlots \cup {tlv[o]}
<1>1. officePC \in [Offices -> OfficeStates]
  BY DEF SystemInv, QueueFacts, QueueInv, TypeOK
<1>2. tlv' = tlv /\ officePC' = [officePC EXCEPT ![o] = "top"]
  BY DEF EndRequest, ReplyFailed, Goto
<1>3. tlv[o] \in Users /\ logged[tlv[o]] = "RC_USR_DOWN"
  BY DEF SystemInv, LogInv, ServingPlaces, ActivePlaces
<1>4. o \in At({"userDown"}) /\ At({"userDown"})' = At({"userDown"}) \ {o}
  BY <1>1, <1>2 DEF At
<1>5. \A p \in Offices : p # o => tlv[p] # tlv[o]
  BY <1>3, QueueAssumption DEF SystemInv, QueueFacts, DeliveredOnce
<1>6. At({"userDown"}) \subseteq Offices
  BY DEF At
<1>7. Down' = Down \ {tlv[o]} /\ tlv[o] \in Down
  BY <1>2, <1>4, <1>5, <1>6 DEF Down
<1> QED BY <1>3, <1>7 DEF LostSlots, Down

\* The office that logs RC_USR_DOWN still has its slot.
LEMMA AnswerKeepsLost ==
  ASSUME SystemInv, NEW o \in Offices, AnswerUser(o)
  PROVE  LostSlots' = LostSlots
<1>1. TypeOK /\ logged \in [Users -> Logs]
  BY DEF SystemInv, QueueFacts, QueueInv, ReplyTypeOK
<1>2. officePC[o] = "reply" /\ tlv' = tlv
  BY DEF AnswerUser, OpenUserFIFO
<1>3. tlv[o] \in Users /\ logged[tlv[o]] = "none"
  BY <1>2 DEF SystemInv, LogInv, ServingPlaces, ActivePlaces
<1>4. \A p \in Offices : p # o => tlv[p] # tlv[o]
  BY <1>3, QueueAssumption DEF SystemInv, QueueFacts, DeliveredOnce
<1>5. tlv[o] \notin LostSlots
  BY <1>3 DEF LostSlots
<1>6. CASE HasReader(tlv[o])
  <2>1. logged' = [logged EXCEPT ![tlv[o]] = "reply"]
    BY <1>6 DEF AnswerUser
  <2>2. At({"userDown"})' = At({"userDown"})
    BY <1>1, <1>2, <1>6 DEF AnswerUser, OpenUserFIFO, Goto, TypeOK, At
  <2>3. {u \in Users : logged'[u] = "RC_USR_DOWN"} = {u \in Users : logged[u] = "RC_USR_DOWN"}
    BY <1>1, <1>3, <2>1
  <2> QED BY <1>2, <2>2, <2>3 DEF LostSlots
<1>7. CASE ~HasReader(tlv[o])
  <2>1. logged' = [logged EXCEPT ![tlv[o]] = "RC_USR_DOWN"]
    BY <1>7 DEF AnswerUser
  <2>2. At({"userDown"})' = At({"userDown"}) \cup {o}
    BY <1>1, <1>2, <1>7 DEF AnswerUser, OpenUserFIFO, Goto, TypeOK, At
  <2>3. Down' = Down \cup {tlv[o]}
    BY <1>2, <2>2 DEF Down
  <2>4. {u \in Users : logged'[u] = "RC_USR_DOWN"}
          = {u \in Users : logged[u] = "RC_USR_DOWN"} \cup {tlv[o]}
    BY <1>1, <1>3, <2>1
  <2>5. logged[tlv[o]] # "RC_USR_DOWN"
    BY <1>3
  <2> QED BY <1>2, <2>3, <2>4, <2>5 DEF LostSlots, Down
<1> QED BY <1>6, <1>7

LostInv == IsFiniteSet(LostSlots) /\ SlotsAccounted

\* Every step keeps the count of the lost slots.
LEMMA SlotsKept ==
  ASSUME SystemInv, LostInv, [SystemNext]_systemVars
  PROVE  LostInv'
<1>1. QueueInv /\ TypeOK
  BY DEF SystemInv, QueueFacts, QueueInv
<1>2. SlotSum \in Int /\ SlotSum + Cardinality(LostSlots) = MAX_SAVED_REQUESTS
      /\ Cardinality(LostSlots) \in Nat
  BY <1>1, SlotQuantities, FS_CardinalityType DEF LostInv, SlotsAccounted, SlotSum
<1>3. ASSUME SlotSum' = SlotSum, LostSlots' = LostSlots PROVE LostInv'
  BY <1>2, <1>3 DEF LostInv, SlotsAccounted, SlotSum
<1>4. CASE UNCHANGED systemVars
  <2>1. Filled' = Filled
    BY <1>4, FilledKept DEF systemVars, vars, mainVars, countVars, officeVars
  <2>2. SlotSum' = SlotSum /\ LostSlots' = LostSlots
    BY <1>4, <2>1, SameLost
       DEF systemVars, vars, mainVars, countVars, officeVars, sessionVars, SlotSum, Serving, At
  <2> QED BY <1>3, <2>2
<1>5. CASE \E u \in Users : UserProcess(u)
  <2>1. PICK u \in Users : UserProcess(u)
    BY <1>5
  <2>2. UNCHANGED <<officePC, tlv, logged>>
    BY <2>1 DEF UserProcess, MakeUserFIFO, RejectArguments, ConnectToServer,
       FindServerDown, SendRequest, SetAlarm, OpenOwnFIFO, ReadReply, PrintReply, Finish,
       TimeOut, OpenServerFIFO, OpenRefused, WriteRequest, vars, officeVars, sessionVars
  <2>3. LostSlots' = LostSlots
    BY <2>2, SameLost DEF At
  <2>4. CASE UserStep(u)
    BY <1>1, <1>3, <2>3, <2>4, OtherSlots
  <2>5. CASE UNCHANGED vars
    <3>1. Filled' = Filled
      BY <2>5, FilledKept DEF vars, mainVars, countVars, officeVars
    <3>2. SlotSum' = SlotSum
      BY <2>5, <3>1 DEF vars, mainVars, countVars, officeVars, SlotSum, Serving, At
    <3> QED BY <1>3, <2>3, <3>2
  <2> QED BY <2>1, <2>4, <2>5, UserProcessQueue
<1>6. CASE (MainStep \/ SpuriousMainWakeup) /\ UNCHANGED sessionVars
  <2>1. tlv' = tlv /\ (officePC' = officePC \/ SignalOffice)
    BY <1>6 DEF MainStep, MakeServerFIFO, OpenForReading, ReadRequest, ReadNothing,
       TestShutdown, ClaimSlot, WaitForSlot, InsertRequest, AnnounceRequest,
       SpuriousMainWakeup, officeVars
  <2>2. At({"userDown"})' = At({"userDown"})
    BY <1>1, <2>1, CountSignal DEF At
  <2>3. LostSlots' = LostSlots
    BY <1>6, <2>1, <2>2, SameLost DEF sessionVars
  <2> QED BY <1>1, <1>3, <1>6, <2>3, OtherSlots
<1>7. ASSUME NEW o \in Offices, UNCHANGED sessionVars,
             \/ officePC[o] \notin {"reply", "write"} /\ OfficeStep(o)
             \/ SpuriousWakeup(o)
      PROVE  LostInv'
  <2>1. logged' = logged
    BY <1>7 DEF sessionVars
  <2>2. CASE officePC[o] = "userDown"
    <3>1. EndRequest(o)
      BY <1>7, <2>2 DEF OfficeStep, ExitDrained, ExitWoken, WaitForRequest, ClaimRequest,
         InWaitLoop, GetRequest, BeginRequest, HandleRequest, HandleShutdown, SetShutdown,
         OpenUserFIFO, WriteReply, FreeSlot, SpuriousWakeup
    <3>2. tlv[o] \notin LostSlots /\ LostSlots' = LostSlots \cup {tlv[o]}
      BY <2>1, <2>2, <3>1, EndLoses
    <3>3. IsFiniteSet(LostSlots') /\ Cardinality(LostSlots') = Cardinality(LostSlots) + 1
      BY <3>2, FS_AddElement DEF LostInv
    <3>4. SlotSum' = SlotSum - 1
      BY <1>1, <1>7, <2>2, OfficeSlots DEF One
    <3>5. SlotSum' + Cardinality(LostSlots') = MAX_SAVED_REQUESTS
      BY <1>2, <3>3, <3>4
    <3> QED BY <3>3, <3>5 DEF LostInv, SlotsAccounted, SlotSum
  <2>3. CASE officePC[o] # "userDown"
    <3>1. SlotSum' = SlotSum
      BY <1>1, <1>2, <1>7, <2>3, OfficeSlots DEF One
    <3>2. \A p \in Offices : officePC'[p] = "userDown" <=> officePC[p] = "userDown"
      BY <1>1, <1>7, <2>3 DEF OfficeStep, ExitDrained, BroadcastAndLeave, ExitWoken,
         WaitForRequest, ClaimRequest, InWaitLoop, GetRequest, BeginRequest, HandleRequest,
         HandleShutdown, SetShutdown, OpenUserFIFO, WriteReply, EndRequest, ReplyFailed,
         FreeSlot, SpuriousWakeup, Goto, TypeOK
    <3>3. \A p \in Offices : p # o => tlv'[p] = tlv[p]
      BY <1>1, <1>7 DEF OfficeStep, ExitDrained, ExitWoken, WaitForRequest, ClaimRequest,
         GetRequest, BeginRequest, HandleRequest, HandleShutdown, SetShutdown, OpenUserFIFO,
         WriteReply, EndRequest, FreeSlot, SpuriousWakeup, TypeOK, officeVars
    <3>4. LostSlots' = LostSlots
      BY <2>1, <2>3, <3>2, <3>3, SameLost DEF At
    <3> QED BY <1>3, <3>1, <3>4
  <2> QED BY <2>2, <2>3
<1>8. ASSUME NEW o \in Offices, AnswerUser(o) PROVE LostInv'
  <2>1. OfficeStep(o) /\ officePC[o] = "reply"
    BY <1>8 DEF AnswerUser, OpenUserFIFO, OfficeStep
  <2>2. SlotSum' = SlotSum
    BY <1>1, <1>2, <2>1, OfficeSlots DEF One
  <2> QED BY <1>3, <1>8, <2>2, AnswerKeepsLost
<1>9. ASSUME NEW o \in Offices, SendReply(o) PROVE LostInv'
  <2>1. OfficeStep(o) /\ officePC[o] = "write"
    BY <1>9 DEF SendReply, WriteReply, OfficeStep
  <2>2. SlotSum' = SlotSum
    BY <1>1, <1>2, <2>1, OfficeSlots DEF One
  <2>3. At({"userDown"})' = At({"userDown"}) /\ tlv' = tlv /\ logged' = logged
    BY <1>1, <1>9 DEF SendReply, WriteReply, Goto, TypeOK, At
  <2>4. LostSlots' = LostSlots
    BY <2>3, SameLost
  <2> QED BY <1>3, <2>2, <2>4
<1> QED BY <1>4, <1>5, <1>6, <1>7, <1>8, <1>9 DEF SystemNext, ServerStep

\* Exactly as many slots are lost for good as offices found their user gone:
\* one for each of those requests and none for any other reason.
THEOREM LostSlotsAccounted == SystemSpec => []SlotsAccounted
<1>1. SystemInit => LostInv
  <2> SUFFICES ASSUME SystemInit PROVE LostInv
    OBVIOUS
  <2>1. LostSlots = {} /\ HaveToken = {} /\ Serving = {}
    BY DEF SystemInit, Init, LostSlots, HaveToken, Serving, At, ServingPlaces, ActivePlaces
  <2> QED BY <2>1, FS_EmptySet, QueueAssumption
          DEF SystemInit, Init, LostInv, SlotsAccounted, Filled, One
<1>2. SystemInv /\ LostInv /\ [SystemNext]_systemVars => LostInv'
  BY SlotsKept
<1>3. LostInv => SlotsAccounted
  BY DEF LostInv
<1> QED BY <1>1, <1>2, <1>3, LogsConsistent, PTL DEF SystemSpec
=============================================================================
