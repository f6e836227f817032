---------------------------- MODULE RequestQueue ----------------------------
(***************************************************************************)
(* The request path of the home-banking server: the server FIFO, the main  *)
(* thread that reads it (bankCycle, produceRequest, insertRequest), the    *)
(* circular buffer, and the bank offices that empty it (consumeRequest,    *)
(* getRequest, processRequestReply), up to and including the shutdown.     *)
(*                                                                         *)
(* What a request does to the accounts is not modelled here: an office     *)
(* handles one, answers it or finds the user gone, and goes on.  A server  *)
(* that is killed leaves its FIFO, as writable as it was then, so a new    *)
(* server may find one.                                                    *)
(*                                                                         *)
(* Grain.  A critical section of queueLock, slotsLock, requestsLock or     *)
(* activeLock is one action: the counters it guards are touched under the  *)
(* lock only and nothing inside blocks except pthread_cond_wait, which is  *)
(* split into going to sleep, being woken and re-entering the section.     *)
(* The flag shutdown is read without the lock that its writers hold, but   *)
(* it is a single word that only goes from 0 to 1, and a section that read *)
(* 0 before another thread wrote 1 is the same as one that ran before the  *)
(* write.  The one place where the gap shows, between read() and the test  *)
(* of shutdown in bankCycle, is two actions.                               *)
(***************************************************************************)
EXTENDS Integers, Sequences, FiniteSets

CONSTANTS
  Offices,             \* the bank office threads (1..numThreads)
  Users,               \* user processes; each makes one request, named after it
  ShutdownUsers,       \* those whose request is the admin's OP_SHUTDOWN
  MAX_SAVED_REQUESTS,  \* slots of the circular buffer
  NoRequest            \* a tlv_request_t nothing was stored in

ASSUME QueueAssumption ==
  /\ IsFiniteSet(Offices)
  /\ ShutdownUsers \subseteq Users
  /\ MAX_SAVED_REQUESTS \in Nat \ {0}
  /\ NoRequest \notin Users

VARIABLES
  user,          \* user[u]: how far writeRequest of u's process got
  serverFIFO,    \* requests written to the FIFO and not read yet
  fifoMode,      \* "absent", "writable", "readonly" (after chmod) or "unlinked"
  alive,         \* no signal killed the server
  mainPC,        \* the main thread's place in main, from mkfifo on
  mainTlv,       \* tlv of bankCycle
  requestQueue,  \* the circular buffer
  inputIndex,
  outputIndex,
  slots,         \* slots the main thread may still claim
  requests,      \* requests the offices may still claim
  activeThreads,
  shutdown,
  officePC,      \* officePC[o]: office o's place in consumeRequest
  tlv            \* tlv[o]: the request office o works on

fifoVars   == <<user, serverFIFO, fifoMode>>
mainVars   == <<mainPC, mainTlv>>
bufferVars == <<requestQueue, inputIndex, outputIndex>>
countVars  == <<slots, requests, activeThreads, shutdown>>
officeVars == <<officePC, tlv>>
vars == <<alive, fifoVars, mainVars, bufferVars, countVars, officeVars>>

Indices == 0 .. MAX_SAVED_REQUESTS - 1

UserStates   == {"start", "opened", "sent", "refused", "killed"}
FifoModes    == {"absent", "writable", "readonly", "unlinked"}
MainStates   == {"mkfifo", "open", "read", "eof", "claim", "waitSlot", "wokenSlot",
                 "insert", "announce", "done"}
OfficeStates == {"top", "wait", "woken", "pop", "begin", "handle", "flag",
                 "reply", "write", "replied", "userDown", "free", "exited"}

TypeOK ==
  /\ user          \in [Users -> UserStates]
  /\ serverFIFO    \in Seq(Users)
  /\ fifoMode      \in FifoModes
  /\ alive         \in BOOLEAN
  /\ mainPC        \in MainStates
  /\ mainTlv       \in Users \cup {NoRequest}
  /\ requestQueue  \in [Indices -> Users \cup {NoRequest}]
  /\ inputIndex    \in Indices
  /\ outputIndex   \in Indices
  /\ slots         \in Int
  /\ requests      \in Int
  /\ activeThreads \in Int
  /\ shutdown      \in BOOLEAN
  /\ officePC      \in [Offices -> OfficeStates]
  /\ tlv           \in [Offices -> Users \cup {NoRequest}]

Init ==
  /\ user          = [u \in Users |-> "start"]
  /\ serverFIFO    = << >>
  /\ fifoMode      \in {"absent", "writable", "readonly"}
  /\ alive         = TRUE
  /\ mainPC        = "mkfifo"
  /\ mainTlv       = NoRequest
  /\ requestQueue  = [i \in Indices |-> NoRequest]
  /\ inputIndex    = 0
  /\ outputIndex   = 0
  /\ slots         = MAX_SAVED_REQUESTS
  /\ requests      = 0
  /\ activeThreads = 0
  /\ shutdown      = FALSE
  /\ officePC      = [o \in Offices |-> "top"]
  /\ tlv           = [o \in Offices |-> NoRequest]

Goto(o, place)  == officePC' = [officePC EXCEPT ![o] = place]
MainGoto(place) == mainPC' = place

NextIndexUnwrapped(i) == i + 1   \* faulty variant
NextIndex(i) == (i + 1) % MAX_SAVED_REQUESTS

Writers == {u \in Users : user[u] = "opened"}
Waiting == {o \in Offices : officePC[o] = "wait"}

\* The process ends when its last thread does: main leaves by pthread_exit.
ServerEnded == mainPC = "done" /\ \A o \in Offices : officePC[o] = "exited"
ServerGone == ~alive \/ ServerEnded

-----------------------------------------------------------------------------
(* The user processes, as far as the server FIFO sees them.                *)

\* open(SERVER_FIFO_PATH, O_WRONLY) finds a FIFO it may write to; it returns
\* once the server has it open for reading, and never does if the server was
\* killed, which leaves the FIFO there.
OpenServerFIFO(u) ==
  /\ user[u] = "start"
  /\ fifoMode = "writable" /\ alive
  /\ user' = [user EXCEPT ![u] = "opened"]
  /\ UNCHANGED <<alive, serverFIFO, fifoMode, mainVars, bufferVars, countVars, officeVars>>

\* open fails, the path being not there yet, read-only or gone: u reports
\* RC_SRV_DOWN.
OpenRefused(u) ==
  /\ user[u] = "start"
  /\ fifoMode # "writable"
  /\ user' = [user EXCEPT ![u] = "refused"]
  /\ UNCHANGED <<alive, serverFIFO, fifoMode, mainVars, bufferVars, countVars, officeVars>>

\* write and close, once open returned; a write with no reader left kills u
\* with SIGPIPE.
WriteRequest(u) ==
  /\ user[u] = "opened"
  /\ mainPC \notin {"mkfifo", "open"}
  /\ \/ /\ ~ServerGone
        /\ serverFIFO' = Append(serverFIFO, u)
        /\ user' = [user EXCEPT ![u] = "sent"]
     \/ /\ ServerGone
        /\ user' = [user EXCEPT ![u] = "killed"]
        /\ UNCHANGED serverFIFO
  /\ UNCHANGED <<alive, fifoMode, mainVars, bufferVars, countVars, officeVars>>

-----------------------------------------------------------------------------
(* The main thread.                                                        *)

\* main, after createBankOffices started the offices; mkfifo leaves a FIFO that
\* is there as it is.
MakeServerFIFO ==
  /\ alive
  /\ mainPC = "mkfifo"
  /\ fifoMode' = IF fifoMode = "absent" THEN "writable" ELSE fifoMode
  /\ MainGoto("open")
  /\ UNCHANGED <<alive, mainTlv, user, serverFIFO, bufferVars, countVars, officeVars>>

\* open(SERVER_FIFO_PATH, O_RDONLY) returns when a writer opens it too.
OpenForReading ==
  /\ alive
  /\ mainPC = "open"
  /\ Writers # {}
  /\ MainGoto("read")
  /\ UNCHANGED <<alive, mainTlv, fifoVars, bufferVars, countVars, officeVars>>

\* read() returns a request.
ReadRequest ==
  /\ alive
  /\ mainPC = "read"
  /\ serverFIFO # << >>
  /\ mainTlv' = Head(serverFIFO)
  /\ serverFIFO' = Tail(serverFIFO)
  /\ MainGoto("claim")
  /\ UNCHANGED <<alive, user, fifoMode, bufferVars, countVars, officeVars>>

\* read() returns 0: the FIFO is empty and nobody has it open for writing.
ReadNothing ==
  /\ alive
  /\ mainPC = "read"
  /\ serverFIFO = << >>
  /\ Writers = {}
  /\ MainGoto("eof")
  /\ UNCHANGED <<alive, mainTlv, fifoVars, bufferVars, countVars, officeVars>>

\* shutdown is tested only after a read that returned nothing.
TestShutdown ==
  /\ alive
  /\ mainPC = "eof"
  /\ IF shutdown
     THEN MainGoto("done") /\ fifoMode' = "unlinked"
     ELSE MainGoto("read") /\ UNCHANGED fifoMode
  /\ UNCHANGED <<alive, mainTlv, user, serverFIFO, bufferVars, countVars, officeVars>>

\* The test of the wait loop of produceRequest.
SlotFreeOffByOne == slots >= 0   \* faulty variant
SlotFree == slots > 0

\* produceRequest, slotsLock section: claim a slot or sleep on slotsCond.
ClaimSlot ==
  /\ alive
  /\ mainPC \in {"claim", "wokenSlot"}
  /\ SlotFree
  /\ slots' = slots - 1
  /\ MainGoto("insert")
  /\ UNCHANGED <<alive, mainTlv, requests, activeThreads, shutdown, fifoVars, bufferVars, officeVars>>

WaitForSlot ==
  /\ alive
  /\ mainPC \in {"claim", "wokenSlot"}
  /\ ~SlotFree
  /\ MainGoto("waitSlot")
  /\ UNCHANGED <<alive, mainTlv, fifoVars, bufferVars, countVars, officeVars>>

\* insertRequest, queueLock section.
InsertRequest ==
  /\ alive
  /\ mainPC = "insert"
  /\ requestQueue' = [requestQueue EXCEPT ![inputIndex] = mainTlv]
  /\ inputIndex' = NextIndex(inputIndex)
  /\ MainGoto("announce")
  /\ UNCHANGED <<alive, mainTlv, outputIndex, fifoVars, countVars, officeVars>>

\* pthread_cond_signal(&requestsCond): one sleeping office, if there is one.
SignalNobody == UNCHANGED officePC   \* faulty variant
SignalOffice ==
  IF Waiting = {} THEN UNCHANGED officePC
                  ELSE \E o \in Waiting : Goto(o, "woken")

\* produceRequest, requestsLock section.
AnnounceRequest ==
  /\ alive
  /\ mainPC = "announce"
  /\ requests' = requests + 1
  /\ SignalOffice
  /\ MainGoto("read")
  /\ UNCHANGED <<alive, mainTlv, slots, activeThreads, shutdown, fifoVars, bufferVars, tlv>>

\* pthread_cond_wait may return without a signal.
SpuriousMainWakeup ==
  /\ alive
  /\ mainPC = "waitSlot"
  /\ MainGoto("wokenSlot")
  /\ UNCHANGED <<alive, mainTlv, fifoVars, bufferVars, countVars, officeVars>>

-----------------------------------------------------------------------------
(* A bank office.  "top" is the head of the while (1) loop, "woken" the    *)
(* return from pthread_cond_wait inside the loop on requests.              *)

\* pthread_cond_broadcast(&requestsCond) by office o, which then leaves.
LeaveSilently(o) == Goto(o, "exited")   \* faulty variant
BroadcastAndLeave(o) ==
  officePC' = [p \in Offices |->
      IF p = o THEN "exited"
      ELSE IF officePC[p] = "wait" THEN "woken" ELSE officePC[p]]

\* shutdown && requests <= 0 at the head of the loop.
ExitDrained(o) ==
  /\ alive
  /\ officePC[o] = "top"
  /\ shutdown
  /\ requests <= 0
  /\ BroadcastAndLeave(o)
  /\ UNCHANGED <<alive, tlv, fifoVars, mainVars, bufferVars, countVars>>

\* shutdown seen on return from the wait: leave, whatever requests says.
ExitWoken(o) ==
  /\ alive
  /\ officePC[o] = "woken"
  /\ shutdown
  /\ Goto(o, "exited")
  /\ UNCHANGED <<alive, tlv, fifoVars, mainVars, bufferVars, countVars>>

\* Past the tests on shutdown: office o looks at requests.
InWaitLoop(o) == officePC[o] = "top" \/ (officePC[o] = "woken" /\ ~shutdown)

WaitForRequest(o) ==
  /\ alive
  /\ InWaitLoop(o)
  /\ ~shutdown
  /\ requests <= 0
  /\ Goto(o, "wait")
  /\ UNCHANGED <<alive, tlv, fifoVars, mainVars, bufferVars, countVars>>

ClaimRequest(o) ==
  /\ alive
  /\ InWaitLoop(o)
  /\ requests > 0
  /\ requests' = requests - 1
  /\ Goto(o, "pop")
  /\ UNCHANGED <<alive, tlv, slots, activeThreads, shutdown, fifoVars, mainVars, bufferVars>>

SpuriousWakeup(o) ==
  /\ alive
  /\ officePC[o] = "wait"
  /\ Goto(o, "woken")
  /\ UNCHANGED <<alive, tlv, fifoVars, mainVars, bufferVars, countVars>>

\* The request getRequest copies out.
NewestRequest == requestQueue[inputIndex]   \* faulty variant
OldestRequest == requestQueue[outputIndex]

\* getRequest, queueLock section.
GetRequest(o) ==
  /\ alive
  /\ officePC[o] = "pop"
  /\ tlv' = [tlv EXCEPT ![o] = OldestRequest]
  /\ outputIndex' = NextIndex(outputIndex)
  /\ Goto(o, "begin")
  /\ UNCHANGED <<alive, requestQueue, inputIndex, fifoVars, mainVars, countVars>>

\* processRequestReply: activeThreads++ under activeLock.
BeginRequest(o) ==
  /\ alive
  /\ officePC[o] = "begin"
  /\ activeThreads' = activeThreads + 1
  /\ Goto(o, "handle")
  /\ UNCHANGED <<alive, tlv, slots, requests, shutdown, fifoVars, mainVars, bufferVars>>

\* requestHandler, every operation but a shutdown.
HandleRequest(o) ==
  /\ alive
  /\ officePC[o] = "handle"
  /\ tlv[o] \notin ShutdownUsers
  /\ Goto(o, "reply")
  /\ UNCHANGED <<alive, tlv, fifoVars, mainVars, bufferVars, countVars>>

\* requestHandler, OP_SHUTDOWN: chmod first, the flag only on return.
HandleShutdown(o) ==
  /\ alive
  /\ officePC[o] = "handle"
  /\ tlv[o] \in ShutdownUsers
  /\ fifoMode' = IF fifoMode = "unlinked" THEN fifoMode ELSE "readonly"
  /\ Goto(o, "flag")
  /\ UNCHANGED <<alive, tlv, user, serverFIFO, mainVars, bufferVars, countVars>>

SetShutdown(o) ==
  /\ alive
  /\ officePC[o] = "flag"
  /\ shutdown' = TRUE
  /\ Goto(o, "reply")
  /\ UNCHANGED <<alive, tlv, slots, requests, activeThreads, fifoVars, mainVars, bufferVars>>

\* open(pathFIFO, O_WRONLY | O_NONBLOCK) finds the user reading, or does not.
OpenUserFIFO(o) ==
  /\ alive
  /\ officePC[o] = "reply"
  /\ \E result \in {"write", "userDown"} : Goto(o, result)
  /\ UNCHANGED <<alive, tlv, fifoVars, mainVars, bufferVars, countVars>>

\* write and close; nobody handles SIGPIPE, so a user that has ended since the
\* open takes the whole server with it.
WriteReply(o) ==
  /\ alive
  /\ officePC[o] = "write"
  /\ \/ Goto(o, "replied") /\ UNCHANGED alive
     \/ alive' = FALSE /\ UNCHANGED officePC
  /\ UNCHANGED <<tlv, fifoVars, mainVars, bufferVars, countVars>>

\* Both exits of processRequestReply decrement activeThreads.
EndCountIfReplied(o) ==   \* faulty variant
  activeThreads' = IF officePC[o] = "replied" THEN activeThreads - 1 ELSE activeThreads
EndCount(o) == activeThreads' = activeThreads - 1

\* processRequestReply returned -1, not 0.
ReplySucceeded(o) == officePC[o] = "replied"   \* faulty variant: test negated
ReplyFailed(o) == officePC[o] = "userDown"

\* activeThreads--; after a failed reply the loop continues at once.
EndRequest(o) ==
  /\ alive
  /\ officePC[o] \in {"replied", "userDown"}
  /\ EndCount(o)
  /\ Goto(o, IF ReplyFailed(o) THEN "top" ELSE "free")
  /\ UNCHANGED <<alive, tlv, slots, requests, shutdown, fifoVars, mainVars, bufferVars>>

\* slotsLock section: slots++ and pthread_cond_signal(&slotsCond).
FreeSlot(o) ==
  /\ alive
  /\ officePC[o] = "free"
  /\ slots' = slots + 1
  /\ mainPC' = IF mainPC = "waitSlot" THEN "wokenSlot" ELSE mainPC
  /\ Goto(o, "top")
  /\ UNCHANGED <<alive, tlv, mainTlv, requests, activeThreads, shutdown, fifoVars, bufferVars>>

-----------------------------------------------------------------------------
UserStep(u) == OpenServerFIFO(u) \/ OpenRefused(u) \/ WriteRequest(u)

MainStep ==
  \/ MakeServerFIFO \/ OpenForReading \/ ReadRequest \/ ReadNothing \/ TestShutdown
  \/ ClaimSlot \/ WaitForSlot \/ InsertRequest \/ AnnounceRequest

OfficeStep(o) ==
  \/ ExitDrained(o) \/ ExitWoken(o) \/ WaitForRequest(o) \/ ClaimRequest(o)
  \/ GetRequest(o) \/ BeginRequest(o) \/ HandleRequest(o)
  \/ HandleShutdown(o) \/ SetShutdown(o)
  \/ OpenUserFIFO(o) \/ WriteReply(o) \/ EndRequest(o) \/ FreeSlot(o)

Next ==
  \/ \E u \in Users : UserStep(u)
  \/ MainStep
  \/ SpuriousMainWakeup
  \/ \E o \in Offices : OfficeStep(o) \/ SpuriousWakeup(o)

\* Every thread keeps being scheduled and gets the (unnested) locks it asks
\* for; a user that opened the FIFO goes on to write and close it.
Fairness ==
  /\ WF_vars(MainStep)
  /\ \A o \in Offices : WF_vars(OfficeStep(o))
  /\ \A u \in Users : WF_vars(WriteRequest(u))

Spec == Init /\ [][Next]_vars
FairSpec == Spec /\ Fairness
-----------------------------------------------------------------------------
(* Where requests are.                                                     *)

At(places) == {o \in Offices : officePC[o] \in places}

ActivePlaces == {"handle", "flag", "reply", "write", "replied", "userDown"}
ServingPlaces == {"begin", "free"} \cup ActivePlaces

HaveToken == At({"pop"})          \* claimed a request, not copied out yet
Active    == At(ActivePlaces)     \* between activeThreads++ and activeThreads--
Serving   == At(ServingPlaces)    \* has a request whose slot is not free yet

One(condition) == IF condition THEN 1 ELSE 0

\* Buffer positions that hold a request no office has copied out yet.
Filled == requests + Cardinality(HaveToken) + One(mainPC = "announce")

Queued == [k \in 1 .. Filled |->
             requestQueue[(outputIndex + k - 1) % MAX_SAVED_REQUESTS]]

InTransit == IF mainPC \in {"claim", "waitSlot", "wokenSlot", "insert"}
             THEN <<mainTlv>> ELSE << >>

\* Everything written to the FIFO that no office has taken, oldest first.
Pending == Queued \o InTransit \o serverFIFO

-----------------------------------------------------------------------------
(* Safety.                                                                 *)

\* The two counters and the two indices, each moved under a lock of its own
\* and by different threads, agree.  A slot is free, being filled, filled, or
\* with an office, never two of them at once, so main never overwrites a
\* request an office has still to copy out; and inputIndex is as far ahead of
\* outputIndex as there are requests between them, so an office that claimed
\* a request finds one.  (produceRequest, insertRequest, getRequest)
BufferSafe ==
  /\ slots >= 0 /\ requests >= 0
  /\ slots + One(mainPC = "insert") + Filled + Cardinality(Serving)
       <= MAX_SAVED_REQUESTS
  /\ inputIndex = (outputIndex + Filled) % MAX_SAVED_REQUESTS

\* No request and no shutdown is slept through.  While offices wait on
\* requestsCond and a request could be claimed, some office is on its way to
\* requestsLock; once the server shuts down, one of those on their way has not
\* just been woken, for the woken ones leave without waking anybody.  None
\* leaves before the shutdown.  (consumeRequest, produceRequest)
NoLostWakeup ==
  /\ Waiting # {} /\ requests > 0
       => \E o \in Offices : officePC[o] \notin {"wait", "exited"}
  /\ Waiting # {} /\ shutdown
       => \E o \in Offices : officePC[o] \notin {"wait", "woken", "exited"}
  /\ \A o \in Offices : officePC[o] = "exited" => shutdown

\* activeThreads, which the reply to a shutdown reports, is the number of
\* offices inside processRequestReply.
ActiveThreadsExact == activeThreads = Cardinality(Active)

\* The server FIFO, the main thread and the circular buffer are together one
\* FIFO channel: every request written comes out once, in order, to one office.
Channel == INSTANCE RequestChannel WITH
  channel <- Pending,
  held    <- tlv,
  sent    <- {u \in Users : user[u] = "sent"}

ChannelSpec == Channel!Spec

-----------------------------------------------------------------------------
(* Liveness, under FairSpec.                                               *)

\* After a shutdown every office ends, whatever it was doing or waiting for and
\* with requests still in the queue, unless a reply to a user that is gone
\* kills the server before.  (consumeRequest)
ShutdownStopsOffices ==
  shutdown ~> ~alive \/ \A o \in Offices : officePC[o] = "exited"

\* A request in the buffer is taken by an office, unless all have ended or the
\* server was killed.
QueuedIsTaken ==
  \A u \in Users :
    u \in {Queued[k] : k \in DOMAIN Queued}
      ~> \/ \E o \in Offices : tlv[o] = u
         \/ ~alive
         \/ \A o \in Offices : officePC[o] = "exited"

-----------------------------------------------------------------------------
(* What the repository says and the code does not do.                      *)

\* server.h on produceRequest: it waits "when there are no slots available".
\* So when main sleeps, every slot holds a queued request or belongs to an
\* office that has not finished with its request.
WaitsOnlyWhenFull ==
  mainPC = "waitSlot" => Filled + Cardinality(Serving) >= MAX_SAVED_REQUESTS

\* report.pdf, page 2, on the shutdown: main reads until nothing is left, the
\* offices execute what is in the queue until there is no request, and only
\* then they end.  So no request is still queued when they all have.
NothingLeftBehind == ServerEnded => Queued = << >>

=============================================================================
