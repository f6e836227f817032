---------------------------- MODULE HomeBanking ----------------------------
(***************************************************************************)
(* The whole service: user processes (user.c), each with a FIFO of its own *)
(* and an alarm, and the server of RequestQueue.tla, whose offices open    *)
(* that FIFO and write the reply to it.                                    *)
(*                                                                         *)
(* RequestQueue leaves open whether an office finds the user there; here   *)
(* the user decides.  The alarm may go off at any time once it is set: its *)
(* 30 seconds are more than any step takes and less than a queue may.      *)
(***************************************************************************)
EXTENDS RequestQueue

VARIABLES
  session,   \* session[u]: u's place in main and readReply
  userFIFOs, \* users whose FIFO exists
  inbox,     \* users whose FIFO holds a reply
  told,      \* told[u]: what u's process printed
  logged     \* logged[u]: the return code an office logged for u, if any

sessionVars == <<session, userFIFOs, inbox, told, logged>>
systemVars == <<vars, sessionVars>>

Sessions == {"start", "made", "armed", "reading", "got", "clean", "ended"}
Outcomes == {"invalid", "reply", "RC_SRV_DOWN", "RC_SRV_TIMEOUT"}
Logs     == {"none", "reply", "RC_USR_DOWN"}

SystemTypeOK ==
  /\ TypeOK
  /\ session   \in [Users -> Sessions]
  /\ userFIFOs \subseteq Users
  /\ inbox     \subseteq Users
  /\ told      \in [Users -> SUBSET Outcomes]
  /\ logged    \in [Users -> Logs]

SystemInit ==
  /\ Init
  /\ session   = [u \in Users |-> "start"]
  /\ userFIFOs = {}
  /\ inbox     = {}
  /\ told      = [u \in Users |-> {}]
  /\ logged    = [u \in Users |-> "none"]

Step(u, from, to) == session[u] = from /\ session' = [session EXCEPT ![u] = to]
Tell(u, outcome) == told' = [told EXCEPT ![u] = @ \cup {outcome}]

-----------------------------------------------------------------------------
(* A user process.                                                         *)

MakeUserFIFO(u) ==
  /\ Step(u, "start", "made")
  /\ userFIFOs' = userFIFOs \cup {u}
  /\ UNCHANGED <<vars, inbox, told, logged>>

\* init on arguments it does not accept: it says so and exits, or crashes on a
\* word that is missing or too long.  The FIFO stays.
RejectArguments(u) ==
  /\ user[u] = "start"
  /\ Step(u, "made", "ended")
  /\ Tell(u, "invalid") \/ UNCHANGED told
  /\ UNCHANGED <<vars, userFIFOs, inbox, logged>>

\* writeRequest
ConnectToServer(u) ==
  /\ session[u] = "made"
  /\ OpenServerFIFO(u)
  /\ UNCHANGED sessionVars

FindServerDown(u) ==
  /\ OpenRefused(u)
  /\ session[u] = "made"
  /\ Tell(u, "RC_SRV_DOWN")
  /\ UNCHANGED <<session, userFIFOs, inbox, logged>>

SendRequest(u) ==
  /\ WriteRequest(u)
  /\ session' = [session EXCEPT ![u] = IF ServerGone THEN "ended" ELSE @]
  /\ UNCHANGED <<userFIFOs, inbox, told, logged>>

\* writeRequest returned 1.
WriteTried(u) == user[u] \in {"sent", "refused"}   \* faulty variant
WriteDone(u) == user[u] = "sent"

\* readReply: sigaction and alarm, then open, which makes u a reader of its
\* FIFO even while it waits for a writer.
SetAlarm(u) ==
  /\ WriteDone(u)
  /\ Step(u, "made", "armed")
  /\ UNCHANGED <<vars, userFIFOs, inbox, told, logged>>

OpenOwnFIFO(u) ==
  /\ Step(u, "armed", "reading")
  /\ UNCHANGED <<vars, userFIFOs, inbox, told, logged>>

ReadReply(u) ==
  /\ u \in inbox
  /\ Step(u, "reading", "got")
  /\ inbox' = inbox \ {u}
  /\ UNCHANGED <<vars, userFIFOs, told, logged>>

PrintReply(u) ==
  /\ Step(u, "got", "clean")
  /\ Tell(u, "reply")
  /\ UNCHANGED <<vars, userFIFOs, inbox, logged>>

\* The end of main, after readReply or a writeRequest that returned 0.
Finish(u) ==
  /\ \/ Step(u, "clean", "ended")
     \/ user[u] = "refused" /\ Step(u, "made", "ended")
  /\ userFIFOs' = userFIFOs \ {u}
  /\ UNCHANGED <<vars, inbox, told, logged>>

\* The alarm is set from SetAlarm to the end of the process.
AlarmNeverSet(u) == FALSE   \* faulty variant
AlarmIsSet(u) == session[u] \in {"armed", "reading", "got", "clean"}

\* alarm_handler
TimeOutLeavingFIFO(u) ==   \* faulty variant
  /\ AlarmIsSet(u)
  /\ session' = [session EXCEPT ![u] = "ended"]
  /\ Tell(u, "RC_SRV_TIMEOUT")
  /\ UNCHANGED <<vars, userFIFOs, inbox, logged>>
TimeOut(u) ==
  /\ AlarmIsSet(u)
  /\ session' = [session EXCEPT ![u] = "ended"]
  /\ Tell(u, "RC_SRV_TIMEOUT")
  /\ userFIFOs' = userFIFOs \ {u}
  /\ UNCHANGED <<vars, inbox, logged>>

-----------------------------------------------------------------------------
(* The server.                                                             *)

HasReader(u) == session[u] = "reading"

\* open(pathFIFO, O_WRONLY | O_NONBLOCK) and logReply: without a reader open
\* fails, and the request is logged with RC_USR_DOWN.
AnswerUser(o) ==
  LET u == tlv[o] IN
  /\ OpenUserFIFO(o)
  /\ officePC'[o] = IF HasReader(u) THEN "write" ELSE "userDown"
  /\ logged' = [logged EXCEPT ![u] = IF HasReader(u) THEN "reply" ELSE "RC_USR_DOWN"]
  /\ UNCHANGED <<session, userFIFOs, inbox, told>>

\* write, to a process that may have ended in between.
SendReply(o) ==
  LET u == tlv[o] IN
  /\ WriteReply(o)
  /\ alive' = HasReader(u)
  /\ inbox' = IF HasReader(u) THEN inbox \cup {u} ELSE inbox
  /\ UNCHANGED <<session, userFIFOs, told, logged>>

ServerStep ==
  /\ \/ MainStep
     \/ SpuriousMainWakeup
     \/ \E o \in Offices :
          \/ officePC[o] \notin {"reply", "write"} /\ OfficeStep(o)
          \/ SpuriousWakeup(o)
  /\ UNCHANGED sessionVars

-----------------------------------------------------------------------------
UserProcess(u) ==
  \/ MakeUserFIFO(u) \/ RejectArguments(u) \/ ConnectToServer(u)
  \/ FindServerDown(u) \/ SendRequest(u) \/ SetAlarm(u) \/ OpenOwnFIFO(u)
  \/ ReadReply(u) \/ PrintReply(u) \/ Finish(u) \/ TimeOut(u)

SystemNext ==
  \/ \E u \in Users : UserProcess(u)
  \/ ServerStep
  \/ \E o \in Offices : AnswerUser(o) \/ SendReply(o)

SystemSpec == SystemInit /\ [][SystemNext]_systemVars

\* A user process that started goes on, and an alarm goes off.
FairSystemSpec ==
  /\ SystemSpec
  /\ \A u \in Users : /\ WF_systemVars(session[u] # "start" /\ UserProcess(u))
                      /\ WF_systemVars(TimeOut(u))
-----------------------------------------------------------------------------
\* User and server do not contradict each other.  A user that printed a reply
\* is one whose office logged that reply; a user told that its arguments are
\* wrong or that the server is down is told nothing else and its request is
\* nowhere in the server.  (init, writeRequest, readReply, processRequestReply)
SidesAgree ==
  \A u \in Users :
    /\ "reply" \in told[u] => logged[u] = "reply"
    /\ \A refusal \in {"invalid", "RC_SRV_DOWN"} : refusal \in told[u] =>
         /\ told[u] = {refusal} /\ logged[u] = "none"
         /\ u \notin {Pending[k] : k \in DOMAIN Pending}
         /\ \A o \in Offices : tlv[o] # u

\* A process whose arguments were accepted ends without its FIFO, whichever of
\* reply, refused open and alarm ends it and in whatever order they come; only
\* SIGPIPE, at the write to a server that ended, keeps it from telling its user
\* and from unlinking.  One whose arguments were not accepted leaves its FIFO,
\* as init exits after mkfifo.  (main, init, alarm_handler)
OwnFIFORemoved ==
  \A u \in Users : session[u] = "ended" =>
    (u \in userFIFOs <=> told[u] \subseteq {"invalid"})

\* Of the slots of the buffer, exactly as many are lost as offices logged
\* RC_USR_DOWN and went on: one for each, and none for any other reason.
\* (consumeRequest)
LostSlots ==
  {u \in Users : logged[u] = "RC_USR_DOWN"} \ {tlv[o] : o \in At({"userDown"})}

SlotsAccounted ==
  slots + One(mainPC = "insert") + Filled + Cardinality(Serving)
    + Cardinality(LostSlots) = MAX_SAVED_REQUESTS

\* Every user that sent a request comes to an end, whether the server answers,
\* sleeps for ever, ends or is killed.  (readReply, alarm_handler)
SessionEnds == \A u \in Users : user[u] = "sent" ~> session[u] = "ended"

-----------------------------------------------------------------------------
(* What the repository says and the code does not do.                      *)

\* types.h: RC_USR_DOWN is for a reply that cannot be sent.  So a user that
\* goes away costs the server a log entry and not its life.
UserGoneIsSurvived == alive

=============================================================================
