--------------------------- MODULE RequestChannel ---------------------------
(***************************************************************************)
(* What the request path of the server promises to users and offices: one  *)
(* first-in first-out channel.  A user sends one request; an office        *)
(* receives the oldest request nobody has received.  RequestQueue          *)
(* implements it with a FIFO, the main thread and a circular buffer.       *)
(***************************************************************************)
EXTENDS Sequences

CONSTANTS Offices, Users, NoRequest

VARIABLES
  channel,  \* requests sent and not received
  held,     \* held[o]: the last request office o received
  sent      \* users whose request was sent

vars == <<channel, held, sent>>

Init ==
  /\ channel = << >>
  /\ held = [o \in Offices |-> NoRequest]
  /\ sent = {}

Send(u) ==
  /\ u \notin sent
  /\ channel' = Append(channel, u)
  /\ sent' = sent \cup {u}
  /\ UNCHANGED held

Receive(o) ==
  /\ channel # << >>
  /\ held' = [held EXCEPT ![o] = Head(channel)]
  /\ channel' = Tail(channel)
  /\ UNCHANGED sent

Next ==
  \/ \E u \in Users : Send(u)
  \/ \E o \in Offices : Receive(o)

Spec == Init /\ [][Next]_vars
=============================================================================
