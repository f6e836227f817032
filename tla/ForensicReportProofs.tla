------------------------ MODULE ForensicReportProofs ------------------------
(***************************************************************************)
(* What the forensic program reports and when it can fail: the totals that *)
(* sig_usr counts, and the descriptors that are never closed, proved for   *)
(* every tree, number of commands and way to start the program.            *)
(***************************************************************************)
EXTENDS ForensicProofs

-----------------------------------------------------------------------------
(* Signals and the steps of a process.                                     *)

\* A step of a process sends a signal only where readDirectory calls kill, and
\* neither counts nor kills.
LEMMA SignalMoves ==
  ASSUME BasicInv, TreeInv, NEW d \in Dirs, Step(d) \/ Die(d)
  PROVE  /\ UNCHANGED <<setting, handlers, numDirs, numFiles, ctrlC>>
         /\ pending \subseteq pending'
         /\ pending' # pending =>
              \/ Announce(d) /\ pc'[d] = "open" /\ pending' = pending \cup {"SIGUSR1"}
              \/ SignalFile(d) /\ pc'[d] = "log" /\ pending' = pending \cup {"SIGUSR2"}
         /\ Announce(d) /\ Alive(Root) => "SIGUSR1" \in pending'
         /\ SignalFile(d) /\ Alive(Root) => "SIGUSR2" \in pending'
         /\ pc[d] = "announce" => Announce(d) \/ Die(d)
         /\ pc[d] = "log" => LogFile(d)
         /\ pc'[d] = "log" => (SignalFile(d) /\ pos' = pos) \/ (StartFile(d) /\ ~setting.o)
         /\ ~Die(d) => sigint' = sigint /\ pc'[d] # "killed"
<1> USE DEF BasicInv, TypeOK, Goto
<1>1. CASE Announce(d) \/ SignalFile(d)
  <2>1. UNCHANGED <<setting, pos, handlers, numDirs, numFiles, ctrlC, sigint>>
    BY <1>1 DEF Announce, SignalFile, intVars, countVars
  <2>2. PICK sig \in Signals, next \in {"open", "log"} :
          /\ Notify(d, sig, next)
          /\ Announce(d) => sig = "SIGUSR1" /\ next = "open" /\ pc[d] = "announce"
          /\ SignalFile(d) => sig = "SIGUSR2" /\ next = "log" /\ pc[d] = "signal"
    <3>1. "SIGUSR1" \in Signals /\ "SIGUSR2" \in Signals
      BY DEF Signals
    <3>2. CASE Announce(d)
      <4>1. Notify(d, "SIGUSR1", "open") /\ pc[d] = "announce"
        BY <3>2 DEF Announce
      <4>2. ~SignalFile(d)
        BY <4>1 DEF SignalFile
      <4> QED BY <3>1, <4>1, <4>2
    <3>3. CASE SignalFile(d)
      <4>1. Notify(d, "SIGUSR2", "log") /\ pc[d] = "signal"
        BY <3>3 DEF SignalFile
      <4>2. ~Announce(d)
        BY <4>1 DEF Announce
      <4> QED BY <3>1, <4>1, <4>2
    <3> QED BY <1>1, <3>2, <3>3
  <2>3. \/ /\ pending' = IF Alive(Root) THEN pending \cup {sig} ELSE pending
           /\ pc'[d] = next
        \/ ~Alive(Root) /\ pc'[d] = "failed" /\ pending' = pending
    BY <2>2 DEF Notify, Exit
  <2> QED BY <1>1, <2>1, <2>2, <2>3
<1>2. CASE Open(d) \/ LoseFile(d) \/ RunCommand(d) \/ End(d)
  <2>1. UNCHANGED <<setting, handlers, numDirs, numFiles, ctrlC, sigint, pending>>
    BY <1>2 DEF Open, LoseFile, RunCommand, End, intVars, countVars
  <2>2. /\ pc[d] \in {"open", "read", "command", "exit"}
        /\ pc'[d] \in {"read", "wait", "failed", "ended"}
    BY <1>2 DEF Open, LoseFile, RunCommand, End, AtEntry, Exit
  <2>3. ~Announce(d) /\ ~SignalFile(d)
    BY <2>2 DEF Announce, SignalFile
  <2> QED BY <2>1, <2>2, <2>3
<1>3. CASE SkipDirectory(d) \/ EndOfDirectory(d) \/ WaitCommand(d) \/ ReadOutput(d) \/ PrintRecord(d)
             \/ Reap(d) \/ Finish(d)
  <2>1. UNCHANGED <<setting, handlers, numDirs, numFiles, ctrlC, sigint, pending>>
    BY <1>3 DEF SkipDirectory, EndOfDirectory, WaitCommand, ReadOutput, PrintRecord, Reap, Finish,
         intVars, countVars
  <2>2. pc[d] \in {"read", "wait", "output", "print", "join"}
    BY <1>3 DEF SkipDirectory, EndOfDirectory, WaitCommand, ReadOutput, PrintRecord, Reap, Finish,
         AtEntry
  <2>3. pc'[d] \in {"read", "join", "output", "command", "print", "exit"}
    BY <1>3 DEF SkipDirectory, EndOfDirectory, WaitCommand, ReadOutput, PrintRecord, Reap, Finish,
         AtEntry, scanVars
  <2>4. ~Announce(d) /\ ~SignalFile(d)
    BY <2>2 DEF Announce, SignalFile
  <2> QED BY <2>1, <2>2, <2>3, <2>4
<1>4. CASE StartFile(d) \/ LogFile(d)
  <2>1. UNCHANGED <<setting, handlers, numDirs, numFiles, ctrlC, sigint, pending>>
    BY <1>4 DEF StartFile, LogFile, intVars, countVars
  <2>2. /\ pc[d] \in {"read", "log"} /\ pc'[d] \in {"signal", "log", "command"}
        /\ pc[d] = "log" => LogFile(d)
        /\ pc'[d] = "log" => StartFile(d) /\ ~setting.o
    BY <1>4 DEF StartFile, LogFile, AtEntry
  <2>3. ~Announce(d) /\ ~SignalFile(d)
    BY <2>2 DEF Announce, SignalFile
  <2> QED BY <2>1, <2>2, <2>3
<1>5. CASE Fork(d)
  <2>1. UNCHANGED <<setting, handlers, numDirs, numFiles, ctrlC, sigint, pending>>
    BY <1>5 DEF Fork, intVars, countVars
  <2>2. pc[d] = "read" /\ pc'[d] = "read"
    BY <1>5, NewChild DEF Fork
  <2>3. ~Announce(d) /\ ~SignalFile(d)
    BY <2>2 DEF Announce, SignalFile
  <2> QED BY <2>1, <2>2, <2>3
<1>6. CASE Die(d)
  <2>1. UNCHANGED <<setting, handlers, numDirs, numFiles, ctrlC, pending>>
    BY <1>6 DEF Die, countVars
  <2>2. pc'[d] = "killed" /\ pc[d] # "log" /\ UNCHANGED printed /\ buffer'[d] = {}
    BY <1>6 DEF Die, SigintBlocked, Masked, Protected
  <2>3. ~Announce(d) /\ ~SignalFile(d)
    BY <2>2 DEF Announce, SignalFile, Notify, Exit
  <2> QED BY <1>6, <2>1, <2>2, <2>3
<1> QED BY <1>1, <1>2, <1>3, <1>4, <1>5, <1>6 DEF Step

\* The first process, once over, is not alive again.
LEMMA RootStaysOver ==
  ASSUME BasicInv, TreeInv, NEW d \in Dirs, Step(d) \/ Die(d), Alive(Root)'
  PROVE  Alive(Root)
<1>1. CASE d = Root
  <2>1. CASE Fork(d)
    BY <1>1, <2>1, NewChild DEF Alive, Over
  <2> QED BY <1>1, <2>1, Moves
<1>2. CASE d # Root
  <2>1. Fork(d) => Entry(d) # Root
    BY NewChild
  <2>2. pc'[Root] = pc[Root]
    BY <1>2, <2>1, Elsewhere, ForensicAssumption DEF BasicInv
  <2> QED BY <2>2 DEF Alive
<1> QED BY <1>1, <1>2

-----------------------------------------------------------------------------
(* Ctrl+C.                                                                 *)

\* Once it was pressed the first process has it before it; before that no
\* process was killed, nor will be.
IntInv ==
  /\ ctrlC /\ Alive(Root) => Root \in sigint
  /\ ~ctrlC => sigint = {} /\ \A d \in Dirs : pc[d] # "killed"

\* Every step keeps IntInv.
LEMMA IntKept == BasicInv /\ TreeInv /\ IntInv /\ [Next]_vars => IntInv'
<1> SUFFICES ASSUME BasicInv, TreeInv, IntInv, [Next]_vars
             PROVE  IntInv'
  OBVIOUS
<1>1. ASSUME NEW d \in Dirs, Step(d) \/ Die(d)
      PROVE  IntInv'
  <2>1. ctrlC' = ctrlC /\ (Alive(Root)' => Alive(Root))
    BY <1>1, SignalMoves, RootStaysOver
  <2>2. CASE Die(d)
    <3>1. d \in sigint /\ sigint' = sigint \ {d} /\ pc'[d] = "killed"
      BY <2>2 DEF Die, Goto, BasicInv, TypeOK
    <3>2. d = Root => ~Alive(Root)'
      BY <3>1 DEF Alive, Over
    <3> QED BY <2>1, <3>1, <3>2 DEF IntInv
  <2>3. CASE ~Die(d)
    <3>1. sigint' = sigint /\ pc'[d] # "killed"
      BY <1>1, <2>3, SignalMoves
    <3>2. ASSUME NEW e \in Dirs, ~ctrlC
          PROVE  pc'[e] # "killed"
      <4>1. pc[e] # "killed"
        BY <3>2 DEF IntInv
      <4>2. CASE e # d /\ ~(Fork(d) /\ e = Entry(d))
        BY <1>1, <4>1, <4>2, Elsewhere DEF BasicInv
      <4>3. CASE Fork(d) /\ e = Entry(d)
        <5>1. pc'[e] \in {"announce", "open"}
          BY <3>2, <4>3 DEF Fork, Goto, BasicInv, TypeOK
        <5> QED BY <5>1
      <4> QED BY <3>1, <4>2, <4>3
    <3> QED BY <2>1, <3>1, <3>2 DEF IntInv
  <2> QED BY <2>2, <2>3
<1>2. CASE (\E d \in Dirs : CommandEnds(d)) \/ Handle
  <2>1. UNCHANGED <<pc, sigint, ctrlC>>
    BY <1>2, SignalsElsewhere DEF CommandEnds, Handle, HandlerReturns, Deliver, intVars, scanVars
  <2> QED BY <2>1 DEF IntInv, Alive
<1>3. CASE Interrupt
  <2>1. ctrlC' = TRUE /\ sigint' = {d \in Dirs : Alive(d)} /\ pc' = pc
    BY <1>3 DEF Interrupt, scanVars
  <2> QED BY <2>1, ForensicAssumption DEF IntInv, Alive
<1>4. CASE UNCHANGED vars
  BY <1>4 DEF IntInv, Alive, vars, scanVars, intVars
<1> QED BY <1>1, <1>2, <1>3, <1>4 DEF Next

-----------------------------------------------------------------------------
(* The totals.                                                             *)

\* What is announced with a signal, the activations of sig_usr for it, and
\* whether it is pending.
Sent(sig)     == IF sig = "SIGUSR1" THEN Announced ELSE Signalled
Frames(sig)   == {k \in DOMAIN handlers : handlers[k].sig = sig}
OnTheWay(sig) == IF sig \in pending THEN 1 ELSE 0

\* The activations read their counter in the order they were started, and not
\* more than it holds; with -o every count, begun or made, and the signal that
\* waits, is for something else that was sent, and the first that is sent is
\* not lost while the first process is not interrupted.
CountInv ==
  \A sig \in Signals :
    /\ \A k \in Frames(sig) :
         /\ handlers[k].value <= Counter(sig)
         /\ \A j \in Frames(sig) : j < k => handlers[j].value <= handlers[k].value
    /\ setting.o =>
         /\ Counter(sig) + Cardinality(Frames(sig)) + OnTheWay(sig) <= Cardinality(Sent(sig))
         /\ Alive(Root) /\ ~ctrlC /\ Sent(sig) # {} =>
              Counter(sig) > 0 \/ sig \in pending \/ Frames(sig) # {}

\* The sets and numbers that CountInv compares.
LEMMA CountTypes ==
  ASSUME TypeOK, NEW sig \in Signals
  PROVE  /\ Counter(sig) \in Nat /\ OnTheWay(sig) \in {0, 1}
         /\ IsFiniteSet(Sent(sig)) /\ Cardinality(Sent(sig)) \in Nat
         /\ IsFiniteSet(Frames(sig)) /\ Cardinality(Frames(sig)) \in Nat
         /\ Len(handlers) \in Nat /\ Frames(sig) \subseteq 1 .. Len(handlers)
         /\ \A k \in Frames(sig) : handlers[k].value \in Nat
<1>1. Counter(sig) \in Nat /\ OnTheWay(sig) \in {0, 1}
  BY DEF TypeOK, Counter, OnTheWay
<1>2. IsFiniteSet(Sent(sig)) /\ Cardinality(Sent(sig)) \in Nat
  <2>1. Sent(sig) \subseteq Entries
    BY DEF Sent, Announced, Signalled, Entries
  <2> QED BY <2>1, ForensicAssumption, FS_Subset, FS_CardinalityType
<1>3. /\ handlers \in Seq(Frame) /\ Len(handlers) \in Nat /\ DOMAIN handlers = 1 .. Len(handlers)
      /\ \A k \in 1 .. Len(handlers) : handlers[k] \in Frame
  BY DEF TypeOK
<1>4. Frames(sig) \subseteq 1 .. Len(handlers)
  BY <1>3 DEF Frames
<1>5. \A k \in Frames(sig) : handlers[k].value \in Nat
  BY <1>3, <1>4 DEF Frame
<1>6. IsFiniteSet(Frames(sig))
  <2>1. IsFiniteSet(1 .. Len(handlers))
    BY <1>3, FS_Interval
  <2> QED BY <1>4, <2>1, FS_Subset
<1>7. Cardinality(Frames(sig)) \in Nat
  BY <1>6, FS_CardinalityType
<1> QED BY <1>1, <1>2, <1>3, <1>4, <1>5, <1>6, <1>7

\* With -o nothing that was sent is taken back, only what is new is signalled,
\* and it is, while the first process is there.
LEMMA SentMoves ==
  ASSUME BasicInv, TreeInv, RecordInv, IntInv, NEW d \in Dirs, Step(d) \/ Die(d),
         setting.o, NEW sig \in Signals
  PROVE  /\ Sent(sig) \subseteq Sent(sig)'
         /\ sig \in pending' /\ sig \notin pending => Sent(sig)' # Sent(sig)
         /\ Sent(sig)' # Sent(sig) /\ Alive(Root) /\ ~ctrlC => sig \in pending'
<1> USE DEF BasicInv
<1>1. sig = "SIGUSR1" \/ sig = "SIGUSR2"
  BY DEF Signals
<1>2. CASE sig = "SIGUSR1"
  <2>1. Sent(sig) = Announced /\ Sent(sig)' = Announced'
    BY <1>2 DEF Sent
  <2>2. CASE Fork(d)
    <3>1. /\ Entry(d) \in Dirs /\ pc[Entry(d)] = "none" /\ pc'[Entry(d)] = "announce"
          /\ \A e \in Dirs \ {Entry(d)} : pc'[e] = pc[e]
      BY <2>2, NewChild DEF Fork, Goto, TypeOK
    <3>2. Announced' = Announced
      BY <3>1 DEF Announced
    <3>3. pending' = pending
      BY <2>2 DEF Fork
    <3> QED BY <2>1, <3>2, <3>3
  <2>3. CASE ~Fork(d)
    <3>1. /\ pc'[d] \notin {"none", "announce"} /\ pc[d] # "none"
          /\ \A e \in Dirs \ {d} : pc'[e] = pc[e]
      BY <2>3, Moves, Elsewhere DEF Alive
    <3>2. Announced \subseteq Announced'
      BY <3>1 DEF Announced
    <3>3. Announced' # Announced <=> d # Root /\ pc[d] = "announce"
      BY <3>1 DEF Announced
    <3>4. sig \in pending' /\ sig \notin pending => pc[d] = "announce" /\ d # Root
      BY <1>2, SignalMoves DEF TreeInv, Announce
    <3>5. pc[d] = "announce" /\ Alive(Root) /\ ~ctrlC => sig \in pending'
      BY <1>2, SignalMoves DEF IntInv, Die
    <3> QED BY <2>1, <3>2, <3>3, <3>4, <3>5
  <2> QED BY <2>2, <2>3
<1>3. CASE sig = "SIGUSR2"
  <2>1. Sent(sig) = Signalled /\ Sent(sig)' = Signalled'
    BY <1>3 DEF Sent
  <2>2. ASSUME NEW f \in Signalled
        PROVE  f \in Signalled'
    <3>1. f \in Files /\ Parent[f] \in Dirs
      BY PlaceOf, ForensicAssumption DEF Signalled, Entries
    <3>2. CASE f \in logged
      BY <3>1, <3>2, RecordMoves DEF Signalled
    <3>3. CASE AtFile(f) /\ pc[Parent[f]] = "log" /\ Parent[f] = d
      <4>1. LogFile(d) /\ Entry(d) = f
        BY <3>3, SignalMoves DEF AtFile
      <4> QED BY <3>1, <4>1, RecordMoves DEF Signalled
    <3>4. CASE AtFile(f) /\ pc[Parent[f]] = "log" /\ Parent[f] # d
      <4>1. Fork(d) => Parent[f] # Entry(d)
        BY <3>4, NewChild
      <4>2. pc'[Parent[f]] = pc[Parent[f]] /\ pos'[Parent[f]] = pos[Parent[f]]
        BY <3>1, <3>4, <4>1, Elsewhere
      <4> QED BY <3>1, <3>4, <4>2 DEF Signalled, AtFile, Entry
    <3> QED BY <3>2, <3>3, <3>4 DEF Signalled
  <2>3. ASSUME NEW f \in Signalled', f \notin Signalled
        PROVE  SignalFile(d)
    <3>1. f \in Files /\ f \notin logged /\ Parent[f] \in Dirs
      BY <2>3, PlaceOf, ForensicAssumption DEF Signalled, Entries
    <3>2. f \notin logged'
      <4>1. ASSUME LogFile(d), f = Entry(d)
            PROVE  FALSE
        <5>1. pos[d] <= Len(Contents[d]) /\ pc[d] = "log"
          BY <4>1 DEF LogFile, ScanInv, Protected
        <5>2. Parent[f] = d
          BY <4>1, <5>1, EntryType
        <5> QED BY <2>3, <3>1, <4>1, <5>1, <5>2 DEF Signalled, AtFile
      <4> QED BY <3>1, <4>1, RecordMoves
    <3>3. AtFile(f)' /\ pc'[Parent[f]] = "log"
      BY <2>3, <3>2 DEF Signalled
    <3>4. ~(AtFile(f) /\ pc[Parent[f]] = "log")
      BY <2>3, <3>1 DEF Signalled
    <3>5. Fork(d) => Parent[f] # Entry(d)
      <4>1. ASSUME Fork(d), Parent[f] = Entry(d)
            PROVE  pc'[Entry(d)] # "log"
        BY <3>1, <4>1 DEF Fork, Goto, TypeOK
      <4> QED BY <3>3, <4>1
    <3>6. Parent[f] = d
      <4>1. Parent[f] # d => pc'[Parent[f]] = pc[Parent[f]] /\ pos'[Parent[f]] = pos[Parent[f]]
        BY <3>1, <3>5, Elsewhere
      <4> QED BY <3>3, <3>4, <4>1 DEF AtFile, Entry
    <3> QED BY <3>3, <3>6, SignalMoves
  <2>4. ASSUME sig \in pending', sig \notin pending
        PROVE  Signalled' # Signalled
    <3>1. SignalFile(d) /\ pc'[d] = "log" /\ pos' = pos /\ pc[d] = "signal"
      BY <1>3, <2>4, SignalMoves DEF SignalFile
    <3>2. /\ Entry(d) \in Files /\ Parent[Entry(d)] = d /\ pos[d] \in DOMAIN Contents[d]
          /\ pos[d] \in Nat /\ pos[d] <= Len(Contents[d])
      BY <3>1, EntryType DEF ScanInv, Protected
    <3>3. Entry(d) \notin logged
      BY <3>1, <3>2 DEF RecordInv, RecordAt, Entry, LoggedPlaces
    <3>4. Entry(d) \notin Signalled
      BY <3>1, <3>2, <3>3 DEF Signalled
    <3>5. Entry(d) \in Signalled'
      BY <3>1, <3>2 DEF Signalled, AtFile, Entry
    <3> QED BY <3>4, <3>5
  <2> QED BY <1>3, <2>1, <2>2, <2>3, <2>4, SignalMoves
<1> QED BY <1>1, <1>2, <1>3

\* Every step of a process keeps CountInv.
LEMMA CountKeptByProcess ==
  ASSUME BasicInv, TreeInv, RecordInv, IntInv, CountInv, NEW d \in Dirs, Step(d) \/ Die(d)
  PROVE  CountInv'
<1>1. UNCHANGED <<setting, handlers, numDirs, numFiles, ctrlC>> /\ pending \subseteq pending'
      /\ (Alive(Root)' => Alive(Root))
  BY SignalMoves, RootStaysOver
<1> SUFFICES ASSUME NEW sig \in Signals
             PROVE  /\ \A k \in Frames(sig)' :
                         /\ handlers'[k].value <= Counter(sig)'
                         /\ \A j \in Frames(sig)' : j < k => handlers'[j].value <= handlers'[k].value
                    /\ setting'.o =>
                         /\ Counter(sig)' + Cardinality(Frames(sig)') + OnTheWay(sig)'
                              <= Cardinality(Sent(sig)')
                         /\ Alive(Root)' /\ ~ctrlC' /\ Sent(sig)' # {} =>
                              Counter(sig)' > 0 \/ sig \in pending' \/ Frames(sig)' # {}
  BY DEF CountInv
<1>2. Frames(sig)' = Frames(sig) /\ Counter(sig)' = Counter(sig)
  BY <1>1 DEF Frames, Counter
<1>3. ASSUME setting.o
      PROVE  /\ Counter(sig) + Cardinality(Frames(sig)) + OnTheWay(sig)' <= Cardinality(Sent(sig)')
             /\ Alive(Root) /\ ~ctrlC /\ Sent(sig)' # {} =>
                  Counter(sig) > 0 \/ sig \in pending' \/ Frames(sig) # {}
  <2>1. /\ Sent(sig) \subseteq Sent(sig)'
        /\ sig \in pending' /\ sig \notin pending => Sent(sig)' # Sent(sig)
        /\ Sent(sig)' # Sent(sig) /\ Alive(Root) /\ ~ctrlC => sig \in pending'
    BY <1>3, SentMoves
  <2>2. /\ Counter(sig) + Cardinality(Frames(sig)) + OnTheWay(sig) <= Cardinality(Sent(sig))
        /\ Alive(Root) /\ ~ctrlC /\ Sent(sig) # {} =>
             Counter(sig) > 0 \/ sig \in pending \/ Frames(sig) # {}
    BY <1>3 DEF CountInv
  <2>3. TypeOK /\ TypeOK'
    BY StepTypes, SignalTypes DEF BasicInv
  <2>4. /\ IsFiniteSet(Sent(sig)') /\ Cardinality(Sent(sig)') \in Nat
        /\ IsFiniteSet(Sent(sig)) /\ Cardinality(Sent(sig)) \in Nat
        /\ Counter(sig) \in Nat /\ Cardinality(Frames(sig)) \in Nat /\ OnTheWay(sig) \in {0, 1}
    <3>1. Sent(sig)' \subseteq Entries
      BY <2>3 DEF Sent, Announced, Signalled, Entries
    <3> QED BY <2>3, <3>1, CountTypes, ForensicAssumption, FS_Subset, FS_CardinalityType
  <2>5. /\ Cardinality(Sent(sig)) <= Cardinality(Sent(sig)')
        /\ Sent(sig)' # Sent(sig) => Cardinality(Sent(sig)) + 1 <= Cardinality(Sent(sig)')
    <3>1. /\ Cardinality(Sent(sig)) <= Cardinality(Sent(sig)')
          /\ Cardinality(Sent(sig)) = Cardinality(Sent(sig)') => Sent(sig) = Sent(sig)'
      BY <2>1, <2>4, FS_Subset
    <3> QED BY <2>4, <3>1
  <2>6. /\ sig \in pending' /\ sig \notin pending => OnTheWay(sig)' = OnTheWay(sig) + 1
        /\ ~(sig \in pending' /\ sig \notin pending) => OnTheWay(sig)' = OnTheWay(sig)
    BY <1>1 DEF OnTheWay
  <2>7. Counter(sig) + Cardinality(Frames(sig)) + OnTheWay(sig)' <= Cardinality(Sent(sig)')
    BY <2>1, <2>2, <2>4, <2>5, <2>6
  <2> QED BY <1>1, <2>1, <2>2, <2>7
<1>4. /\ \A k \in Frames(sig) :
           /\ handlers[k].value <= Counter(sig)
           /\ \A j \in Frames(sig) : j < k => handlers[j].value <= handlers[k].value
  BY DEF CountInv
<1> QED BY <1>1, <1>2, <1>3, <1>4

\* An activation of sig_usr begins: it takes the place of the pending signal.
LEMMA CountKeptByDelivery ==
  ASSUME TypeOK, CountInv, NEW s \in Signals, Deliver(s)
  PROVE  CountInv'
<1>1. /\ s \in pending /\ pending' = pending \ {s}
      /\ handlers' = Append(handlers, [sig |-> s, value |-> Counter(s)])
      /\ UNCHANGED <<setting, pc, pos, logged, ctrlC, numDirs, numFiles>>
  BY DEF Deliver, scanVars, recordVars, intVars
<1>2. /\ handlers \in Seq(Frame) /\ Len(handlers) \in Nat /\ DOMAIN handlers = 1 .. Len(handlers)
      /\ [sig |-> s, value |-> Counter(s)] \in Frame
  BY CountTypes DEF TypeOK, Frame
<1>3. /\ DOMAIN handlers' = 1 .. Len(handlers) + 1
      /\ \A k \in 1 .. Len(handlers) : handlers'[k] = handlers[k]
      /\ handlers'[Len(handlers) + 1] = [sig |-> s, value |-> Counter(s)]
  BY <1>1, <1>2
<1> SUFFICES ASSUME NEW sig \in Signals
             PROVE  /\ \A k \in Frames(sig)' :
                         /\ handlers'[k].value <= Counter(sig)'
                         /\ \A j \in Frames(sig)' : j < k => handlers'[j].value <= handlers'[k].value
                    /\ setting'.o =>
                         /\ Counter(sig)' + Cardinality(Frames(sig)') + OnTheWay(sig)'
                              <= Cardinality(Sent(sig)')
                         /\ Alive(Root)' /\ ~ctrlC' /\ Sent(sig)' # {} =>
                              Counter(sig)' > 0 \/ sig \in pending' \/ Frames(sig)' # {}
  BY DEF CountInv
<1>4. /\ Counter(sig)' = Counter(sig) /\ Sent(sig)' = Sent(sig) /\ (Alive(Root)' <=> Alive(Root))
      /\ setting' = setting /\ ctrlC' = ctrlC
  BY <1>1 DEF Counter, Sent, Announced, Signalled, AtFile, Entry, Alive
<1>5. /\ Counter(sig) \in Nat /\ OnTheWay(sig) \in {0, 1} /\ IsFiniteSet(Frames(sig))
      /\ Cardinality(Frames(sig)) \in Nat /\ Cardinality(Sent(sig)) \in Nat
      /\ Frames(sig) \subseteq 1 .. Len(handlers) /\ \A k \in Frames(sig) : handlers[k].value \in Nat
  BY CountTypes
<1>6. /\ \A k \in Frames(sig) :
           /\ handlers[k].value <= Counter(sig)
           /\ \A j \in Frames(sig) : j < k => handlers[j].value <= handlers[k].value
      /\ setting.o =>
           /\ Counter(sig) + Cardinality(Frames(sig)) + OnTheWay(sig) <= Cardinality(Sent(sig))
           /\ Alive(Root) /\ ~ctrlC /\ Sent(sig) # {} =>
                Counter(sig) > 0 \/ sig \in pending \/ Frames(sig) # {}
  BY DEF CountInv
<1>7. CASE sig = s
  <2>1. Frames(sig)' = Frames(sig) \cup {Len(handlers) + 1} /\ Len(handlers) + 1 \notin Frames(sig)
    <3>1. Len(handlers) + 1 \notin 1 .. Len(handlers)
          /\ 1 .. Len(handlers) + 1 = 1 .. Len(handlers) \cup {Len(handlers) + 1}
      BY <1>2
    <3> QED BY <1>2, <1>3, <1>5, <1>7, <3>1 DEF Frames
  <2>2. Cardinality(Frames(sig)') = Cardinality(Frames(sig)) + 1
    BY <1>5, <2>1, FS_AddElement
  <2>3. OnTheWay(sig) = 1 /\ OnTheWay(sig)' = 0
    BY <1>1, <1>7 DEF OnTheWay
  <2>4. handlers'[Len(handlers) + 1].value = Counter(sig)
    BY <1>3, <1>7
  <2>5. ASSUME NEW k \in Frames(sig)'
        PROVE  /\ handlers'[k].value <= Counter(sig)
               /\ \A j \in Frames(sig)' : j < k => handlers'[j].value <= handlers'[k].value
    <3>1. CASE k \in Frames(sig)
      <4>1. k \in Nat /\ k <= Len(handlers) /\ handlers'[k] = handlers[k]
        BY <1>2, <1>3, <1>5, <3>1
      <4>2. \A j \in Frames(sig)' : j < k => j \in Frames(sig) /\ handlers'[j] = handlers[j]
        BY <1>2, <1>3, <1>5, <2>1, <4>1
      <4> QED BY <1>6, <3>1, <4>1, <4>2
    <3>2. CASE k = Len(handlers) + 1
      <4>1. \A j \in Frames(sig)' : j < k => j \in Frames(sig) /\ handlers'[j] = handlers[j]
        BY <1>2, <1>3, <1>5, <2>1, <3>2
      <4> QED BY <1>5, <1>6, <2>4, <3>2, <4>1
    <3> QED BY <2>1, <2>5, <3>1, <3>2
  <2> QED BY <1>4, <1>5, <1>6, <2>1, <2>2, <2>3, <2>5
<1>8. CASE sig # s
  <2>1. Frames(sig)' = Frames(sig)
    <3>1. 1 .. Len(handlers) + 1 = 1 .. Len(handlers) \cup {Len(handlers) + 1}
      BY <1>2
    <3> QED BY <1>2, <1>3, <1>8, <3>1 DEF Frames
  <2>2. OnTheWay(sig)' = OnTheWay(sig) /\ (sig \in pending' <=> sig \in pending)
    BY <1>1, <1>8 DEF OnTheWay
  <2>3. \A k \in Frames(sig) : handlers'[k] = handlers[k]
    BY <1>3, <1>5
  <2> QED BY <1>4, <1>6, <2>1, <2>2, <2>3
<1> QED BY <1>7, <1>8

\* An activation of sig_usr writes what it read plus one back, over what the
\* activations that interrupted it wrote.
LEMMA CountKeptByReturn ==
  ASSUME TypeOK, CountInv, HandlerReturns
  PROVE  CountInv'
<1> DEFINE n == Len(handlers)
           s == Last(handlers).sig
           v == Last(handlers).value
<1>1. /\ handlers # << >> /\ Count(s, v) /\ handlers' = Front(handlers)
      /\ UNCHANGED <<setting, pc, pos, logged, ctrlC, pending>>
  BY DEF HandlerReturns, scanVars, recordVars, intVars
<1>2. handlers \in Seq(Frame) /\ n \in Nat /\ n # 0 /\ DOMAIN handlers = 1 .. n
  BY <1>1 DEF TypeOK
<1>3. Last(handlers) = handlers[n] /\ handlers[n] \in Frame
  BY <1>2 DEF Last
<1>4. s \in Signals /\ v \in Nat
  BY <1>3 DEF Frame
<1>5. DOMAIN handlers' = 1 .. n - 1 /\ \A k \in 1 .. n - 1 : handlers'[k] = handlers[k]
  BY <1>1, <1>2 DEF Front
<1>6. 1 .. n = 1 .. n - 1 \cup {n} /\ n \notin 1 .. n - 1
  BY <1>2
<1> SUFFICES ASSUME NEW sig \in Signals
             PROVE  /\ \A k \in Frames(sig)' :
                         /\ handlers'[k].value <= Counter(sig)'
                         /\ \A j \in Frames(sig)' : j < k => handlers'[j].value <= handlers'[k].value
                    /\ setting'.o =>
                         /\ Counter(sig)' + Cardinality(Frames(sig)') + OnTheWay(sig)'
                              <= Cardinality(Sent(sig)')
                         /\ Alive(Root)' /\ ~ctrlC' /\ Sent(sig)' # {} =>
                              Counter(sig)' > 0 \/ sig \in pending' \/ Frames(sig)' # {}
  BY DEF CountInv
<1> HIDE DEF n, s, v
<1>7. /\ Sent(sig)' = Sent(sig) /\ (Alive(Root)' <=> Alive(Root)) /\ setting' = setting
      /\ ctrlC' = ctrlC /\ pending' = pending /\ OnTheWay(sig)' = OnTheWay(sig)
  BY <1>1 DEF Sent, Announced, Signalled, AtFile, Entry, Alive, OnTheWay
<1>8. /\ Counter(sig) \in Nat /\ OnTheWay(sig) \in {0, 1} /\ IsFiniteSet(Frames(sig))
      /\ Cardinality(Frames(sig)) \in Nat /\ Cardinality(Sent(sig)) \in Nat
      /\ Frames(sig) \subseteq 1 .. n /\ \A k \in Frames(sig) : handlers[k].value \in Nat
  BY CountTypes DEF n
<1>9. /\ \A k \in Frames(sig) :
           /\ handlers[k].value <= Counter(sig)
           /\ \A j \in Frames(sig) : j < k => handlers[j].value <= handlers[k].value
      /\ setting.o =>
           /\ Counter(sig) + Cardinality(Frames(sig)) + OnTheWay(sig) <= Cardinality(Sent(sig))
           /\ Alive(Root) /\ ~ctrlC /\ Sent(sig) # {} =>
                Counter(sig) > 0 \/ sig \in pending \/ Frames(sig) # {}
  BY DEF CountInv
<1>10. CASE sig = s
  <2>1. Counter(sig)' = v + 1
    BY <1>1, <1>4, <1>10 DEF Count, Counter, Signals
  <2>2. n \in Frames(sig) /\ handlers[n].value = v
    BY <1>2, <1>3, <1>6, <1>10 DEF Frames, s, v
  <2>3. Frames(sig)' = Frames(sig) \ {n}
    BY <1>2, <1>5, <1>6 DEF Frames
  <2>4. Cardinality(Frames(sig)') = Cardinality(Frames(sig)) - 1
    BY <1>8, <2>2, <2>3, FS_RemoveElement
  <2>5. \A k \in Frames(sig)' : k \in Frames(sig) /\ handlers'[k] = handlers[k] /\ k \in Nat /\ k < n
    BY <1>2, <1>5, <1>6, <1>8, <2>3
  <2>6. \A k \in Frames(sig)' : handlers'[k].value <= v
    BY <1>9, <2>2, <2>5
  <2>7. \A k \in Frames(sig)' :
          /\ handlers'[k].value <= Counter(sig)'
          /\ \A j \in Frames(sig)' : j < k => handlers'[j].value <= handlers'[k].value
    BY <1>4, <1>8, <1>9, <2>1, <2>5, <2>6
  <2>8. v <= Counter(sig)
    BY <1>9, <2>2
  <2>9. setting.o => Counter(sig)' + Cardinality(Frames(sig)') + OnTheWay(sig) <= Cardinality(Sent(sig))
    BY <1>4, <1>8, <1>9, <2>1, <2>4, <2>8
  <2> QED BY <1>4, <1>7, <2>1, <2>7, <2>9
<1>11. CASE sig # s
  <2>1. Counter(sig)' = Counter(sig)
    BY <1>1, <1>4, <1>11 DEF Count, Counter, Signals
  <2>2. n \notin Frames(sig)
    BY <1>3, <1>11 DEF Frames, s
  <2>3. Frames(sig)' = Frames(sig) /\ \A k \in Frames(sig) : handlers'[k] = handlers[k]
    BY <1>2, <1>5, <1>6, <2>2 DEF Frames
  <2> QED BY <1>7, <1>9, <2>1, <2>3
<1> QED BY <1>10, <1>11

\* What holds of every behaviour.
ReportInv == BasicInv /\ TreeInv /\ RecordInv /\ IntInv /\ CountInv

\* So it holds always.
LEMMA ReportInvHolds == Spec => []ReportInv
<1>1. Init => IntInv /\ CountInv
  <2> SUFFICES ASSUME Init
               PROVE  IntInv /\ CountInv
    OBVIOUS
  <2>1. IntInv
    BY DEF Init, IntInv
  <2>2. ASSUME NEW sig \in Signals
        PROVE  /\ Frames(sig) = {} /\ Counter(sig) = 0 /\ OnTheWay(sig) = 0 /\ Sent(sig) = {}
    <3>1. Frames(sig) = {} /\ Counter(sig) = 0 /\ OnTheWay(sig) = 0
      BY DEF Init, Frames, Counter, OnTheWay
    <3>2. Announced = {} /\ Signalled = {}
      <4>1. \A f \in Files : Parent[f] \in Dirs
        BY PlaceOf, ForensicAssumption DEF Entries
      <4> QED BY <4>1 DEF Init, Announced, Signalled
    <3> QED BY <3>1, <3>2 DEF Sent
  <2>3. Cardinality({}) = 0
    BY FS_EmptySet
  <2>4. CountInv
    BY <2>2, <2>3 DEF CountInv
  <2> QED BY <2>1, <2>4
<1>2. ReportInv /\ [Next]_vars => CountInv'
  <2> SUFFICES ASSUME ReportInv, [Next]_vars
               PROVE  CountInv'
    OBVIOUS
  <2> USE DEF ReportInv
  <2>1. CASE \E d \in Dirs : Step(d) \/ Die(d)
    BY <2>1, CountKeptByProcess
  <2>2. CASE Handle
    BY <2>2, CountKeptByDelivery, CountKeptByReturn DEF Handle, BasicInv
  <2>3. CASE \/ (\E d \in Dirs : CommandEnds(d)) \/ Interrupt
             \/ UNCHANGED vars
    <3>1. /\ UNCHANGED <<setting, pc, pos, logged, pending, handlers, numDirs, numFiles>>
          /\ ctrlC => ctrlC'
      BY <2>3 DEF CommandEnds, Interrupt, vars, scanVars, recordVars, intVars, countVars
    <3> QED BY <3>1 DEF CountInv, Frames, Counter, OnTheWay, Sent, Announced, Signalled, AtFile, Entry,
               Alive
  <2> QED BY <2>1, <2>2, <2>3 DEF Next
<1>3. ReportInv /\ [Next]_vars => RecordInv'
  <2> SUFFICES ASSUME ReportInv, [Next]_vars
               PROVE  RecordInv'
    OBVIOUS
  <2>1. CASE \E d \in Dirs : Step(d) \/ Die(d)
    BY <2>1, RecordsKept DEF ReportInv
  <2>2. CASE (\E d \in Dirs : CommandEnds(d)) \/ Handle \/ Interrupt \/ UNCHANGED vars
    <3>1. UNCHANGED <<setting, pc, pos, buffer, printed, logged>>
      BY <2>2, SignalsElsewhere DEF vars, scanVars, recordVars
    <3> QED BY <3>1 DEF ReportInv, RecordInv, RecordAt, Entry, Alive
  <2> QED BY <2>1, <2>2 DEF Next
<1> QED BY <1>1, <1>2, <1>3, RecordHolds, IntKept, BasicKept, PTL DEF Spec, ReportInv

\* However signals merge and activations of sig_usr interrupt each other, the
\* totals that main prints never exceed what was signalled, and are not zero
\* when anything was.
THEOREM ReportStaysBounded == Spec => ReportBounded
<1>1. ReportInv /\ [Next]_vars =>
        [report' # report => /\ Bounded(report'.dirs, Announced)
                             /\ Bounded(report'.files, Signalled)]_vars
  <2> SUFFICES ASSUME ReportInv, Next, report' # report
               PROVE  /\ Bounded(report'.dirs, Announced)
                      /\ Bounded(report'.files, Signalled)
    OBVIOUS
  <2> USE DEF ReportInv
  <2>1. PICK d \in Dirs : Finish(d)
    <3>1. PICK d \in Dirs : Step(d) \/ Die(d)
      BY SignalsElsewhere DEF Next
    <3>2. Finish(d)
      BY <3>1 DEF Step, Announce, Open, SkipDirectory, Fork, StartFile, LoseFile, SignalFile, LogFile,
         EndOfDirectory, RunCommand, WaitCommand, ReadOutput, PrintRecord, Reap, End, Die
    <3> QED BY <3>2
  <2>2. d = Root /\ setting.o /\ report' = [dirs |-> numDirs, files |-> numFiles]
        /\ pc[Root] = "join" /\ Runs(Root)
    BY <2>1 DEF Finish
  <2>3. pending = {} /\ handlers = << >> /\ Alive(Root) /\ ~ctrlC
    <3>1. pending = {} /\ handlers = << >> /\ Alive(Root)
      BY <2>2 DEF Runs
    <3>2. ~SigintBlocked(Root)
      BY <2>2, <3>1 DEF SigintBlocked, Masked, Protected
    <3> QED BY <2>2, <3>1, <3>2 DEF Runs, IntInv
  <2>4. ASSUME NEW sig \in Signals
        PROVE  Bounded(Counter(sig), Sent(sig))
    <3>1. Frames(sig) = {} /\ OnTheWay(sig) = 0 /\ Cardinality({}) = 0
      BY <2>3, FS_EmptySet DEF Frames, OnTheWay
    <3>2. Counter(sig) \in Nat /\ Cardinality(Sent(sig)) \in Nat
      BY CountTypes DEF BasicInv
    <3>3. /\ Counter(sig) + Cardinality(Frames(sig)) + OnTheWay(sig) <= Cardinality(Sent(sig))
          /\ Sent(sig) # {} => Counter(sig) > 0 \/ sig \in pending \/ Frames(sig) # {}
      BY <2>2, <2>3 DEF CountInv
    <3> QED BY <2>3, <3>1, <3>2, <3>3 DEF Bounded
  <2>5. Bounded(numDirs, Announced) /\ Bounded(numFiles, Signalled)
    BY <2>4 DEF Counter, Sent, Signals
  <2> QED BY <2>2, <2>5
<1> QED BY <1>1, ReportInvHolds, PTL DEF Spec, ReportBounded

-----------------------------------------------------------------------------
(* Descriptors.                                                            *)

\* How many of the first n entries are files.
LEMMA FilesInIs ==
  ASSUME NEW d \in Dirs, NEW n \in Nat
  PROVE  /\ FilesIn(d, n) \in Nat /\ FilesIn(d, 0) = 0
         /\ FilesIn(d, n + 1) = FilesIn(d, n) + (IF Contents[d][n + 1] \in Files THEN 1 ELSE 0)
         /\ \A m \in 0 .. n : FilesIn(d, m) <= FilesIn(d, n)
<1> DEFINE At(m) == {i \in 1 .. m : Contents[d][i] \in Files}
<1>1. ASSUME NEW m \in Nat
      PROVE  IsFiniteSet(At(m)) /\ Cardinality(At(m)) \in Nat /\ FilesIn(d, m) = Cardinality(At(m))
  <2>1. At(m) \subseteq 1 .. m
    OBVIOUS
  <2>2. IsFiniteSet(At(m))
    <3>1. IsFiniteSet(1 .. m)
      BY FS_Interval
    <3> QED BY <2>1, <3>1, FS_Subset
  <2> QED BY <2>2, FS_CardinalityType DEF FilesIn
<1>2. FilesIn(d, 0) = 0
  <2>1. At(0) = {}
    OBVIOUS
  <2> QED BY <1>1, <2>1, FS_EmptySet
<1>3. FilesIn(d, n + 1) = FilesIn(d, n) + (IF Contents[d][n + 1] \in Files THEN 1 ELSE 0)
  <2>1. 1 .. n + 1 = 1 .. n \cup {n + 1} /\ n + 1 \notin 1 .. n /\ n + 1 \in Nat
    OBVIOUS
  <2>2. CASE Contents[d][n + 1] \in Files
    <3>1. At(n + 1) = At(n) \cup {n + 1} /\ n + 1 \notin At(n)
      BY <2>1, <2>2
    <3> HIDE DEF At
    <3>2. Cardinality(At(n + 1)) = Cardinality(At(n)) + 1
      BY <1>1, <3>1, FS_AddElement
    <3> QED BY <1>1, <2>1, <2>2, <3>2
  <2>3. CASE Contents[d][n + 1] \notin Files
    <3>1. At(n + 1) = At(n)
      BY <2>1, <2>3
    <3> HIDE DEF At
    <3> QED BY <1>1, <2>1, <2>3, <3>1
  <2> QED BY <2>2, <2>3
<1>4. ASSUME NEW m \in 0 .. n
      PROVE  FilesIn(d, m) <= FilesIn(d, n)
  <2>1. At(m) \subseteq At(n) /\ m \in Nat
    <3>1. m \in Nat /\ 1 .. m \subseteq 1 .. n
      OBVIOUS
    <3> QED BY <3>1
  <2> HIDE DEF At
  <2> QED BY <1>1, <2>1, FS_Subset
<1> QED BY <1>1, <1>2, <1>3, <1>4

\* A directory is not above the one it is in.
LEMMA AboveIsAcyclic ==
  ASSUME NEW d \in Dirs \ {Root}
  PROVE  d \notin Above[Parent[d]]
<1>1. PICK depth \in [Dirs -> 0 .. Cardinality(Dirs)] :
        \A c \in Dirs : \A e \in Range(Contents[c]) \cap Dirs : depth[c] < depth[e]
  BY ForensicAssumption
<1>2. \A c \in Dirs : depth[c] \in Nat
  <2>1. Cardinality(Dirs) \in Nat
    BY ForensicAssumption, FS_Subset, FS_CardinalityType DEF Entries
  <2> QED BY <1>1, <2>1
<1>3. \A c \in Dirs \ {Root} : Parent[c] \in Dirs /\ depth[Parent[c]] < depth[c]
  BY <1>1, PlaceOf DEF Entries, Range
<1> DEFINE S == {c \in Dirs : \A a \in Above[c] : a \in Dirs /\ depth[a] <= depth[c]}
<1>4. Root \in S
  BY <1>2, AboveIs, ForensicAssumption
<1>5. ASSUME NEW c \in Dirs \ {Root}, Parent[c] \in S
      PROVE  c \in S
  BY <1>2, <1>3, <1>5, AboveIs
<1>6. Parent[d] \in S
  BY <1>3, <1>4, <1>5, TreeInduction
<1>7. depth[Parent[d]] < depth[d] /\ Parent[d] \in Dirs
  BY <1>3
<1> QED BY <1>2, <1>6, <1>7

\* The place of a directory in the one that it is in.
PlaceIn(d) == CHOOSE i \in DOMAIN Contents[Parent[d]] : Contents[Parent[d]][i] = d

\* What Inherited is: the recursion has a solution, one descriptor for each
\* directory above and one for each command run before.
LEMMA InheritedIs ==
  /\ Inherited[Root] = 0
  /\ \A d \in Dirs : Inherited[d] \in Nat
  /\ \A d \in Dirs \ {Root} :
       Inherited[d] = Inherited[Parent[d]] + 1 + Commands * FilesIn(Parent[d], PlaceIn(d))
<1> DEFINE Weight(d) == 1 + Commands * FilesIn(Parent[d], PlaceIn(d))
           Marks(d)  == {m \in Dirs \X Nat : m[1] \in Above[d] \ {Root} /\ m[2] \in 1 .. Weight(m[1])}
           F == [d \in Dirs |-> Cardinality(Marks(d))]
<1>1. ASSUME NEW d \in Dirs \ {Root}
      PROVE  /\ Parent[d] \in Dirs /\ PlaceIn(d) \in Nat /\ Weight(d) \in Nat
             /\ Commands * FilesIn(Parent[d], PlaceIn(d)) \in Nat
  <2>1. Parent[d] \in Dirs /\ \E i \in DOMAIN Contents[Parent[d]] : Contents[Parent[d]][i] = d
    BY PlaceOf DEF Entries
  <2>2. PlaceIn(d) \in DOMAIN Contents[Parent[d]]
    BY <2>1 DEF PlaceIn
  <2>3. PlaceIn(d) \in Nat
    BY <2>1, <2>2, ParentOf
  <2>4. FilesIn(Parent[d], PlaceIn(d)) \in Nat /\ Commands \in Nat
    <3>1. Commands \in Nat
      BY ForensicAssumption
    <3> QED BY <2>1, <2>3, <3>1, FilesInIs
  <2>5. Commands * FilesIn(Parent[d], PlaceIn(d)) \in Nat
    BY <2>4
  <2> QED BY <2>1, <2>3, <2>5
<1> HIDE DEF Weight
<1>2. Marks(Root) = {}
  BY AboveIs
<1>3. ASSUME NEW d \in Dirs \ {Root}
      PROVE  /\ Marks(d) = Marks(Parent[d]) \cup ({d} \X (1 .. Weight(d)))
             /\ Marks(Parent[d]) \cap ({d} \X (1 .. Weight(d))) = {}
  <2>1. Above[d] = {d} \cup Above[Parent[d]] /\ d \notin Above[Parent[d]] /\ Weight(d) \in Nat
    BY <1>1, AboveIs, AboveIsAcyclic
  <2>2. 1 .. Weight(d) \subseteq Nat
    BY <2>1
  <2> QED BY <2>1, <2>2
<1> HIDE DEF Marks
<1>4. ASSUME NEW d \in Dirs \ {Root}
      PROVE  /\ IsFiniteSet({d} \X (1 .. Weight(d)))
             /\ Cardinality({d} \X (1 .. Weight(d))) = Weight(d)
  <2>1. IsFiniteSet(1 .. Weight(d)) /\ Cardinality(1 .. Weight(d)) = Weight(d)
    BY <1>1, FS_Interval
  <2>2. IsFiniteSet({d}) /\ Cardinality({d}) = 1
    BY FS_Singleton
  <2>3. /\ IsFiniteSet({d} \X (1 .. Weight(d)))
        /\ Cardinality({d} \X (1 .. Weight(d))) = 1 * Weight(d)
    BY <2>1, <2>2, FS_Product
  <2> QED BY <1>1, <2>3
<1>5. \A d \in Dirs : IsFiniteSet(Marks(d)) /\ Cardinality(Marks(d)) \in Nat
  <2> DEFINE S == {d \in Dirs : IsFiniteSet(Marks(d))}
  <2>1. Root \in S
    BY <1>2, FS_EmptySet, ForensicAssumption
  <2>2. ASSUME NEW d \in Dirs \ {Root}, Parent[d] \in S
        PROVE  d \in S
    <3>1. IsFiniteSet(Marks(Parent[d])) /\ IsFiniteSet({d} \X (1 .. Weight(d)))
      BY <1>4, <2>2
    <3>2. IsFiniteSet(Marks(Parent[d]) \cup ({d} \X (1 .. Weight(d))))
      BY <3>1, FS_Union
    <3> QED BY <1>3, <3>2
  <2>3. Dirs \subseteq S
    BY <2>1, <2>2, TreeInduction
  <2> QED BY <2>3, FS_CardinalityType
<1>6. ASSUME NEW d \in Dirs \ {Root}
      PROVE  Cardinality(Marks(d)) = Cardinality(Marks(Parent[d])) + Weight(d)
  <2>1. /\ IsFiniteSet(Marks(Parent[d])) /\ Cardinality(Marks(Parent[d])) \in Nat
        /\ Weight(d) \in Nat
    BY <1>1, <1>5
  <2> DEFINE Own == {d} \X (1 .. Weight(d))
  <2>2. /\ Marks(d) = Marks(Parent[d]) \cup Own /\ Marks(Parent[d]) \cap Own = {}
        /\ IsFiniteSet(Own) /\ Cardinality(Own) = Weight(d)
    BY <1>3, <1>4
  <2> HIDE DEF Own
  <2>3. Cardinality(Marks(d))
          = Cardinality(Marks(Parent[d])) + Cardinality(Own) - Cardinality(Marks(Parent[d]) \cap Own)
    BY <2>1, <2>2, FS_Union
  <2>4. Cardinality(Marks(Parent[d]) \cap Own) = 0
    BY <2>2, FS_EmptySet
  <2> QED BY <2>1, <2>2, <2>3, <2>4
<1>7. F = [d \in Dirs |-> IF d = Root THEN 0
                          ELSE LET p == Parent[d]
                                   n == CHOOSE i \in DOMAIN Contents[p] : Contents[p][i] = d
                               IN  F[p] + 1 + Commands * FilesIn(p, n)]
  <2>1. F[Root] = 0 /\ Root \in Dirs
    BY <1>2, FS_EmptySet, ForensicAssumption
  <2>2. ASSUME NEW d \in Dirs \ {Root}
        PROVE  F[d] = F[Parent[d]] + 1 + Commands * FilesIn(Parent[d], PlaceIn(d))
    <3>1. /\ Parent[d] \in Dirs /\ F[d] = F[Parent[d]] + Weight(d) /\ F[Parent[d]] \in Nat
      BY <1>1, <1>5, <1>6
    <3>2. Weight(d) = 1 + Commands * FilesIn(Parent[d], PlaceIn(d)) /\ Weight(d) \in Nat
          /\ Commands * FilesIn(Parent[d], PlaceIn(d)) \in Nat
      BY <1>1 DEF Weight
    <3> HIDE DEF F
    <3> QED BY <3>1, <3>2
  <2>3. \A d \in Dirs : F[d] = IF d = Root THEN 0
                               ELSE F[Parent[d]] + 1 + Commands * FilesIn(Parent[d], PlaceIn(d))
    BY <2>1, <2>2
  <2> QED BY <2>3 DEF PlaceIn
<1>8. \A d \in Dirs : F[d] \in Nat
  BY <1>5
<1> HIDE DEF F
<1>9. Inherited = [d \in Dirs |-> IF d = Root THEN 0
                                  ELSE LET p == Parent[d]
                                           n == CHOOSE i \in DOMAIN Contents[p] : Contents[p][i] = d
                                       IN  Inherited[p] + 1 + Commands * FilesIn(p, n)]
  BY <1>7 DEF Inherited
<1>10. Inherited[Root] = 0
  BY <1>9, ForensicAssumption
<1>11. \A d \in Dirs \ {Root} :
         Inherited[d] = Inherited[Parent[d]] + 1 + Commands * FilesIn(Parent[d], PlaceIn(d))
  BY <1>9 DEF PlaceIn
<1>12. \A d \in Dirs : Inherited[d] \in Nat
  <2> DEFINE S == {d \in Dirs : Inherited[d] \in Nat}
  <2>1. Root \in S
    BY <1>10, ForensicAssumption
  <2>2. ASSUME NEW d \in Dirs \ {Root}, Parent[d] \in S
        PROVE  d \in S
    <3>1. Inherited[Parent[d]] \in Nat /\ Weight(d) \in Nat
      BY <1>1, <2>2
    <3> QED BY <1>1, <1>11, <3>1
  <2> QED BY <2>1, <2>2, TreeInduction
<1> QED BY <1>10, <1>11, <1>12

\* The descriptors that a process may have open when it has passed n entries.
Upto(d, n) == Inherited[d] + 1 + Commands * FilesIn(d, n)

\* It grows by one for each command of a file; a directory that is forked for
\* finds in Inherited just what its parent may have open there.
LEMMA UptoIs ==
  ASSUME NEW d \in Dirs, NEW n \in Nat, n < Len(Contents[d])
  PROVE  /\ Upto(d, n) \in Nat /\ Upto(d, n + 1) \in Nat /\ Upto(d, 0) = Inherited[d] + 1
         /\ Upto(d, n) <= Upto(d, n + 1)
         /\ Upto(d, n + 1) <= Upto(d, Len(Contents[d])) /\ Upto(d, Len(Contents[d])) \in Nat
         /\ Upto(d, 0) <= Upto(d, Len(Contents[d]))
         /\ Contents[d][n + 1] \in Files => Upto(d, n + 1) = Upto(d, n) + Commands
         /\ Contents[d][n + 1] \in Dirs => Inherited[Contents[d][n + 1]] = Upto(d, n + 1)
<1>1. /\ Contents[d] \in Seq(Entries \ {Root}) /\ Commands \in Nat /\ Inherited[d] \in Nat
  BY InheritedIs, ForensicAssumption
<1>2. Len(Contents[d]) \in Nat /\ n + 1 \in DOMAIN Contents[d] /\ n + 1 \in Nat
      /\ n + 1 \in 0 .. Len(Contents[d]) /\ 0 \in 0 .. Len(Contents[d])
  BY <1>1
<1>3. ASSUME NEW k \in Nat, NEW m \in Nat, k <= m
      PROVE  Commands * k \in Nat /\ Commands * k <= Commands * m /\ Commands * m \in Nat
             /\ Commands * (k + 1) = Commands * k + Commands /\ Commands * 0 = 0
  BY <1>1, <1>3, ForensicAssumption
<1>4. /\ FilesIn(d, n) \in Nat /\ FilesIn(d, 0) = 0
      /\ FilesIn(d, n + 1) = FilesIn(d, n) + (IF Contents[d][n + 1] \in Files THEN 1 ELSE 0)
  BY FilesInIs
<1>5. /\ FilesIn(d, Len(Contents[d])) \in Nat
      /\ FilesIn(d, n + 1) <= FilesIn(d, Len(Contents[d]))
      /\ FilesIn(d, 0) <= FilesIn(d, Len(Contents[d]))
  BY <1>2, FilesInIs
<1>6. FilesIn(d, n + 1) \in Nat /\ FilesIn(d, n) <= FilesIn(d, n + 1)
  BY <1>4
<1>7. /\ Commands * FilesIn(d, n) \in Nat /\ Commands * FilesIn(d, n + 1) \in Nat
      /\ Commands * FilesIn(d, n) <= Commands * FilesIn(d, n + 1)
      /\ Commands * FilesIn(d, n + 1) <= Commands * FilesIn(d, Len(Contents[d]))
      /\ Commands * FilesIn(d, Len(Contents[d])) \in Nat
      /\ Commands * FilesIn(d, 0) = 0
  BY <1>3, <1>4, <1>5, <1>6
<1>8. Contents[d][n + 1] \in Files =>
        Commands * FilesIn(d, n + 1) = Commands * FilesIn(d, n) + Commands
  BY <1>3, <1>4, <1>6
<1>9. Contents[d][n + 1] \in Dirs => Inherited[Contents[d][n + 1]] = Upto(d, n + 1)
  <2> DEFINE c == Contents[d][n + 1]
  <2> SUFFICES ASSUME c \in Dirs
               PROVE  Inherited[c] = Upto(d, n + 1)
    OBVIOUS
  <2>1. c # Root /\ Parent[c] = d
        /\ \A j \in DOMAIN Contents[d] : Contents[d][j] = c => j = n + 1
    BY <1>2, ParentOf
  <2>2. PlaceIn(c) = n + 1
    BY <1>2, <2>1 DEF PlaceIn
  <2> QED BY <2>1, <2>2, InheritedIs DEF Upto
<1> DEFINE Cost(m) == Commands * FilesIn(d, m)
<1>10. \A m : Upto(d, m) = Inherited[d] + 1 + Cost(m)
  BY DEF Upto
<1>11. /\ Cost(n) \in Nat /\ Cost(n + 1) \in Nat /\ Cost(n) <= Cost(n + 1)
       /\ Cost(n + 1) <= Cost(Len(Contents[d])) /\ Cost(Len(Contents[d])) \in Nat /\ Cost(0) = 0
       /\ Contents[d][n + 1] \in Files => Cost(n + 1) = Cost(n) + Commands
  BY <1>7, <1>8
<1> HIDE DEF Cost
<1>12. /\ Upto(d, n) = Inherited[d] + 1 + Cost(n) /\ Upto(d, n + 1) = Inherited[d] + 1 + Cost(n + 1)
       /\ Upto(d, 0) = Inherited[d] + 1 + Cost(0)
       /\ Upto(d, Len(Contents[d])) = Inherited[d] + 1 + Cost(Len(Contents[d]))
       /\ Inherited[d] \in Nat /\ Commands \in Nat
  BY <1>1, <1>10
<1>13. /\ Upto(d, n) \in Nat /\ Upto(d, n + 1) \in Nat /\ Upto(d, Len(Contents[d])) \in Nat
       /\ Upto(d, 0) = Inherited[d] + 1
  <2>1. \A i, c \in Nat : i + 1 + c \in Nat /\ i + 1 + 0 = i + 1
    OBVIOUS
  <2> QED BY <1>11, <1>12, <2>1
<1>14. Upto(d, n) <= Upto(d, n + 1) /\ Upto(d, n + 1) <= Upto(d, Len(Contents[d]))
  BY <1>11, <1>12
<1>15. Upto(d, 0) <= Upto(d, Len(Contents[d]))
  BY <1>11, <1>12
<1>16. Contents[d][n + 1] \in Files => Upto(d, n + 1) = Upto(d, n) + Commands
  BY <1>11, <1>12
<1> QED BY <1>9, <1>13, <1>14, <1>15, <1>16

\* While no process fails or is killed, the first one outlives all others.
LEMMA RootOutlives ==
  ASSUME BasicInv, TreeInv, \A e \in Dirs : pc[e] \notin {"failed", "killed"},
         NEW d \in Dirs, Alive(d)
  PROVE  Alive(Root)
<1> SUFFICES ASSUME ~Alive(Root)
             PROVE  FALSE
  OBVIOUS
<1> DEFINE S == {e \in Dirs : pc[e] \in {"ended", "none"}}
<1>1. Root \in S
  BY ForensicAssumption DEF Alive, Over
<1>2. ASSUME NEW e \in Dirs \ {Root}, Parent[e] \in S
      PROVE  e \in S
  <2>1. CASE pc[Parent[e]] = "ended"
    <3>1. pc[e] = "none" \/ pc[e] \in Over
      BY <2>1 DEF TreeInv
    <3> QED BY <3>1 DEF Over
  <2>2. CASE pc[Parent[e]] = "none"
    <3>1. PICK i \in DOMAIN Contents[Parent[e]] : Contents[Parent[e]][i] = e
      BY PlaceOf DEF Entries
    <3>2. pos[Parent[e]] = 1 /\ Parent[e] \in Dirs
      BY <1>2, <2>2 DEF BasicInv, ScanInv
    <3>3. ~(i < pos[Parent[e]])
      BY <3>1, <3>2, ParentOf
    <3>4. pc[e] = "none"
      BY <3>1, <3>2, <3>3 DEF TreeInv
    <3> QED BY <3>4
  <2> QED BY <1>2, <2>1, <2>2
<1>3. d \in S
  BY <1>1, <1>2, TreeInduction
<1> QED BY <1>3 DEF Alive, Over

\* The first directory has the descriptors the program needs, and nothing else
\* can go wrong.
NoCause == EnoughDescriptors /\ setting.broken = {} /\ ~ctrlC

\* A process has no more descriptors open than those left to it and the read
\* ends of the commands it ran.
FdsAt(d) ==
  /\ pc[d] # "failed"
  /\ pc[d] \in {"announce", "open"} => fds[d] <= Inherited[d]
  /\ pc[d] \in {"read", "signal", "log"} => fds[d] <= Upto(d, pos[d] - 1)
  /\ pc[d] = "command" => fds[d] + left[d] <= Upto(d, pos[d])
  /\ pc[d] \in {"wait", "output"} => fds[d] + left[d] <= Upto(d, pos[d]) + 1
  /\ pc[d] = "print" => fds[d] <= Upto(d, pos[d])

FdsInv == NoCause => \A d \in Dirs : FdsAt(d)

\* A process that has its descriptors keeps within them, and does not fail.
LEMMA FdsMoves ==
  ASSUME BasicInv, TreeInv, IntInv, NoCause, \A e \in Dirs : FdsAt(e),
         NEW d \in Dirs, Step(d), ~Fork(d)
  PROVE  FdsAt(d)'
<1> USE DEF BasicInv, TypeOK, Goto
<1>1. /\ FdsAt(d) /\ Alive(d) /\ Inherited[d] \in Nat /\ fds[d] \in Nat /\ left[d] \in Nat
      /\ Commands \in Nat /\ Commands >= 1 /\ setting.descriptors \in Nat /\ pos[d] \in Nat
      /\ pos[d] >= 1 /\ Len(Contents[d]) \in Nat
  <2>1. Inherited[d] \in Nat /\ FdsAt(d) /\ Alive(d)
    BY InheritedIs, Moves
  <2>2. setting.descriptors \in Nat /\ Commands \in 1 .. 4
    BY ForensicAssumption DEF SettingType
  <2>3. left[d] \in 0 .. Commands /\ fds[d] \in 0 .. setting.descriptors
    BY DEF TypeOK
  <2> QED BY <2>1, <2>2, <2>3, EntryType
<1>2. Upto(d, Len(Contents[d])) + 1 <= setting.descriptors /\ setting.broken = {}
      /\ Upto(d, Len(Contents[d])) \in Nat /\ Upto(d, 0) <= Upto(d, Len(Contents[d]))
      /\ Upto(d, 0) = Inherited[d] + 1
  <2> DEFINE Cost(m) == Commands * FilesIn(d, m)
  <2>1. \A k \in Nat : Commands * k \in Nat /\ Commands * 0 = 0
    BY <1>1
  <2>2. FilesIn(d, Len(Contents[d])) \in Nat /\ FilesIn(d, 0) = 0
    BY <1>1, FilesInIs
  <2>3. Cost(Len(Contents[d])) \in Nat /\ Cost(0) = 0
    BY <2>1, <2>2
  <2>4. \A m : Upto(d, m) = Inherited[d] + 1 + Cost(m)
    BY DEF Upto
  <2>5. Inherited[d] + 2 + Cost(Len(Contents[d])) <= setting.descriptors /\ setting.broken = {}
    BY DEF NoCause, EnoughDescriptors
  <2> HIDE DEF Cost, TypeOK
  <2> QED BY <1>1, <2>3, <2>4, <2>5
<1>3. ASSUME pos[d] <= Len(Contents[d])
      PROVE  /\ Upto(d, pos[d] - 1) \in Nat /\ Upto(d, pos[d]) \in Nat
             /\ Upto(d, pos[d] - 1) <= Upto(d, pos[d])
             /\ Upto(d, pos[d]) <= Upto(d, Len(Contents[d]))
             /\ Entry(d) \in Files => Upto(d, pos[d]) = Upto(d, pos[d] - 1) + Commands
  <2>1. pos[d] - 1 \in Nat /\ pos[d] - 1 < Len(Contents[d]) /\ pos[d] = (pos[d] - 1) + 1
    BY <1>1, <1>3
  <2> HIDE DEF TypeOK
  <2> QED BY <2>1, UptoIs DEF Entry
<1>4. CASE Announce(d) \/ SignalFile(d)
  <2>1. Alive(Root)
    BY <1>1, RootOutlives DEF IntInv, NoCause, FdsAt
  <2>2. /\ pos' = pos /\ fds' = fds
        /\ (pc[d] = "announce" /\ pc'[d] = "open") \/ (pc[d] = "signal" /\ pc'[d] = "log")
    BY <1>4, <2>1 DEF Announce, SignalFile, Notify
  <2> QED BY <1>1, <2>2 DEF FdsAt
<1>5. CASE Open(d)
  <2>1. pos[d] = 1 /\ fds[d] <= Inherited[d] /\ pc[d] = "open"
    BY <1>1, <1>5 DEF Open, ScanInv, FdsAt
  <2>2. fds[d] < setting.descriptors /\ d \notin setting.broken
    BY <1>1, <1>2, <2>1
  <2>3. pc'[d] = "read" /\ fds'[d] = fds[d] + 1 /\ pos' = pos
    BY <1>5, <2>2 DEF Open
  <2> QED BY <1>1, <1>2, <2>1, <2>3 DEF FdsAt
<1>6. CASE SkipDirectory(d)
  <2>1. /\ pc[d] = "read" /\ pc'[d] = "read" /\ pos[d] <= Len(Contents[d])
        /\ pos'[d] = pos[d] + 1 /\ fds' = fds
    BY <1>6 DEF SkipDirectory, AtEntry, NextEntry
  <2>2. pos'[d] - 1 = pos[d]
    BY <1>1, <2>1
  <2>3. fds[d] <= Upto(d, pos[d])
    BY <1>1, <1>3, <2>1 DEF FdsAt
  <2> QED BY <2>1, <2>2, <2>3 DEF FdsAt
<1>7. CASE StartFile(d)
  <2>1. pc[d] = "read" /\ pc'[d] \in {"signal", "log"} /\ pos' = pos /\ fds' = fds
    BY <1>7 DEF StartFile, AtEntry
  <2> QED BY <1>1, <2>1 DEF FdsAt
<1>8. CASE LoseFile(d)
  BY <1>2, <1>8 DEF LoseFile
<1>9. CASE LogFile(d)
  <2>1. /\ pc[d] = "log" /\ pc'[d] = "command" /\ pos' = pos /\ fds' = fds /\ left'[d] = Commands
        /\ pos[d] <= Len(Contents[d]) /\ Entry(d) \in Files
    BY <1>9 DEF LogFile, ScanInv, Protected
  <2>2. fds[d] + Commands <= Upto(d, pos[d])
    BY <1>1, <1>3, <2>1 DEF FdsAt
  <2> QED BY <2>1, <2>2 DEF FdsAt
<1>10. CASE EndOfDirectory(d) \/ Reap(d) \/ Finish(d) \/ End(d)
  <2>1. pc'[d] \in {"join", "exit", "ended"}
    BY <1>10 DEF EndOfDirectory, Reap, Finish, End, Exit, scanVars
  <2> QED BY <2>1 DEF FdsAt
<1>11. CASE RunCommand(d)
  <2>1. pc[d] = "command" /\ pos[d] <= Len(Contents[d]) /\ left[d] > 0
    BY <1>11 DEF RunCommand, ScanInv, Protected
  <2>2. fds[d] + left[d] <= Upto(d, pos[d])
    BY <1>1, <2>1 DEF FdsAt
  <2>3. PipeFits(d)
    <3> HIDE DEF TypeOK
    <3>1. Upto(d, pos[d]) \in Nat /\ Upto(d, pos[d]) <= Upto(d, Len(Contents[d]))
      BY <1>3, <2>1
    <3> QED BY <1>1, <1>2, <2>1, <2>2, <3>1 DEF PipeFits
  <2>4. pc'[d] = "wait" /\ fds'[d] = fds[d] + 1 /\ pos' = pos /\ left' = left
    BY <1>11, <2>3 DEF RunCommand, ReadEndLeft
  <2>5. fds'[d] + left[d] <= Upto(d, pos[d]) + 1
    BY <1>1, <1>3, <2>1, <2>2, <2>4
  <2> QED BY <2>4, <2>5 DEF FdsAt
<1>12. CASE WaitCommand(d)
  <2>1. pc[d] = "wait" /\ pc'[d] = "output" /\ pos' = pos /\ fds' = fds /\ left' = left
    BY <1>12 DEF WaitCommand
  <2> QED BY <1>1, <2>1 DEF FdsAt
<1>13. CASE ReadOutput(d)
  <2>1. /\ pc[d] = "output" /\ pos' = pos /\ fds' = fds /\ left'[d] = left[d] - 1
        /\ pc'[d] = IF left[d] > 1 THEN "command" ELSE "print"
        /\ pos[d] <= Len(Contents[d]) /\ left[d] > 0
    BY <1>13 DEF ReadOutput, ScanInv, Protected
  <2>2. fds[d] + left[d] <= Upto(d, pos[d]) + 1
    BY <1>1, <2>1 DEF FdsAt
  <2>3. fds[d] + left'[d] <= Upto(d, pos[d]) /\ (~(left[d] > 1) => fds[d] <= Upto(d, pos[d]))
    BY <1>1, <1>3, <2>1, <2>2
  <2> QED BY <2>1, <2>3 DEF FdsAt
<1>14. CASE PrintRecord(d)
  <2>1. /\ pc[d] = "print" /\ pc'[d] = "read" /\ pos'[d] = pos[d] + 1 /\ fds' = fds
    BY <1>14 DEF PrintRecord, NextEntry
  <2>2. pos'[d] - 1 = pos[d] /\ fds[d] <= Upto(d, pos[d])
    BY <1>1, <2>1 DEF FdsAt
  <2> QED BY <2>1, <2>2 DEF FdsAt
<1> QED BY <1>4, <1>5, <1>6, <1>7, <1>8, <1>9, <1>10, <1>11, <1>12, <1>13, <1>14 DEF Step

\* Every step keeps FdsInv.
LEMMA FdsKept == BasicInv /\ TreeInv /\ IntInv /\ FdsInv /\ [Next]_vars => FdsInv'
<1> SUFFICES ASSUME BasicInv, TreeInv, IntInv, FdsInv, [Next]_vars, NoCause'
             PROVE  \A e \in Dirs : FdsAt(e)'
  BY DEF FdsInv
<1> USE DEF BasicInv
<1>1. ASSUME NEW d \in Dirs, Step(d)
      PROVE  \A e \in Dirs : FdsAt(e)'
  <2>1. setting' = setting /\ ctrlC' = ctrlC
    BY <1>1, SignalMoves
  <2>2. NoCause /\ \A e \in Dirs : FdsAt(e)
    BY <2>1 DEF NoCause, EnoughDescriptors, FdsInv
  <2>3. ASSUME NEW e \in Dirs, e # d, ~(Fork(d) /\ e = Entry(d))
        PROVE  FdsAt(e)'
    BY <1>1, <2>2, <2>3, Elsewhere DEF FdsAt
  <2>4. CASE ~Fork(d)
    BY <1>1, <2>2, <2>3, <2>4, FdsMoves
  <2>5. CASE Fork(d)
    <3> DEFINE c == Entry(d)
    <3>1. /\ pos[d] \in DOMAIN Contents[d] /\ c = Contents[d][pos[d]] /\ c \in Dirs \ {Root}
          /\ c # d /\ Parent[c] = d /\ pc[c] = "none" /\ pc[d] = "read" /\ setting.r
      BY <2>5, NewChild
    <3>2. /\ pc'[d] = "read" /\ pc'[c] \in {"announce", "open"} /\ fds'[c] = fds[d]
          /\ fds'[d] = fds[d] /\ pos'[d] = pos[d] + 1
      BY <2>5, <3>1 DEF Fork, Goto, NextEntry, TypeOK
    <3>3. /\ pos[d] - 1 \in Nat /\ pos[d] - 1 < Len(Contents[d]) /\ pos[d] = (pos[d] - 1) + 1
          /\ pos'[d] - 1 = pos[d]
      BY <3>1, <3>2, EntryType
    <3>4. fds[d] <= Upto(d, pos[d] - 1)
      BY <2>2, <3>1 DEF FdsAt
    <3>5. /\ Upto(d, pos[d] - 1) \in Nat /\ Upto(d, pos[d]) \in Nat
          /\ Upto(d, pos[d] - 1) <= Upto(d, pos[d]) /\ Inherited[c] = Upto(d, pos[d])
      BY <3>1, <3>3, UptoIs
    <3>6. fds[d] \in Nat
      <4>1. fds[d] \in 0 .. setting.descriptors /\ setting.descriptors \in Nat
        BY ForensicAssumption DEF TypeOK, SettingType
      <4> QED BY <4>1
    <3>7. fds[d] <= Upto(d, pos[d])
      BY <3>4, <3>5, <3>6
    <3>8. FdsAt(d)'
      BY <3>2, <3>3, <3>7 DEF FdsAt
    <3>9. ASSUME NEW e \in Dirs, e = c
          PROVE  FdsAt(e)'
      <4>1. pc'[e] \in {"announce", "open"} /\ fds'[e] <= Inherited[e]
        BY <3>2, <3>5, <3>7, <3>9
      <4> QED BY <4>1 DEF FdsAt
    <3> QED BY <2>3, <3>8, <3>9
  <2> QED BY <2>4, <2>5
<1>2. CASE \E d \in Dirs : Die(d)
  <2>1. ctrlC
    BY <1>2 DEF Die, IntInv
  <2>2. ctrlC' = ctrlC
    BY <1>2 DEF Die
  <2> QED BY <2>1, <2>2 DEF NoCause
<1>3. CASE (\E d \in Dirs : CommandEnds(d)) \/ Handle \/ UNCHANGED vars
  <2>1. UNCHANGED <<setting, pc, pos, left, fds, ctrlC>>
    BY <1>3 DEF CommandEnds, Handle, HandlerReturns, Deliver, scanVars, intVars, vars
  <2>2. NoCause /\ \A e \in Dirs : FdsAt(e)
    BY <2>1 DEF NoCause, EnoughDescriptors, FdsInv
  <2> QED BY <2>1, <2>2 DEF FdsAt
<1>4. CASE Interrupt
  BY <1>4 DEF Interrupt, NoCause
<1> QED BY <1>1, <1>2, <1>3, <1>4 DEF Next

\* When a process finds room for one descriptor per directory and per command
\* before it, and no file is gone and nobody presses Ctrl+C, no process fails:
\* the limit EnoughDescriptors is the one that the code meets.
THEOREM NothingElseFails == Spec => []NoFailureWithoutCause
<1>1. Init => FdsInv /\ IntInv
  <2> SUFFICES ASSUME Init
               PROVE  FdsInv /\ IntInv
    OBVIOUS
  <2>1. \A d \in Dirs : Inherited[d] \in Nat
    BY InheritedIs
  <2>2. FdsInv
    BY <2>1 DEF Init, FdsInv, FdsAt
  <2> QED BY <2>2 DEF Init, IntInv
<1>2. FdsInv => NoFailureWithoutCause
  BY DEF FdsInv, NoCause, FdsAt, NoFailureWithoutCause
<1> QED BY <1>1, <1>2, FdsKept, IntKept, BasicHolds, PTL DEF Spec
=============================================================================
