--------------------------- MODULE ForensicProofs ---------------------------
(***************************************************************************)
(* What Forensic.tla states about the records and the processes of the     *)
(* forensic program, proved for every tree of directories, number of       *)
(* commands and way to start the program.                                  *)
(***************************************************************************)
EXTENDS Forensic, WellOrder

-----------------------------------------------------------------------------
(* The tree.                                                               *)

\* An entry is in one directory, at one place.
LEMMA ParentOf ==
  ASSUME NEW d \in Dirs, NEW i \in DOMAIN Contents[d]
  PROVE  /\ Contents[d][i] \in Entries \ {Root} /\ Parent[Contents[d][i]] = d
         /\ i \in 1 .. Len(Contents[d])
         /\ \A j \in DOMAIN Contents[d] : Contents[d][j] = Contents[d][i] => j = i
<1> DEFINE e == Contents[d][i]
<1>1. Contents[d] \in Seq(Entries \ {Root})
  BY ForensicAssumption
<1>2. e \in Entries \ {Root} /\ e \in Range(Contents[d]) /\ i \in 1 .. Len(Contents[d])
  BY <1>1 DEF Range
<1>3. PICK p \in Dirs : {c \in Dirs : e \in Range(Contents[c])} = {p}
  BY <1>2, ForensicAssumption
<1>4. \A c \in Dirs : e \in Range(Contents[c]) => c = d
  BY <1>2, <1>3
<1>5. (CHOOSE c \in Dirs : e \in Range(Contents[c])) = d
  BY <1>2, <1>4
<1>6. Parent[e] = d
  BY <1>2, <1>5 DEF Parent
<1>7. \A j \in DOMAIN Contents[d] : Contents[d][j] = e => j = i
  BY ForensicAssumption
<1> QED BY <1>2, <1>6, <1>7

\* Every entry but the first directory is in one.
LEMMA PlaceOf ==
  ASSUME NEW e \in Entries \ {Root}
  PROVE  /\ Parent[e] \in Dirs
         /\ \E i \in DOMAIN Contents[Parent[e]] : Contents[Parent[e]][i] = e
<1>1. PICK d \in Dirs : {c \in Dirs : e \in Range(Contents[c])} = {d}
  BY ForensicAssumption
<1>2. \E c \in Dirs : e \in Range(Contents[c])
  BY <1>1
<1>3. Parent[e] \in Dirs /\ e \in Range(Contents[Parent[e]])
  BY <1>2 DEF Parent
<1> QED BY <1>3 DEF Range

\* A directory is not in itself.
LEMMA ParentIsOther ==
  ASSUME NEW d \in Dirs \ {Root}
  PROVE  Parent[d] # d
<1>1. PICK depth \in [Dirs -> 0 .. Cardinality(Dirs)] :
        \A c \in Dirs : \A e \in Range(Contents[c]) \cap Dirs : depth[c] < depth[e]
  BY ForensicAssumption
<1>2. Parent[d] \in Dirs /\ d \in Range(Contents[Parent[d]])
  BY PlaceOf DEF Entries, Range
<1>3. depth[Parent[d]] < depth[d] /\ depth[d] \in Nat
  <2>1. IsFiniteSet(Dirs)
    BY ForensicAssumption, FS_Subset DEF Entries
  <2>2. Cardinality(Dirs) \in Nat
    BY <2>1, FS_CardinalityType
  <2> QED BY <1>1, <1>2, <2>2
<1> QED BY <1>3

\* Contents, and the entry a process is at.
LEMMA EntryType ==
  ASSUME TypeOK, NEW d \in Dirs
  PROVE  /\ Len(Contents[d]) \in Nat /\ DOMAIN Contents[d] = 1 .. Len(Contents[d])
         /\ pos[d] \in Nat /\ pos[d] \in 1 .. Len(Contents[d]) + 1
         /\ pos[d] <= Len(Contents[d]) =>
              /\ pos[d] \in DOMAIN Contents[d]
              /\ Entry(d) \in Entries \ {Root} /\ Parent[Entry(d)] = d
<1>1. Contents[d] \in Seq(Entries \ {Root})
  BY ForensicAssumption
<1>2. Len(Contents[d]) \in Nat /\ DOMAIN Contents[d] = 1 .. Len(Contents[d])
  BY <1>1
<1>3. pos[d] \in Nat /\ pos[d] \in 1 .. Len(Contents[d]) + 1
  BY DEF TypeOK
<1> QED BY <1>2, <1>3, ParentOf DEF Entry

-----------------------------------------------------------------------------
(* Where a process is.                                                     *)

\* A process works on a file at the entry it is at, has run through its
\* directory when it waits for its children, and starts at the first entry.
ScanInv ==
  \A d \in Dirs :
    /\ pc[d] \in Protected => pos[d] <= Len(Contents[d]) /\ Entry(d) \in Files
    /\ pc[d] \in {"command", "wait", "output"} => left[d] > 0
    /\ pc[d] \in {"join", "exit", "ended"} => pos[d] > Len(Contents[d])
    /\ pc[d] \in {"none", "announce", "open"} => pos[d] = 1

BasicInv == TypeOK /\ ScanInv

\* What exit does to the records and to the process.
LEMMA ExitDoes ==
  ASSUME TypeOK, NEW d \in Dirs, NEW place \in Places, Exit(d, place)
  PROVE  /\ pc' \in [Dirs -> Places] /\ pc'[d] = place
         /\ \A e \in Dirs \ {d} : pc'[e] = pc[e] /\ buffer'[e] = buffer[e]
         /\ buffer' \in [Dirs -> SUBSET Files] /\ buffer'[d] = {}
         /\ printed' \in [Files -> Nat]
         /\ \A f \in Files : printed'[f] = IF f \in buffer[d] THEN printed[f] + 1 ELSE printed[f]
BY DEF TypeOK, Exit, Goto

\* A step of the process of d touches no other, but for the one it forks.
LEMMA Elsewhere ==
  ASSUME TypeOK, NEW d \in Dirs, Step(d) \/ CommandEnds(d) \/ Die(d),
         NEW e \in Dirs, e # d, Fork(d) => e # Entry(d)
  PROVE  /\ pc'[e] = pc[e] /\ pos'[e] = pos[e] /\ left'[e] = left[e] /\ fds'[e] = fds[e]
         /\ running'[e] = running[e] /\ zombies'[e] = zombies[e] /\ buffer'[e] = buffer[e]
<1> USE DEF TypeOK, Goto, NextEntry, scanVars, childVars, recordVars
<1>1. CASE Announce(d) \/ SignalFile(d)
  BY <1>1 DEF Announce, SignalFile, Notify, Exit
<1>2. CASE Open(d) \/ LoseFile(d) \/ RunCommand(d) \/ End(d)
  BY <1>2 DEF Open, LoseFile, RunCommand, ReadEndLeft, End, Exit
<1>3. CASE SkipDirectory(d) \/ StartFile(d) \/ LogFile(d) \/ EndOfDirectory(d) \/ ReadOutput(d)
             \/ Finish(d)
  BY <1>3 DEF SkipDirectory, StartFile, LogFile, EndOfDirectory, ReadOutput, Finish
<1>4. CASE Fork(d)
  BY <1>4 DEF Fork
<1>5. CASE WaitCommand(d) \/ Reap(d)
  BY <1>5 DEF WaitCommand, Reap, WaitAny
<1>6. CASE PrintRecord(d)
  BY <1>6 DEF PrintRecord, EndOfLine
<1>7. CASE CommandEnds(d) \/ Die(d)
  BY <1>7 DEF CommandEnds, Die
<1> QED BY <1>1, <1>2, <1>3, <1>4, <1>5, <1>6, <1>7 DEF Step

-----------------------------------------------------------------------------
(* Type correctness.                                                       *)

\* Every step of a process keeps the types.
LEMMA StepTypes ==
  ASSUME BasicInv, NEW d \in Dirs, Step(d)
  PROVE  TypeOK'
<1> USE DEF BasicInv
<1>0. /\ Len(Contents[d]) \in Nat /\ pos[d] \in Nat /\ pos[d] \in 1 .. Len(Contents[d]) + 1
      /\ setting.descriptors \in Nat /\ Commands \in Nat /\ Commands >= 1
  BY EntryType, ForensicAssumption DEF TypeOK, SettingType
<1>1. \A p \in {"none", "announce", "open", "read", "join", "exit", "signal", "log", "command",
                "wait", "output", "print", "ended", "killed", "failed"} : p \in Places
  BY DEF Places, Protected, Over
<1>2. CASE Announce(d) \/ SignalFile(d)
  <2>1. PICK sig \in Signals, next \in {"open", "log"} : Notify(d, sig, next)
    BY <1>2 DEF Announce, SignalFile, Signals
  <2>2. /\ pc' \in [Dirs -> Places] /\ buffer' \in [Dirs -> SUBSET Files]
        /\ printed' \in [Files -> Nat] /\ logged' = logged /\ pending' \subseteq Signals
    <3>1. CASE Exit(d, "failed") /\ UNCHANGED <<logged, pending>>
      BY <1>1, <3>1, ExitDoes DEF TypeOK
    <3>2. CASE pending' \subseteq pending \cup {sig} /\ Goto(d, next) /\ UNCHANGED recordVars
      BY <1>1, <3>2 DEF TypeOK, Goto, recordVars
    <3> QED BY <2>1, <3>1, <3>2 DEF Notify
  <2>3. UNCHANGED <<setting, pos, left, fds, childVars, intVars, countVars, report>>
    BY <1>2 DEF Announce, SignalFile
  <2> QED BY <2>2, <2>3 DEF TypeOK, childVars, intVars, countVars
<1>3. CASE Open(d)
  <2>1. /\ pc' \in [Dirs -> Places] /\ buffer' \in [Dirs -> SUBSET Files]
        /\ printed' \in [Files -> Nat] /\ logged' = logged
        /\ fds' \in [Dirs -> 0 .. setting.descriptors]
    <3>1. CASE Goto(d, "read") /\ fds[d] < setting.descriptors
               /\ fds' = [fds EXCEPT ![d] = @ + 1] /\ UNCHANGED recordVars
      BY <1>0, <1>1, <3>1 DEF TypeOK, Goto, recordVars
    <3>2. CASE Exit(d, "failed") /\ UNCHANGED <<fds, logged>>
      BY <1>1, <3>2, ExitDoes DEF TypeOK
    <3> QED BY <1>3, <3>1, <3>2 DEF Open
  <2>2. UNCHANGED <<setting, pos, left, childVars, intVars, pending, countVars, report>>
    BY <1>3 DEF Open
  <2> QED BY <2>1, <2>2 DEF TypeOK, childVars, intVars, countVars
<1>4. ASSUME pos[d] <= Len(Contents[d]), NextEntry(d)
      PROVE  pos' \in [Dirs -> Nat] /\ \A e \in Dirs : pos'[e] \in 1 .. Len(Contents[e]) + 1
  <2>1. pos \in [Dirs -> Nat] /\ \A e \in Dirs : pos[e] \in 1 .. Len(Contents[e]) + 1
    BY DEF TypeOK
  <2>2. pos[d] + 1 \in Nat /\ pos[d] + 1 \in 1 .. Len(Contents[d]) + 1
    BY <1>0, <1>4
  <2> QED BY <1>4, <2>1, <2>2 DEF NextEntry
<1>5. CASE SkipDirectory(d)
  BY <1>4, <1>5 DEF SkipDirectory, AtEntry, TypeOK, childVars, intVars, countVars, recordVars
<1>6. CASE Fork(d)
  <2>1. Entry(d) \in Dirs /\ fds' = [fds EXCEPT ![Entry(d)] = fds[d]]
        /\ buffer' = [buffer EXCEPT ![Entry(d)] = buffer[d]]
        /\ Goto(Entry(d), IF setting.o THEN "announce" ELSE "open")
    BY <1>6 DEF Fork
  <2>2. /\ pc' \in [Dirs -> Places] /\ buffer' \in [Dirs -> SUBSET Files]
        /\ fds' \in [Dirs -> 0 .. setting.descriptors]
    BY <1>1, <2>1 DEF TypeOK, Goto
  <2> QED BY <1>4, <1>6, <2>2 DEF Fork, AtEntry, TypeOK, childVars, intVars, countVars
<1>7. CASE StartFile(d) \/ EndOfDirectory(d)
  <2>1. pc' \in [Dirs -> Places]
    BY <1>1, <1>7 DEF StartFile, EndOfDirectory, Goto, TypeOK
  <2> QED BY <1>7, <2>1
      DEF StartFile, EndOfDirectory, TypeOK, childVars, intVars, countVars, recordVars
<1>8. CASE LoseFile(d) \/ End(d)
  <2>1. PICK place \in Places : Exit(d, place)
    BY <1>1, <1>8 DEF LoseFile, End
  <2>2. UNCHANGED <<setting, pos, left, fds, childVars, logged, intVars, pending, countVars, report>>
    BY <1>8 DEF LoseFile, End
  <2> QED BY <2>1, <2>2, ExitDoes DEF TypeOK, childVars, intVars, countVars
<1>9. CASE LogFile(d)
  <2>1. Entry(d) \in Files
    BY <1>9 DEF LogFile, ScanInv, Protected
  <2>2. pc' \in [Dirs -> Places] /\ left' \in [Dirs -> 0 .. Commands]
    BY <1>0, <1>1, <1>9 DEF LogFile, Goto, TypeOK
  <2> QED BY <1>9, <2>1, <2>2 DEF LogFile, TypeOK, childVars, intVars, countVars
<1>10. CASE RunCommand(d)
  <2>1. /\ pc' \in [Dirs -> Places] /\ buffer' \in [Dirs -> SUBSET Files]
        /\ printed' \in [Files -> Nat] /\ logged' = logged
        /\ fds' \in [Dirs -> 0 .. setting.descriptors] /\ running' \in [Dirs -> BOOLEAN]
    <3>1. CASE PipeFits(d) /\ running' = [running EXCEPT ![d] = TRUE] /\ ReadEndLeft(d)
               /\ Goto(d, "wait") /\ UNCHANGED recordVars
      <4>1. fds[d] + 1 \in 0 .. setting.descriptors
        BY <1>0, <3>1 DEF PipeFits, TypeOK
      <4> QED BY <1>1, <3>1, <4>1 DEF TypeOK, Goto, recordVars, ReadEndLeft
    <3>2. CASE Exit(d, "failed") /\ UNCHANGED <<running, fds, logged>>
      BY <1>1, <3>2, ExitDoes DEF TypeOK
    <3> QED BY <1>10, <3>1, <3>2 DEF RunCommand
  <2>2. UNCHANGED <<setting, pos, left, zombies, reaped, intVars, pending, countVars, report>>
    BY <1>10 DEF RunCommand
  <2> QED BY <2>1, <2>2 DEF TypeOK, intVars, countVars
<1>11. ASSUME WaitAny(d)
       PROVE  zombies' \in [Dirs -> Nat] /\ reaped' \subseteq Dirs
  BY <1>11 DEF WaitAny, Dead, Children, TypeOK
<1>12. CASE WaitCommand(d) \/ Reap(d)
  <2>1. WaitAny(d) /\ pc' \in [Dirs -> Places]
    BY <1>1, <1>12 DEF WaitCommand, Reap, Goto, TypeOK, scanVars
  <2>2. UNCHANGED <<setting, pos, left, fds, running, recordVars, intVars, pending, countVars,
                    report>>
    BY <1>12 DEF WaitCommand, Reap, scanVars
  <2> QED BY <1>11, <2>1, <2>2 DEF TypeOK, recordVars, intVars, countVars
<1>13. CASE ReadOutput(d)
  <2>1. left[d] - 1 \in 0 .. Commands
    BY <1>0, <1>13 DEF ReadOutput, ScanInv, TypeOK
  <2>2. pc' \in [Dirs -> Places] /\ left' \in [Dirs -> 0 .. Commands]
    BY <1>1, <1>13, <2>1 DEF ReadOutput, Goto, TypeOK
  <2> QED BY <1>13, <2>2 DEF ReadOutput, TypeOK, childVars, recordVars, intVars, countVars
<1>14. CASE PrintRecord(d)
  <2>1. pos[d] <= Len(Contents[d]) /\ Entry(d) \in Files
    BY <1>14 DEF PrintRecord, ScanInv, Protected
  <2>2. buffer' \in [Dirs -> SUBSET Files] /\ printed' \in [Files -> Nat]
    <3>1. CASE EndOfLine(d)
      BY <3>1 DEF EndOfLine, WriteRecords, TypeOK
    <3>2. CASE buffer' = [buffer EXCEPT ![d] = @ \cup {Entry(d)}] /\ UNCHANGED printed
      BY <2>1, <3>2 DEF TypeOK
    <3> QED BY <1>14, <3>1, <3>2 DEF PrintRecord
  <2>3. pc' \in [Dirs -> Places]
    BY <1>1, <1>14 DEF PrintRecord, Goto, TypeOK
  <2> QED BY <1>4, <1>14, <2>1, <2>2, <2>3 DEF PrintRecord, TypeOK, childVars, intVars, countVars
<1>15. CASE Finish(d)
  <2>1. pc' \in [Dirs -> Places] /\ report' \in [dirs : Nat \cup {-1}, files : Nat \cup {-1}]
    BY <1>1, <1>15 DEF Finish, Goto, TypeOK
  <2> QED BY <1>15, <2>1 DEF Finish, TypeOK, childVars, recordVars, intVars, countVars
<1> QED BY <1>2, <1>3, <1>5, <1>6, <1>7, <1>8, <1>9, <1>10, <1>12, <1>13, <1>14, <1>15 DEF Step

-----------------------------------------------------------------------------
(* Which processes there are.                                              *)

\* With -r a process is forked for each directory that its parent has passed,
\* without for none; who was waited for is over, and a process that came to its
\* end waited for all it forked.
TreeInv ==
  /\ pc[Root] \notin {"none", "announce"}
  /\ \A d \in Dirs : \A i \in DOMAIN Contents[d] : Contents[d][i] \in Dirs =>
       (pc[Contents[d][i]] # "none" <=> setting.r /\ i < pos[d])
  /\ \A d \in reaped : pc[d] \in Over
  /\ \A c \in Dirs \ {Root} : pc[Parent[c]] \in {"exit", "ended"} /\ pc[c] # "none" => c \in reaped

\* Who steps is alive, keeps its options, and, but for a fork, starts no process
\* and ends no other's; it passes files it has printed and directories it skips.
LEMMA Moves ==
  ASSUME BasicInv, NEW d \in Dirs, Step(d) \/ Die(d), ~Fork(d)
  PROVE  /\ Alive(d) /\ pc'[d] \notin {"none", "announce"} /\ setting' = setting
         /\ pc'[d] \in {"exit", "ended"} => pc[d] = "exit" \/ Finish(d)
         /\ \/ pos' = pos
            \/ /\ pos[d] <= Len(Contents[d]) /\ pos' = [pos EXCEPT ![d] = @ + 1]
               /\ \/ PrintRecord(d) /\ Entry(d) \in Files
                  \/ SkipDirectory(d) /\ Entry(d) \in Dirs /\ ~setting.r
         /\ reaped \subseteq reaped' /\ reaped' \subseteq reaped \cup Dead(d)
<1> USE DEF BasicInv, TypeOK, Runs
<1> DEFINE Stays == pos' = pos /\ reaped' = reaped /\ setting' = setting
<1>1. CASE Announce(d) \/ SignalFile(d)
  <2>1. Alive(d) /\ Stays
    BY <1>1 DEF Announce, SignalFile, childVars
  <2>2. pc'[d] \in {"open", "log", "failed"}
    BY <1>1 DEF Announce, SignalFile, Notify, Exit, Goto
  <2> QED BY <2>1, <2>2
<1>2. CASE Open(d) \/ LoseFile(d) \/ RunCommand(d)
  <2>1. Alive(d) /\ Stays
    BY <1>2 DEF Open, LoseFile, RunCommand, childVars
  <2>2. pc'[d] \in {"read", "wait", "failed"}
    BY <1>2 DEF Open, LoseFile, RunCommand, Exit, Goto
  <2> QED BY <2>1, <2>2
<1>3. CASE StartFile(d) \/ LogFile(d) \/ EndOfDirectory(d) \/ ReadOutput(d)
  <2>1. Alive(d) /\ Stays
    BY <1>3 DEF StartFile, LogFile, EndOfDirectory, ReadOutput, childVars
  <2>2. pc'[d] \in {"signal", "log", "command", "join", "print"}
    BY <1>3 DEF StartFile, LogFile, EndOfDirectory, ReadOutput, Goto
  <2> QED BY <2>1, <2>2
<1>4. CASE Finish(d) \/ End(d)
  <2>1. Alive(d) /\ Stays
    BY <1>4 DEF Finish, End, childVars
  <2>2. pc'[d] \in {"exit", "ended"} /\ (End(d) => pc[d] = "exit")
    BY <1>4 DEF Finish, End, Exit, Goto
  <2> QED BY <1>4, <2>1, <2>2
<1>5. CASE WaitCommand(d) \/ Reap(d)
  <2>1. Alive(d) /\ pos' = pos /\ setting' = setting
    BY <1>5 DEF WaitCommand, Reap, scanVars
  <2>2. pc'[d] \in {"output", "join"}
    BY <1>5 DEF WaitCommand, Reap, Goto, scanVars
  <2>3. reaped \subseteq reaped' /\ reaped' \subseteq reaped \cup Dead(d)
    BY <1>5 DEF WaitCommand, Reap, WaitAny
  <2> QED BY <2>1, <2>2, <2>3
<1>6. CASE PrintRecord(d)
  <2>1. pos[d] <= Len(Contents[d]) /\ Entry(d) \in Files
    BY <1>6 DEF PrintRecord, ScanInv, Protected
  <2>2. pc'[d] = "read" /\ reaped' = reaped
    BY <1>6 DEF PrintRecord, Goto, childVars
  <2> QED BY <1>6, <2>1, <2>2 DEF PrintRecord, NextEntry
<1>7. CASE SkipDirectory(d)
  <2>1. pc'[d] = "read" /\ reaped' = reaped
    BY <1>7 DEF SkipDirectory, AtEntry, childVars
  <2> QED BY <1>7, <2>1 DEF SkipDirectory, AtEntry, NextEntry
<1>8. CASE Die(d)
  BY <1>8 DEF Die, Goto, childVars
<1> QED BY <1>1, <1>2, <1>3, <1>4, <1>5, <1>6, <1>7, <1>8 DEF Step

\* The child that a fork starts was not there, and is not the forking process.
LEMMA NewChild ==
  ASSUME BasicInv, TreeInv, NEW d \in Dirs, Fork(d)
  PROVE  /\ pos[d] \in DOMAIN Contents[d] /\ Entry(d) = Contents[d][pos[d]]
         /\ Entry(d) \in Dirs \ {Root} /\ Entry(d) # d /\ Parent[Entry(d)] = d
         /\ pc[Entry(d)] = "none" /\ pc[d] = "read" /\ setting.r
<1>1. /\ pos[d] \in DOMAIN Contents[d] /\ Entry(d) \in Dirs \ {Root} /\ Parent[Entry(d)] = d
      /\ pc[d] = "read" /\ setting.r
  BY EntryType DEF BasicInv, Fork, AtEntry
<1>2. ~(pos[d] < pos[d])
  BY EntryType DEF BasicInv
<1> QED BY <1>1, <1>2, ParentIsOther DEF TreeInv, Entry

\* Every step keeps TreeInv.
LEMMA TreeKept ==
  ASSUME BasicInv, TreeInv, NEW d \in Dirs, Step(d) \/ Die(d)
  PROVE  TreeInv'
<1> USE DEF BasicInv
<1>1. CASE Fork(d)
  <2> DEFINE c == Entry(d)
  <2>1. /\ pos[d] \in DOMAIN Contents[d] /\ c = Contents[d][pos[d]] /\ c \in Dirs \ {Root}
        /\ c # d /\ Parent[c] = d /\ pc[c] = "none" /\ pc[d] = "read" /\ setting.r
    BY <1>1, NewChild
  <2>2. /\ pc'[c] \in {"announce", "open"} /\ \A e \in Dirs \ {c} : pc'[e] = pc[e]
        /\ pos'[d] = pos[d] + 1 /\ \A e \in Dirs \ {d} : pos'[e] = pos[e]
        /\ reaped' = reaped /\ setting' = setting
    BY <1>1, <2>1 DEF Fork, Goto, NextEntry, TypeOK, childVars
  <2>3. ASSUME NEW e \in Dirs, NEW i \in DOMAIN Contents[e], Contents[e][i] \in Dirs
        PROVE  pc'[Contents[e][i]] # "none" <=> setting'.r /\ i < pos'[e]
    <3>1. pc[Contents[e][i]] # "none" <=> setting.r /\ i < pos[e]
      BY <2>3 DEF TreeInv
    <3>2. Contents[e][i] = c => e = d /\ i = pos[d]
      BY <2>1, ParentOf
    <3>3. i \in Nat /\ pos[e] \in Nat
      BY <2>3, EntryType
    <3>4. CASE e = d /\ i = pos[d]
      BY <2>1, <2>2, <3>3, <3>4
    <3>5. CASE ~(e = d /\ i = pos[d])
      <4>1. pc'[Contents[e][i]] = pc[Contents[e][i]]
        BY <2>2, <2>3, <3>2, <3>5
      <4>2. i < pos'[e] <=> i < pos[e]
        BY <2>2, <3>3, <3>5
      <4> QED BY <2>2, <3>1, <4>1, <4>2
    <3> QED BY <3>4, <3>5
  <2>4. \A e \in reaped' : pc'[e] \in Over
    BY <2>1, <2>2 DEF TreeInv, TypeOK, Over
  <2>5. ASSUME NEW e \in Dirs \ {Root}, pc'[Parent[e]] \in {"exit", "ended"}, pc'[e] # "none"
        PROVE  e \in reaped'
    <3>1. Parent[e] \in Dirs
      BY PlaceOf DEF Entries
    <3>2. e # c /\ Parent[e] # c
      BY <2>1, <2>2, <2>5
    <3> QED BY <2>2, <2>5, <3>1, <3>2 DEF TreeInv
  <2>6. pc'[Root] \notin {"none", "announce"}
    BY <2>1, <2>2, ForensicAssumption DEF TreeInv
  <2> QED BY <2>3, <2>4, <2>5, <2>6 DEF TreeInv
<1>2. CASE ~Fork(d)
  <2>1. /\ Alive(d) /\ pc'[d] \notin {"none", "announce"} /\ setting' = setting
        /\ pc'[d] \in {"exit", "ended"} => pc[d] = "exit" \/ Finish(d)
        /\ reaped \subseteq reaped' /\ reaped' \subseteq reaped \cup Dead(d)
    BY <1>2, Moves
  <2>2. \A e \in Dirs \ {d} : pc'[e] = pc[e] /\ pos'[e] = pos[e]
    BY <1>2, Elsewhere
  <2>3. /\ \A e \in Dirs : pc'[e] # "none" <=> pc[e] # "none"
        /\ \A e \in Dirs : pc[e] \in Over => pc'[e] = pc[e]
    BY <2>1, <2>2 DEF Alive
  <2>4. ASSUME NEW e \in Dirs, NEW i \in DOMAIN Contents[e], Contents[e][i] \in Dirs
        PROVE  pc'[Contents[e][i]] # "none" <=> setting'.r /\ i < pos'[e]
    <3>1. pc[Contents[e][i]] # "none" <=> setting.r /\ i < pos[e]
      BY <2>4 DEF TreeInv
    <3>2. i \in Nat /\ pos[e] \in Nat
      BY <2>4, EntryType
    <3>3. setting.r => (i < pos'[e] <=> i < pos[e])
      <4>1. CASE pos' = pos
        BY <4>1
      <4>2. CASE e = d /\ setting.r /\ pos' = [pos EXCEPT ![d] = @ + 1] /\ Entry(d) \in Files
        <5>1. i # pos[d]
          BY <2>4, <4>2, ForensicAssumption DEF Entry
        <5> QED BY <3>2, <4>2, <5>1 DEF TypeOK
      <4> QED BY <1>2, <2>2, <4>1, <4>2, Moves
    <3> QED BY <2>1, <2>3, <2>4, <3>1, <3>3
  <2>5. \A e \in reaped' : pc'[e] \in Over
    BY <2>1, <2>3 DEF TreeInv, TypeOK, Dead, Children
  <2>6. ASSUME NEW e \in Dirs \ {Root}, pc'[Parent[e]] \in {"exit", "ended"}, pc'[e] # "none"
        PROVE  e \in reaped'
    <3>1. Parent[e] \in Dirs /\ pc[e] # "none"
      BY <2>3, <2>6, PlaceOf DEF Entries
    <3>2. CASE pc[Parent[e]] \in {"exit", "ended"}
      BY <2>1, <3>1, <3>2 DEF TreeInv
    <3>3. CASE Parent[e] = d /\ Finish(d)
      BY <2>1, <3>1, <3>3 DEF Finish, NoChildLeft, Children
    <3> QED BY <2>1, <2>2, <2>6, <3>1, <3>2, <3>3
  <2>7. pc'[Root] \notin {"none", "announce"}
    BY <2>1, <2>2, ForensicAssumption DEF TreeInv
  <2> QED BY <2>4, <2>5, <2>6, <2>7 DEF TreeInv
<1> QED BY <1>1, <1>2

-----------------------------------------------------------------------------
(* ScanInv, and what holds of every behaviour.                             *)

\* Every step keeps ScanInv.
LEMMA ScanKept ==
  ASSUME BasicInv, TreeInv, NEW d \in Dirs, Step(d) \/ Die(d)
  PROVE  ScanInv'
<1> USE DEF BasicInv
<1> DEFINE At(e) ==
             /\ pc[e] \in Protected => pos[e] <= Len(Contents[e]) /\ Entry(e) \in Files
             /\ pc[e] \in {"command", "wait", "output"} => left[e] > 0
             /\ pc[e] \in {"join", "exit", "ended"} => pos[e] > Len(Contents[e])
             /\ pc[e] \in {"none", "announce", "open"} => pos[e] = 1
<1>1. \A e \in Dirs : At(e)
  BY DEF ScanInv
<1>2. ASSUME NEW e \in Dirs, e # d, Fork(d) => e # Entry(d)
      PROVE  At(e)'
  BY <1>1, <1>2, Elsewhere DEF Entry
<1>3. CASE Fork(d)
  <2>1. At(Entry(d)) /\ Entry(d) \in Dirs /\ pc[Entry(d)] = "none" /\ Entry(d) # d /\ pc[d] = "read"
    BY <1>1, <1>3, NewChild
  <2>2. ASSUME NEW e \in Dirs, e = Entry(d)
        PROVE  At(e)'
    <3>1. pc'[e] \in {"announce", "open"} /\ pos'[e] = pos[e]
      BY <1>3, <2>1, <2>2 DEF Fork, Goto, NextEntry, TypeOK
    <3> QED BY <2>1, <2>2, <3>1 DEF Protected
  <2>3. At(d)'
    <3>1. pc'[d] = "read"
      BY <1>3, <2>1 DEF Fork, Goto, TypeOK
    <3> QED BY <3>1 DEF Protected
  <2>4. \A e \in Dirs : At(e)'
    BY <1>2, <2>2, <2>3
  <2> QED BY <2>4 DEF ScanInv
<1>4. CASE ~Fork(d)
  <2>1. At(d)'
    <3> USE DEF TypeOK, Goto, Protected
    <3>1. CASE Announce(d) \/ SignalFile(d)
      <4>1. /\ pos' = pos /\ left' = left
            /\ pc'[d] \in {"open", "log", "failed"}
            /\ pc'[d] = "open" => pc[d] = "announce"
            /\ pc'[d] = "log" => pc[d] = "signal"
        BY <3>1 DEF Announce, SignalFile, Notify, Exit
      <4> QED BY <1>1, <4>1 DEF Entry
    <3>2. CASE Open(d) \/ LoseFile(d) \/ SkipDirectory(d) \/ PrintRecord(d) \/ Die(d)
      <4>1. pc'[d] \in {"read", "failed", "killed"}
        BY <3>2 DEF Open, LoseFile, SkipDirectory, AtEntry, PrintRecord, Die, Exit
      <4> QED BY <4>1
    <3>3. CASE StartFile(d)
      <4>1. /\ pos' = pos /\ left' = left /\ pc'[d] \in {"signal", "log"}
            /\ pos[d] <= Len(Contents[d]) /\ Entry(d) \in Files
        BY <3>3 DEF StartFile, AtEntry
      <4> QED BY <4>1 DEF Entry
    <3>4. CASE LogFile(d)
      <4>1. pos' = pos /\ left'[d] = Commands /\ pc'[d] = "command" /\ pc[d] = "log"
        BY <3>4 DEF LogFile
      <4> QED BY <1>1, <4>1, ForensicAssumption DEF Entry
    <3>5. CASE EndOfDirectory(d)
      <4>1. pos' = pos /\ pc'[d] = "join" /\ pos[d] > Len(Contents[d])
        BY <3>5 DEF EndOfDirectory
      <4> QED BY <4>1
    <3>6. CASE RunCommand(d) \/ WaitCommand(d) \/ Reap(d) \/ Finish(d) \/ End(d)
      <4>1. /\ pos' = pos /\ left' = left
            /\ pc'[d] \in {"wait", "failed", "output", "join", "exit", "ended"}
            /\ pc'[d] \in {"wait", "output"} => pc[d] \in {"command", "wait"}
            /\ pc'[d] \in {"join", "exit", "ended"} => pc[d] \in {"join", "exit"}
        BY <3>6 DEF RunCommand, WaitCommand, Reap, Finish, End, Exit, scanVars
      <4> QED BY <1>1, <4>1 DEF Entry
    <3>7. CASE ReadOutput(d)
      <4>1. /\ pos' = pos /\ left'[d] = left[d] - 1 /\ pc[d] = "output"
            /\ pc'[d] = IF left[d] > 1 THEN "command" ELSE "print"
        BY <3>7 DEF ReadOutput
      <4>2. left[d] \in Int
        BY ForensicAssumption
      <4> QED BY <1>1, <4>1, <4>2 DEF Entry
    <3> QED BY <1>4, <3>1, <3>2, <3>3, <3>4, <3>5, <3>6, <3>7 DEF Step
  <2>2. \A e \in Dirs : At(e)'
    BY <1>2, <1>4, <2>1
  <2> QED BY <2>2 DEF ScanInv
<1> QED BY <1>3, <1>4

\* Signals and commands that end keep the types.
LEMMA SignalTypes ==
  ASSUME TypeOK,
         \/ \E d \in Dirs : CommandEnds(d) \/ Die(d)
         \/ Handle \/ Interrupt
  PROVE  TypeOK'
<1>1. CASE \E d \in Dirs : CommandEnds(d)
  <2>1. PICK d \in Dirs : CommandEnds(d)
    BY <1>1
  <2>2. running' \in [Dirs -> BOOLEAN] /\ zombies' \in [Dirs -> Nat]
    BY <2>1 DEF CommandEnds, TypeOK
  <2> QED BY <2>1, <2>2 DEF CommandEnds, TypeOK, scanVars, recordVars, intVars, countVars
<1>2. CASE \E d \in Dirs : Die(d)
  <2>1. PICK d \in Dirs : Die(d)
    BY <1>2
  <2>2. "killed" \in Places
    BY DEF Places, Over
  <2>3. pc' \in [Dirs -> Places] /\ buffer' \in [Dirs -> SUBSET Files] /\ sigint' \subseteq Dirs
    BY <2>1, <2>2 DEF Die, Goto, TypeOK
  <2> QED BY <2>1, <2>3 DEF Die, TypeOK, childVars, countVars
<1>3. CASE Interrupt
  BY <1>3 DEF Interrupt, TypeOK, scanVars, childVars, recordVars, countVars
<1>4. CASE \E sig \in Signals : Deliver(sig)
  <2>1. PICK sig \in Signals : Deliver(sig)
    BY <1>4
  <2>2. [sig |-> sig, value |-> Counter(sig)] \in Frame
    BY DEF Frame, Counter, TypeOK
  <2>3. handlers' \in Seq(Frame) /\ pending' \subseteq Signals
    BY <2>1, <2>2 DEF Deliver, TypeOK
  <2> QED BY <2>1, <2>3 DEF Deliver, TypeOK, scanVars, childVars, recordVars, intVars
<1>5. CASE HandlerReturns
  <2>1. Len(handlers) \in Nat /\ Len(handlers) # 0 /\ handlers \in Seq(Frame)
    BY <1>5 DEF HandlerReturns, TypeOK
  <2>2. Last(handlers) \in Frame /\ Front(handlers) \in Seq(Frame)
    BY <2>1 DEF Last, Front
  <2>3. numDirs' \in Nat /\ numFiles' \in Nat /\ handlers' \in Seq(Frame)
    BY <1>5, <2>2 DEF HandlerReturns, Count, Frame, TypeOK
  <2> QED BY <1>5, <2>3 DEF HandlerReturns, TypeOK, scanVars, childVars, recordVars, intVars
<1> QED BY <1>1, <1>2, <1>3, <1>4, <1>5 DEF Handle

\* Those that touch no process keep the rest.
LEMMA SignalsElsewhere ==
  ASSUME (\E d \in Dirs : CommandEnds(d)) \/ Handle \/ Interrupt
  PROVE  /\ UNCHANGED <<setting, pc, pos, left, fds, reaped, buffer, printed, logged, report>>
         /\ ~Interrupt => UNCHANGED <<sigint, ctrlC>>
BY DEF CommandEnds, Handle, HandlerReturns, Deliver, Interrupt, scanVars, childVars, recordVars,
   intVars

\* At the start.
LEMMA BasicAtStart == Init => BasicInv /\ TreeInv
<1> SUFFICES ASSUME Init
             PROVE  BasicInv /\ TreeInv
  OBVIOUS
<1>1. \A d \in Dirs : Len(Contents[d]) \in Nat
  BY ForensicAssumption
<1>2. "none" \in Places /\ "open" \in Places
  BY DEF Places
<1>3. setting.descriptors \in Nat /\ Commands \in Nat /\ Root \in Dirs
  BY ForensicAssumption DEF Init, SettingType
<1>4. TypeOK
  <2>1. /\ pc \in [Dirs -> Places] /\ pos \in [Dirs -> Nat]
        /\ \A d \in Dirs : pos[d] \in 1 .. Len(Contents[d]) + 1
    BY <1>1, <1>2 DEF Init
  <2>2. /\ left \in [Dirs -> 0 .. Commands] /\ fds \in [Dirs -> 0 .. setting.descriptors]
        /\ buffer \in [Dirs -> SUBSET Files] /\ handlers \in Seq(Frame)
        /\ report \in [dirs : Nat \cup {-1}, files : Nat \cup {-1}]
    BY <1>3 DEF Init, NoReport
  <2> QED BY <2>1, <2>2 DEF Init, TypeOK
<1>5. ScanInv
  BY DEF Init, ScanInv, Protected
<1>6. TreeInv
  <2>1. \A d \in Dirs : \A i \in DOMAIN Contents[d] : ~(i < pos[d]) /\ Contents[d][i] # Root
    BY <1>1, ParentOf DEF Init
  <2> QED BY <1>3, <2>1 DEF Init, TreeInv
<1> QED BY <1>4, <1>5, <1>6 DEF BasicInv

\* Every step keeps them.
LEMMA BasicKept == BasicInv /\ TreeInv /\ [Next]_vars => (BasicInv /\ TreeInv)'
<1>1. ASSUME BasicInv, TreeInv, NEW d \in Dirs, Step(d) \/ Die(d)
      PROVE  BasicInv' /\ TreeInv'
  <2>1. TypeOK'
    BY <1>1, StepTypes, SignalTypes DEF BasicInv
  <2> QED BY <1>1, <2>1, ScanKept, TreeKept DEF BasicInv
<1>2. ASSUME BasicInv, TreeInv, (\E d \in Dirs : CommandEnds(d)) \/ Handle \/ Interrupt
      PROVE  BasicInv' /\ TreeInv'
  <2>1. TypeOK'
    BY <1>2, SignalTypes DEF BasicInv
  <2>2. UNCHANGED <<setting, pc, pos, left, fds, reaped>>
    BY <1>2, SignalsElsewhere
  <2> QED BY <1>2, <2>1, <2>2 DEF BasicInv, ScanInv, TreeInv, Entry
<1>3. ASSUME BasicInv, TreeInv, UNCHANGED vars
      PROVE  BasicInv' /\ TreeInv'
  <2>1. TypeOK'
    BY <1>3 DEF BasicInv, TypeOK, vars, scanVars, childVars, recordVars, intVars, countVars
  <2> QED BY <1>3, <2>1 DEF BasicInv, ScanInv, TreeInv, Entry, vars, scanVars, childVars
<1> QED BY <1>1, <1>2, <1>3 DEF Next

\* So it holds always, and so does the tree of processes.
LEMMA BasicHolds == Spec => [](BasicInv /\ TreeInv)
BY BasicAtStart, BasicKept, PTL DEF Spec

\* Positions stay in the directory, descriptors within their limit, however
\* processes, signals and commands interleave.
THEOREM ForensicTypeCorrect == Spec => []TypeOK
BY BasicHolds, PTL DEF BasicInv

-----------------------------------------------------------------------------
(* Records.                                                                *)

\* Where a file is being looked at, with its entry in the log.
LoggedPlaces == {"command", "wait", "output", "print"}

\* Of the i-th entry of directory d, a file: once passed it is logged, and its
\* record is written, or kept by the process, or died with it; before that
\* there is no record, and it is logged only while it is looked at, or where the
\* process failed.
RecordAt(d, i) ==
  LET f == Contents[d][i] IN
  /\ i < pos[d] => /\ f \in logged
                   /\ \/ printed[f] > 0
                      \/ f \in buffer[d]
                      \/ pc[d] = "killed" /\ ~setting.lineBuffered
  /\ i >= pos[d] => printed[f] = 0 /\ \A e \in Dirs : f \notin buffer[e]
  /\ f \in logged => i < pos[d] \/ (i = pos[d] /\ pc[d] \in LoggedPlaces \cup {"failed"})

RecordInv ==
  /\ \A d \in Dirs : \A i \in DOMAIN Contents[d] : Contents[d][i] \in Files => RecordAt(d, i)
  /\ \A d \in Dirs : /\ pc[d] \in LoggedPlaces => Entry(d) \in logged
                     /\ buffer[d] # {} => Alive(d) /\ ~setting.lineBuffered

\* What a step does to the records: it writes those its buffer held, or the one
\* it has just completed, and logs the file it turns to.
LEMMA RecordMoves ==
  ASSUME BasicInv, TreeInv, NEW d \in Dirs, Step(d) \/ Die(d)
  PROVE  /\ \A f \in Files : /\ printed'[f] >= printed[f]
                             /\ f \notin buffer[d] /\ ~(PrintRecord(d) /\ f = Entry(d))
                                  => printed'[f] = printed[f]
                             /\ f \in buffer[d] => printed'[f] > 0 \/ f \in buffer'[d] \/ Die(d)
         /\ logged' = IF LogFile(d) THEN logged \cup {Entry(d)} ELSE logged
         /\ buffer'[d] \subseteq buffer[d] \cup (IF PrintRecord(d) THEN {Entry(d)} ELSE {})
         /\ buffer'[d] # {} => pc'[d] \notin Over \cup {"none"}
                               /\ (buffer[d] # {} \/ ~setting.lineBuffered)
         /\ Die(d) => pc'[d] = "killed" /\ ~Masked(d)
         /\ PrintRecord(d) => printed'[Entry(d)] > 0 \/ Entry(d) \in buffer'[d]
<1> USE DEF BasicInv
<1>0. \A f \in Files : printed[f] \in Nat
  BY DEF TypeOK
<1>1. CASE Announce(d) \/ SignalFile(d) \/ Open(d) \/ LoseFile(d) \/ RunCommand(d) \/ End(d)
  <2>1. ~PrintRecord(d) /\ ~LogFile(d) /\ logged' = logged
    BY <1>1 DEF Announce, SignalFile, Open, LoseFile, RunCommand, End, PrintRecord, LogFile, AtEntry,
       Notify, recordVars
  <2>2. \/ \E place \in {"failed", "ended"} : Exit(d, place)
        \/ UNCHANGED recordVars /\ \E place \in {"open", "log", "read", "wait"} : Goto(d, place)
    BY <1>1 DEF Announce, SignalFile, Notify, Open, LoseFile, RunCommand, End
  <2>3. CASE \E place \in {"failed", "ended"} : Exit(d, place)
    <3>1. PICK place \in {"failed", "ended"} : Exit(d, place)
      BY <2>3
    <3>2. place \in Places
      BY DEF Places, Over
    <3>3. pc'[d] # "killed" /\ buffer'[d] = {}
          /\ \A f \in Files : printed'[f] = IF f \in buffer[d] THEN printed[f] + 1 ELSE printed[f]
      BY <3>1, <3>2, ExitDoes
    <3>4. ~Die(d)
      BY <3>3 DEF Die, Goto, TypeOK
    <3> QED BY <1>0, <2>1, <3>3, <3>4
  <2>4. CASE UNCHANGED recordVars /\ \E place \in {"open", "log", "read", "wait"} : Goto(d, place)
    <3>1. pc'[d] \notin Over \cup {"none"} /\ ~Die(d)
      BY <2>4 DEF Goto, Die, TypeOK, Over
    <3> QED BY <1>0, <2>1, <2>4, <3>1 DEF recordVars
  <2> QED BY <2>2, <2>3, <2>4
<1>2. CASE SkipDirectory(d) \/ StartFile(d) \/ EndOfDirectory(d) \/ WaitCommand(d) \/ ReadOutput(d)
             \/ Reap(d) \/ Finish(d)
  <2>1. ~PrintRecord(d) /\ ~LogFile(d) /\ UNCHANGED recordVars
    BY <1>2 DEF SkipDirectory, StartFile, EndOfDirectory, WaitCommand, ReadOutput, Reap, Finish,
       PrintRecord, LogFile, AtEntry
  <2>2. pc'[d] \in {"read", "signal", "log", "join", "output", "command", "print", "exit"}
    BY <1>2 DEF SkipDirectory, StartFile, EndOfDirectory, WaitCommand, ReadOutput, Reap, Finish,
       AtEntry, Goto, TypeOK, scanVars
  <2>3. pc'[d] \notin Over \cup {"none"} /\ ~Die(d)
    BY <2>2 DEF Die, Goto, TypeOK, Over
  <2> QED BY <1>0, <2>1, <2>3 DEF recordVars
<1>3. CASE LogFile(d)
  <2>1. ~PrintRecord(d) /\ pc'[d] = "command" /\ UNCHANGED <<buffer, printed>>
        /\ logged' = logged \cup {Entry(d)}
    BY <1>3 DEF LogFile, PrintRecord, Goto, TypeOK
  <2>2. ~Die(d)
    BY <2>1 DEF Die, Goto, TypeOK
  <2> QED BY <1>0, <1>3, <2>1, <2>2 DEF Over
<1>4. CASE PrintRecord(d)
  <2>1. /\ ~LogFile(d) /\ logged' = logged /\ pc'[d] = "read" /\ Entry(d) \in Files
    BY <1>4 DEF LogFile, PrintRecord, Goto, TypeOK, ScanInv, Protected
  <2>2. ~Die(d)
    BY <2>1 DEF Die, Goto, TypeOK
  <2>3. CASE EndOfLine(d)
    <3>1. buffer'[d] = {} /\ \A f \in Files :
            printed'[f] = IF f \in buffer[d] \cup {Entry(d)} THEN printed[f] + 1 ELSE printed[f]
      BY <2>3 DEF EndOfLine, WriteRecords, TypeOK
    <3> QED BY <1>0, <1>4, <2>1, <2>2, <3>1
  <2>4. CASE ~setting.lineBuffered /\ buffer' = [buffer EXCEPT ![d] = @ \cup {Entry(d)}]
             /\ UNCHANGED printed
    <3>1. buffer'[d] = buffer[d] \cup {Entry(d)}
      BY <2>4 DEF TypeOK
    <3> QED BY <1>0, <1>4, <2>1, <2>2, <2>4, <3>1 DEF Over
  <2> QED BY <1>4, <2>3, <2>4 DEF PrintRecord
<1>5. CASE Fork(d)
  <2>1. ~PrintRecord(d) /\ ~LogFile(d) /\ pc[d] = "read" /\ Entry(d) # d
        /\ UNCHANGED <<printed, logged>>
    BY <1>5, NewChild DEF Fork, PrintRecord, LogFile
  <2>2. pc'[d] = "read" /\ buffer'[d] = buffer[d]
    BY <1>5, <2>1 DEF Fork, Goto, TypeOK
  <2>3. ~Die(d)
    BY <2>2 DEF Die, Goto, TypeOK
  <2> QED BY <1>0, <2>1, <2>2, <2>3 DEF Over
<1>6. CASE Die(d)
  <2>1. /\ pc'[d] = "killed" /\ ~Masked(d) /\ buffer'[d] = {} /\ UNCHANGED <<printed, logged>>
    BY <1>6 DEF Die, Goto, SigintBlocked, TypeOK
  <2>2. ~PrintRecord(d) /\ ~LogFile(d)
    BY <2>1 DEF PrintRecord, LogFile, Goto, TypeOK
  <2> QED BY <1>0, <1>6, <2>1, <2>2
<1> QED BY <1>1, <1>2, <1>3, <1>4, <1>5, <1>6 DEF Step

\* Where a step leaves its process: it comes to a logged place by logging the
\* file it is at, and goes on from there until it has printed it or fails.
LEMMA PlaceMoves ==
  ASSUME BasicInv, NEW d \in Dirs, Step(d) \/ Die(d), ~Fork(d)
  PROVE  /\ PrintRecord(d) \/ SkipDirectory(d) \/ pos' = pos
         /\ PrintRecord(d) \/ SkipDirectory(d) => pos' = [pos EXCEPT ![d] = @ + 1] /\ pc'[d] = "read"
         /\ PrintRecord(d) => pc[d] = "print"
         /\ LogFile(d) => pos' = pos /\ pc'[d] = "command"
         /\ pc[d] \in LoggedPlaces => PrintRecord(d) \/ pc'[d] \in LoggedPlaces \cup {"failed"}
         /\ pc'[d] \in LoggedPlaces => pos' = pos /\ (pc[d] \in LoggedPlaces \/ LogFile(d))
<1> USE DEF BasicInv, TypeOK, Goto, LoggedPlaces
<1> DEFINE Stays == /\ pos' = pos /\ ~PrintRecord(d) /\ ~SkipDirectory(d) /\ ~LogFile(d)
<1>1. CASE Announce(d) \/ SignalFile(d)
  <2>1. Stays /\ pc[d] \notin LoggedPlaces /\ pc'[d] \notin LoggedPlaces
    BY <1>1 DEF Announce, SignalFile, Notify, Exit, PrintRecord, SkipDirectory, AtEntry, LogFile
  <2> QED BY <2>1
<1>2. CASE Open(d) \/ LoseFile(d) \/ End(d) \/ Finish(d) \/ EndOfDirectory(d) \/ StartFile(d)
             \/ Reap(d)
  <2>1. Stays
    BY <1>2 DEF Open, LoseFile, End, Finish, EndOfDirectory, StartFile, Reap, scanVars, Exit,
         PrintRecord, SkipDirectory, AtEntry, LogFile
  <2>2. pc[d] \notin LoggedPlaces /\ pc'[d] \notin LoggedPlaces
    BY <1>2 DEF Open, LoseFile, End, Finish, EndOfDirectory, StartFile, Reap, scanVars, Exit, AtEntry
  <2> QED BY <2>1, <2>2
<1>3. CASE RunCommand(d) \/ WaitCommand(d) \/ ReadOutput(d)
  <2>1. Stays
    BY <1>3 DEF RunCommand, WaitCommand, ReadOutput, PrintRecord, SkipDirectory, AtEntry, LogFile
  <2>2. pc[d] \in LoggedPlaces /\ pc'[d] \in LoggedPlaces \cup {"failed"}
    BY <1>3 DEF RunCommand, WaitCommand, ReadOutput, Exit
  <2> QED BY <2>1, <2>2
<1>4. CASE LogFile(d)
  BY <1>4 DEF LogFile, PrintRecord, SkipDirectory, AtEntry
<1>5. CASE PrintRecord(d)
  BY <1>5 DEF LogFile, PrintRecord, SkipDirectory, AtEntry, NextEntry
<1>6. CASE SkipDirectory(d)
  <2>1. pos' = [pos EXCEPT ![d] = @ + 1] /\ pc'[d] = "read" /\ pc[d] = "read"
    BY <1>6 DEF SkipDirectory, AtEntry, NextEntry
  <2>2. ~PrintRecord(d) /\ ~LogFile(d)
    BY <2>1 DEF LogFile, PrintRecord
  <2> QED BY <1>6, <2>1, <2>2
<1>7. CASE Die(d)
  <2>1. pos' = pos /\ pc'[d] = "killed" /\ pc[d] \notin LoggedPlaces
    BY <1>7 DEF Die, SigintBlocked, Masked, Protected
  <2> QED BY <2>1 DEF LogFile, PrintRecord, SkipDirectory, AtEntry
<1> QED BY <1>1, <1>2, <1>3, <1>4, <1>5, <1>6, <1>7 DEF Step

\* Every step keeps RecordInv.
LEMMA RecordsKept ==
  ASSUME BasicInv, TreeInv, RecordInv, NEW d \in Dirs, Step(d) \/ Die(d)
  PROVE  RecordInv'
<1> USE DEF BasicInv
<1>0. \A f \in Files : printed[f] \in Nat /\ printed'[f] \in Nat
  <2>1. TypeOK'
    BY StepTypes, SignalTypes
  <2> QED BY <2>1 DEF TypeOK
<1>1. Alive(d) /\ setting' = setting
  <2>1. CASE Fork(d)
    BY <2>1, NewChild DEF Fork, Alive, Over
  <2> QED BY <2>1, Moves
<1>2. ASSUME NEW e \in Dirs, e # d, Fork(d) => e # Entry(d)
      PROVE  pc'[e] = pc[e] /\ pos'[e] = pos[e] /\ buffer'[e] = buffer[e]
  BY <1>2, Elsewhere
<1>3. ASSUME Fork(d)
      PROVE  /\ pc'[Entry(d)] \in {"announce", "open"} /\ pos'[Entry(d)] = 1
             /\ buffer'[Entry(d)] = buffer[d] /\ Entry(d) \in Dirs \ {d}
  <2>1. Entry(d) \in Dirs \ {d} /\ pc[Entry(d)] = "none"
    BY <1>3, NewChild
  <2>2. pos[Entry(d)] = 1
    BY <2>1 DEF ScanInv
  <2> QED BY <1>3, <2>1, <2>2 DEF Fork, Goto, NextEntry, TypeOK
\* No record comes into a buffer but the one that d completes and, in a fork,
\* copies of those it holds.
<1>4. ASSUME NEW f \in Files, \A e \in Dirs : f \notin buffer[e], printed[f] = 0,
             ~(PrintRecord(d) /\ f = Entry(d))
      PROVE  printed'[f] = 0 /\ \A e \in Dirs : f \notin buffer'[e]
  <2>1. printed'[f] = 0 /\ f \notin buffer'[d]
    BY <1>4, RecordMoves
  <2>2. ASSUME NEW e \in Dirs, e # d
        PROVE  f \notin buffer'[e]
    BY <1>2, <1>3, <1>4, <2>2
  <2> QED BY <2>1, <2>2
<1>5. ASSUME NEW e \in Dirs, NEW i \in DOMAIN Contents[e], Contents[e][i] \in Files
      PROVE  RecordAt(e, i)'
  <2> DEFINE f == Contents[e][i]
  <2>1. /\ RecordAt(e, i) /\ i \in Nat /\ pos[e] \in Nat
        /\ f \in Files /\ f \notin Dirs /\ Parent[f] = e
    <3>1. RecordAt(e, i) /\ f \in Files /\ f \notin Dirs
      BY <1>5, ForensicAssumption DEF RecordInv
    <3> QED BY <3>1, EntryType, ParentOf
  <2>2. printed'[f] >= printed[f] /\ logged \subseteq logged'
    BY <2>1, RecordMoves
  <2>3. CASE e # d
    <3>1. PrintRecord(d) \/ LogFile(d) => Entry(d) # f
      <4>1. PrintRecord(d) \/ LogFile(d) => pos[d] <= Len(Contents[d])
        BY DEF PrintRecord, LogFile, ScanInv, Protected
      <4> QED BY <2>1, <2>3, <4>1, EntryType
    <3>2. logged' = logged \/ logged' = logged \cup {Entry(d)}
      BY RecordMoves
    <3>3. f \in logged' => f \in logged
      BY <3>1, RecordMoves
    <3>4. CASE Fork(d) /\ e = Entry(d)
      <4>1. pos'[e] = 1 /\ pos[e] = 1 /\ pc[e] = "none"
        BY <1>3, <3>4, NewChild DEF ScanInv
      <4>2. i >= pos'[e] /\ ~(i < pos'[e]) /\ i >= pos[e]
        BY <1>5, <4>1, EntryType
      <4>3. f \notin logged
        BY <2>1, <4>1, <4>2 DEF RecordAt, LoggedPlaces
      <4>4. printed'[f] = 0 /\ \A g \in Dirs : f \notin buffer'[g]
        BY <1>4, <2>1, <3>1, <4>2 DEF RecordAt
      <4> QED BY <3>3, <4>2, <4>3, <4>4 DEF RecordAt
    <3>5. CASE ~(Fork(d) /\ e = Entry(d))
      <4>1. pc'[e] = pc[e] /\ pos'[e] = pos[e] /\ buffer'[e] = buffer[e]
        BY <1>2, <2>3, <3>5
      <4>2. i >= pos[e] => printed'[f] = 0 /\ \A g \in Dirs : f \notin buffer'[g]
        BY <1>4, <2>1, <3>1 DEF RecordAt
      <4>3. printed[f] > 0 => printed'[f] > 0
        BY <1>0, <2>1, <2>2
      <4> QED BY <1>1, <2>1, <2>2, <3>3, <4>1, <4>2, <4>3 DEF RecordAt
    <3> QED BY <3>4, <3>5
  <2>4. CASE e = d
    <3>1. PrintRecord(d) \/ LogFile(d) => (f = Entry(d) <=> i = pos[d])
      <4>1. PrintRecord(d) \/ LogFile(d) => pos[d] \in DOMAIN Contents[d]
        BY EntryType DEF PrintRecord, LogFile, ScanInv, Protected
      <4> QED BY <1>5, <2>4, <4>1, ParentOf DEF Entry
    <3>2. CASE Fork(d)
      <4>0. pc[d] = "read" /\ Entry(d) \in Dirs /\ Entry(d) # d
        BY <3>2, NewChild
      <4>1. /\ pc'[d] = "read" /\ pc[d] = "read" /\ pos'[d] = pos[d] + 1 /\ logged' = logged
            /\ Entry(d) \in Dirs /\ buffer'[d] = buffer[d] /\ printed' = printed
        BY <3>2, <4>0 DEF Fork, Goto, NextEntry, TypeOK
      <4>2. i # pos[d]
        BY <2>1, <2>4, <4>1 DEF Entry
      <4>3. i < pos'[d] <=> i < pos[d]
        BY <2>1, <2>4, <4>1, <4>2
      <4>4. i >= pos'[d] => i >= pos[d]
        BY <2>1, <2>4, <4>1
      <4>5. i >= pos'[d] => printed'[f] = 0 /\ \A g \in Dirs : f \notin buffer'[g]
        BY <1>4, <2>1, <2>4, <4>1, <4>4 DEF RecordAt
      <4> QED BY <1>1, <2>1, <2>4, <4>1, <4>2, <4>3, <4>5 DEF RecordAt, LoggedPlaces
    <3>3. CASE ~Fork(d)
      <4>1. /\ f \in buffer[d] => printed'[f] > 0 \/ f \in buffer'[d] \/ Die(d)
            /\ logged' = IF LogFile(d) THEN logged \cup {Entry(d)} ELSE logged
            /\ Die(d) => pc'[d] = "killed" /\ ~Masked(d)
            /\ PrintRecord(d) => printed'[Entry(d)] > 0 \/ Entry(d) \in buffer'[d]
        BY <2>1, RecordMoves
      <4>2. i >= pos[d] /\ ~(PrintRecord(d) /\ i = pos[d])
              => printed'[f] = 0 /\ \A g \in Dirs : f \notin buffer'[g]
        BY <1>4, <2>1, <2>4, <3>1 DEF RecordAt
      <4>3. i < pos[d] => /\ f \in logged'
                          /\ \/ printed'[f] > 0 \/ f \in buffer'[d]
                             \/ pc'[d] = "killed" /\ ~setting.lineBuffered
        <5>1. i < pos[d] => f \in logged /\ (printed[f] > 0 \/ f \in buffer[d])
          BY <1>1, <2>1, <2>4 DEF RecordAt, Alive, Over
        <5>2. printed[f] > 0 => printed'[f] > 0
          BY <1>0, <2>1, <2>2
        <5>3. f \in buffer[d] => ~setting.lineBuffered
          BY DEF RecordInv
        <5> QED BY <2>2, <4>1, <5>1, <5>2, <5>3
      <4>4. CASE pos' = pos /\ ~PrintRecord(d)
        <5>1. i < pos'[d] => /\ f \in logged'
                             /\ \/ printed'[f] > 0 \/ f \in buffer'[d]
                                \/ pc'[d] = "killed" /\ ~setting'.lineBuffered
          BY <1>1, <4>3, <4>4
        <5>2. i >= pos'[d] => printed'[f] = 0 /\ \A g \in Dirs : f \notin buffer'[g]
          BY <4>2, <4>4
        <5>3. f \in logged' => i < pos'[d] \/ (i = pos'[d] /\ pc'[d] \in LoggedPlaces \cup {"failed"})
          <6>1. CASE f \in logged
            <7>1. i < pos[d] \/ (i = pos[d] /\ pc[d] \in LoggedPlaces)
              BY <1>1, <2>1, <2>4, <6>1 DEF RecordAt, Alive, Over
            <7> QED BY <3>3, <4>4, <7>1, PlaceMoves
          <6>2. CASE f \in logged' /\ f \notin logged
            BY <3>1, <3>3, <4>1, <4>4, <6>2, PlaceMoves DEF LoggedPlaces
          <6> QED BY <6>1, <6>2
        <5> QED BY <2>4, <5>1, <5>2, <5>3 DEF RecordAt
      <4>5. CASE pos'[d] = pos[d] + 1 /\ PrintRecord(d) /\ ~LogFile(d)
        <5>1. i < pos'[d] <=> i < pos[d] \/ i = pos[d]
          BY <2>1, <2>4, <4>5
        <5>2. i = pos[d] => f \in logged' /\ (printed'[f] > 0 \/ f \in buffer'[d])
          BY <2>2, <3>1, <3>3, <4>1, <4>5, PlaceMoves DEF RecordInv, LoggedPlaces
        <5>3. i >= pos'[d] => i >= pos[d] /\ i # pos[d]
          BY <2>1, <2>4, <4>5
        <5>4. f \in logged' => i < pos'[d]
          BY <2>1, <2>4, <4>1, <4>5, <5>1 DEF RecordAt
        <5> QED BY <1>1, <2>4, <4>2, <4>3, <5>1, <5>2, <5>3, <5>4 DEF RecordAt
      <4>6. CASE pos'[d] = pos[d] + 1 /\ SkipDirectory(d) /\ Entry(d) \in Dirs /\ ~PrintRecord(d)
                 /\ ~LogFile(d) /\ pc[d] = "read"
        <5>1. i # pos[d]
          BY <2>1, <2>4, <4>6 DEF Entry
        <5>2. (i < pos'[d] <=> i < pos[d]) /\ (i >= pos'[d] => i >= pos[d])
          BY <2>1, <2>4, <4>6, <5>1
        <5>3. f \in logged' => i < pos'[d]
          BY <2>1, <2>4, <4>1, <4>6, <5>1, <5>2 DEF RecordAt
        <5> QED BY <1>1, <2>4, <4>2, <4>3, <4>6, <5>2, <5>3 DEF RecordAt
      <4>7. PrintRecord(d) \/ SkipDirectory(d) => pos'[d] = pos[d] + 1
        BY <3>3, PlaceMoves DEF TypeOK
      <4>8. CASE PrintRecord(d)
        <5>1. ~LogFile(d)
          BY <4>8 DEF PrintRecord, LogFile
        <5> QED BY <4>5, <4>7, <4>8, <5>1
      <4>9. CASE SkipDirectory(d)
        <5>1. ~LogFile(d) /\ ~PrintRecord(d) /\ Entry(d) \in Dirs /\ pc[d] = "read"
          BY <4>9 DEF PrintRecord, LogFile, SkipDirectory, AtEntry
        <5> QED BY <4>6, <4>7, <4>9, <5>1
      <4> QED BY <3>3, <4>4, <4>8, <4>9, PlaceMoves
    <3> QED BY <3>2, <3>3
  <2> QED BY <2>3, <2>4
<1>6. ASSUME NEW e \in Dirs, pc'[e] \in LoggedPlaces
      PROVE  Entry(e)' \in logged'
  <2>1. logged \subseteq logged' /\ (LogFile(d) => Entry(d) \in logged')
    BY RecordMoves
  <2>2. CASE e = d /\ ~Fork(d)
    BY <1>6, <2>1, <2>2, PlaceMoves DEF RecordInv, Entry
  <2>3. CASE e # d /\ ~(Fork(d) /\ e = Entry(d))
    BY <1>2, <1>6, <2>1, <2>3 DEF RecordInv, Entry
  <2>4. Fork(d) => pc'[d] = "read" /\ pc'[Entry(d)] \in {"announce", "open"}
    <3>1. ASSUME Fork(d)
          PROVE  pc'[d] = pc[d]
      BY <1>3, <3>1 DEF Fork, Goto, TypeOK
    <3> QED BY <1>3, <3>1, NewChild
  <2> QED BY <1>6, <2>2, <2>3, <2>4 DEF LoggedPlaces
<1>7. ASSUME NEW e \in Dirs, buffer'[e] # {}
      PROVE  Alive(e)' /\ ~setting'.lineBuffered
  <2>1. CASE e = d
    BY <1>1, <1>7, <2>1, RecordMoves DEF RecordInv, Alive
  <2>2. CASE e # d /\ ~(Fork(d) /\ e = Entry(d))
    BY <1>1, <1>2, <1>7, <2>2 DEF RecordInv, Alive
  <2>3. CASE Fork(d) /\ e = Entry(d)
    BY <1>1, <1>3, <1>7, <2>3 DEF RecordInv, Alive, Over
  <2> QED BY <2>1, <2>2, <2>3
<1> QED BY <1>5, <1>6, <1>7 DEF RecordInv

\* So does what the records add to it.
LEMMA RecordHolds == Spec => [](BasicInv /\ TreeInv /\ RecordInv)
<1>1. Init => RecordInv
  <2> SUFFICES ASSUME Init
               PROVE  RecordInv
    OBVIOUS
  <2>1. \A d \in Dirs : \A i \in DOMAIN Contents[d] : i >= pos[d] /\ ~(i < pos[d])
    BY BasicAtStart, EntryType DEF BasicInv, Init
  <2>2. \A d \in Dirs : \A i \in DOMAIN Contents[d] : Contents[d][i] \in Files => RecordAt(d, i)
    BY <2>1 DEF Init, RecordAt
  <2> QED BY <2>2 DEF Init, RecordInv, LoggedPlaces
<1>2. BasicInv /\ TreeInv /\ RecordInv /\ [Next]_vars => RecordInv'
  <2> SUFFICES ASSUME BasicInv, TreeInv, RecordInv, [Next]_vars
               PROVE  RecordInv'
    OBVIOUS
  <2>1. CASE \E d \in Dirs : Step(d) \/ Die(d)
    BY <2>1, RecordsKept
  <2>2. CASE (\E d \in Dirs : CommandEnds(d)) \/ Handle \/ Interrupt
    <3>1. UNCHANGED <<setting, pc, pos, buffer, printed, logged>>
      BY <2>2, SignalsElsewhere
    <3> QED BY <3>1 DEF RecordInv, RecordAt, Entry, Alive
  <2>3. CASE UNCHANGED vars
    BY <2>3 DEF RecordInv, RecordAt, Entry, Alive, vars, scanVars, recordVars
  <2> QED BY <2>1, <2>2, <2>3 DEF Next
<1> QED BY <1>1, <1>2, BasicHolds, BasicAtStart, BasicKept, PTL DEF Spec

\* A record that was logged is never forgotten: it is written, or being worked
\* on where Ctrl+C cannot interrupt, or its process failed at that file; only
\* what stdio holds back dies with a process (blockSigint in readDirectory).
THEOREM RecordsStayAccounted == Spec => []RecordsAccounted
<1>1. BasicInv /\ RecordInv => RecordsAccounted
  <2> SUFFICES ASSUME BasicInv, RecordInv, NEW f \in logged
               PROVE  \/ printed[f] > 0
                      \/ AtFile(f) /\ pc[Parent[f]] \in Protected \cup {"failed"}
                      \/ /\ ~setting.lineBuffered
                         /\ \/ \E d \in Dirs : Alive(d) /\ f \in buffer[d]
                            \/ pc[Parent[f]] = "killed"
    BY DEF RecordsAccounted
  <2>1. f \in Files /\ f \in Entries \ {Root}
    BY ForensicAssumption DEF BasicInv, TypeOK, Entries
  <2>2. PICK i \in DOMAIN Contents[Parent[f]] : Contents[Parent[f]][i] = f
    BY <2>1, PlaceOf
  <2>3. Parent[f] \in Dirs /\ RecordAt(Parent[f], i)
    BY <2>1, <2>2, PlaceOf DEF RecordInv
  <2>4. CASE i < pos[Parent[f]]
    BY <2>2, <2>3, <2>4 DEF RecordAt, RecordInv
  <2>5. CASE i = pos[Parent[f]] /\ pc[Parent[f]] \in LoggedPlaces \cup {"failed"}
    <3>1. AtFile(f)
      BY <2>2, <2>3, <2>5, EntryType DEF BasicInv, AtFile, Entry
    <3> QED BY <2>5, <3>1 DEF LoggedPlaces, Protected
  <2> QED BY <2>2, <2>3, <2>4, <2>5 DEF RecordAt
<1> QED BY <1>1, RecordHolds, PTL

-----------------------------------------------------------------------------
(* Induction along the tree.                                               *)

\* A set that holds the first directory, and every directory whose parent it
\* holds, holds them all.
LEMMA TreeInduction ==
  ASSUME NEW S, Root \in S, \A d \in Dirs \ {Root} : Parent[d] \in S => d \in S
  PROVE  Dirs \subseteq S
<1>1. PICK depth \in [Dirs -> 0 .. Cardinality(Dirs)] :
        \A c \in Dirs : \A e \in Range(Contents[c]) \cap Dirs : depth[c] < depth[e]
  BY ForensicAssumption
<1>2. \A d \in Dirs : depth[d] \in Nat
  <2>1. Cardinality(Dirs) \in Nat
    BY ForensicAssumption, FS_Subset, FS_CardinalityType DEF Entries
  <2> QED BY <1>1, <2>1
<1>3. \A d \in Dirs \ {Root} : Parent[d] \in Dirs /\ depth[Parent[d]] < depth[d]
  BY <1>1, PlaceOf DEF Entries, Range
<1> SUFFICES ASSUME NEW b \in Dirs, b \notin S
             PROVE  FALSE
  OBVIOUS
<1> DEFINE Missed == {depth[d] : d \in {c \in Dirs : c \notin S}}
<1>4. Missed \subseteq Nat /\ Missed # {}
  BY <1>2
<1> HIDE DEF Missed
<1>5. PICK least \in Missed : \A n \in Missed : least <= n
  BY <1>4, HasLeast
<1>6. PICK d \in Dirs : d \notin S /\ depth[d] = least
  BY <1>5 DEF Missed
<1>7. d # Root /\ Parent[d] \notin S
  BY <1>6
<1>8. depth[Parent[d]] \in Missed
  BY <1>3, <1>6, <1>7 DEF Missed
<1>9. least <= depth[Parent[d]] /\ depth[Parent[d]] < least /\ least \in Nat
  BY <1>2, <1>3, <1>5, <1>6, <1>7, <1>8
<1> QED BY <1>2, <1>3, <1>6, <1>7, <1>9

\* What Above is: the recursion has a solution, the least set of directories
\* that holds d and the parents of all it holds.
LEMMA AboveIs ==
  /\ Above[Root] = {Root}
  /\ \A d \in Dirs \ {Root} : Above[d] = {d} \cup Above[Parent[d]]
<1> DEFINE Closed(S) == \A e \in S \ {Root} : Parent[e] \in S
           Up(d) == {a \in Dirs : \A S \in SUBSET Dirs : d \in S /\ Closed(S) => a \in S}
           F == [d \in Dirs |-> Up(d)]
<1>1. Up(Root) = {Root} /\ Root \in Dirs
  <2>1. {Root} \in SUBSET Dirs /\ Closed({Root})
    BY ForensicAssumption
  <2> QED BY <2>1
<1>2. ASSUME NEW d \in Dirs \ {Root}
      PROVE  Up(d) = {d} \cup Up(Parent[d]) /\ Parent[d] \in Dirs
  <2>1. Parent[d] \in Dirs
    BY PlaceOf DEF Entries
  <2>2. ASSUME NEW a \in Up(d), a # d
        PROVE  a \in Up(Parent[d])
    <3>1. ASSUME NEW S \in SUBSET Dirs, Parent[d] \in S, Closed(S)
          PROVE  a \in S
      <4>1. S \cup {d} \in SUBSET Dirs /\ Closed(S \cup {d})
        BY <3>1
      <4> QED BY <2>2, <4>1
    <3> QED BY <2>2, <3>1
  <2>3. ASSUME NEW a \in Up(Parent[d])
        PROVE  a \in Up(d)
    BY <2>3
  <2>4. d \in Up(d)
    OBVIOUS
  <2> QED BY <2>1, <2>2, <2>3, <2>4
<1> HIDE DEF Up
<1>3. F = [d \in Dirs |-> IF d = Root THEN {Root} ELSE {d} \cup F[Parent[d]]]
  BY <1>1, <1>2
<1> HIDE DEF F
<1>4. Above = [d \in Dirs |-> IF d = Root THEN {Root} ELSE {d} \cup Above[Parent[d]]]
  BY <1>3 DEF Above
<1> QED BY <1>1, <1>4

\* Who is above a directory that is in another.
LEMMA ParentAbove ==
  ASSUME NEW d \in Dirs \ {Root}
  PROVE  Parent[d] \in Dirs /\ Parent[d] \in Above[d] /\ Parent[d] # d
<1>1. Parent[d] \in Dirs
  BY PlaceOf DEF Entries
<1>2. Parent[d] \in Above[Parent[d]]
  BY <1>1, AboveIs
<1> QED BY <1>1, <1>2, AboveIs, ParentIsOther

-----------------------------------------------------------------------------
(* The process that reports.                                               *)

\* It waited for all it started: every process whose forebears all ended well is
\* over, and if none failed or was killed every file the options reach has its
\* record written or in the buffer of the first process (waitChilds in main).
THEOREM FinishedIsAlwaysComplete == Spec => []FinishedIsComplete
<1>1. BasicInv /\ TreeInv /\ RecordInv => FinishedIsComplete
  <2> SUFFICES ASSUME BasicInv, TreeInv, RecordInv, pc[Root] \in {"exit", "ended"}
               PROVE  /\ \A d \in Dirs :
                           (\A a \in Above[d] \ {d, Root} : pc[a] = "ended") /\ Alive(d) => d = Root
                      /\ (\A d \in Dirs : pc[d] \notin {"failed", "killed"}) =>
                           \A f \in Files : setting.r \/ Parent[f] = Root =>
                             f \in logged /\ (printed[f] > 0 \/ f \in buffer[Root])
    BY DEF FinishedIsComplete
  <2>1. ASSUME NEW d \in Dirs \ {Root}, pc[Parent[d]] \in {"exit", "ended"}
        PROVE  pc[d] \in Over \cup {"none"}
    BY <2>1 DEF TreeInv
  <2>2. ASSUME NEW d \in Dirs, \A a \in Above[d] \ {d, Root} : pc[a] = "ended", Alive(d)
        PROVE  d = Root
    <3>1. d # Root => pc[Parent[d]] \in {"exit", "ended"}
      BY <2>2, ParentAbove
    <3> QED BY <2>1, <2>2, <3>1 DEF Alive
  <2>3. ASSUME \A d \in Dirs : pc[d] \notin {"failed", "killed"},
               NEW f \in Files, setting.r \/ Parent[f] = Root
        PROVE  f \in logged /\ (printed[f] > 0 \/ f \in buffer[Root])
    <3> DEFINE Done == {d \in Dirs : pc[d] = "ended"} \cup {Root}
    <3>1. Parent[f] \in Done
      <4>1. CASE setting.r
        <5>1. ASSUME NEW d \in Dirs \ {Root}, Parent[d] \in Done
              PROVE  d \in Done
          <6>1. Parent[d] \in Dirs /\ pc[Parent[d]] \in {"exit", "ended"}
            BY <5>1, ForensicAssumption
          <6>2. PICK i \in DOMAIN Contents[Parent[d]] : Contents[Parent[d]][i] = d
            BY PlaceOf DEF Entries
          <6>3. i < pos[Parent[d]]
            BY <6>1, <6>2, EntryType DEF BasicInv, ScanInv
          <6>4. pc[d] # "none"
            BY <4>1, <6>1, <6>2, <6>3 DEF TreeInv
          <6> QED BY <2>1, <2>3, <6>1, <6>4 DEF Over
        <5>2. Dirs \subseteq Done
          BY <5>1, TreeInduction
        <5> QED BY <5>2, PlaceOf, ForensicAssumption DEF Entries
      <4> QED BY <2>3, <4>1
    <3>2. Parent[f] \in Dirs /\ pc[Parent[f]] \in {"exit", "ended"}
      BY <3>1, ForensicAssumption
    <3>3. PICK i \in DOMAIN Contents[Parent[f]] : Contents[Parent[f]][i] = f
      BY PlaceOf, ForensicAssumption DEF Entries
    <3>4. i < pos[Parent[f]]
      BY <3>2, <3>3, EntryType DEF BasicInv, ScanInv
    <3>5. f \in logged /\ (printed[f] > 0 \/ f \in buffer[Parent[f]])
      BY <2>3, <3>2, <3>3, <3>4 DEF RecordInv, RecordAt
    <3>6. f \in buffer[Parent[f]] => Parent[f] = Root
      BY <3>1, <3>2 DEF RecordInv, Alive, Over
    <3> QED BY <3>5, <3>6
  <2> QED BY <2>2, <2>3
<1> QED BY <1>1, RecordHolds, PTL

-----------------------------------------------------------------------------
(* Copies of a record.                                                     *)

\* The processes that have a record in their buffer, and those of its heirs
\* that were started.
Holders(f) == {d \in Dirs : f \in buffer[d]}
Born(f)    == {e \in Heirs(f) : pc[e] # "none"}

\* A record is held by the process that made it and by heirs, and there are no
\* more copies of it, written and held, than one for it and one for each heir.
CopyInv ==
  \A f \in Files :
    /\ Holders(f) \subseteq {Parent[f]} \cup Heirs(f)
    /\ printed[f] + Cardinality(Holders(f)) <= 1 + Cardinality(Born(f))

\* What a step does to the copies of one record: nothing, or it writes or loses
\* the one its process held, or it is the one that completes the record.
LEMMA CopyMoves ==
  ASSUME BasicInv, TreeInv, NEW d \in Dirs, Step(d) \/ Die(d), NEW f \in Files
  PROVE  \/ printed'[f] = printed[f] /\ (f \in buffer'[d] <=> f \in buffer[d])
         \/ printed'[f] <= printed[f] + 1 /\ f \in buffer[d] /\ f \notin buffer'[d]
         \/ /\ PrintRecord(d) /\ f = Entry(d)
            /\ \/ printed'[f] = printed[f] + 1 /\ f \notin buffer'[d]
               \/ printed'[f] = printed[f]
<1> USE DEF BasicInv
<1>0. printed[f] \in Nat
  BY DEF TypeOK
<1>1. CASE Announce(d) \/ SignalFile(d) \/ Open(d) \/ LoseFile(d) \/ RunCommand(d) \/ End(d)
  <2>1. (\E place \in {"failed", "ended"} : Exit(d, place)) \/ UNCHANGED recordVars
    BY <1>1 DEF Announce, SignalFile, Notify, Open, LoseFile, RunCommand, End
  <2>2. CASE \E place \in {"failed", "ended"} : Exit(d, place)
    <3>1. {"failed", "ended"} \subseteq Places
      BY DEF Places, Over
    <3>2. buffer'[d] = {} /\ printed'[f] = IF f \in buffer[d] THEN printed[f] + 1 ELSE printed[f]
      BY <2>2, <3>1, ExitDoes
    <3> QED BY <1>0, <3>2
  <2>3. CASE UNCHANGED recordVars
    BY <2>3 DEF recordVars
  <2> QED BY <2>1, <2>2, <2>3
<1>2. CASE SkipDirectory(d) \/ StartFile(d) \/ EndOfDirectory(d) \/ WaitCommand(d) \/ ReadOutput(d)
             \/ Reap(d) \/ Finish(d) \/ LogFile(d)
  BY <1>2 DEF SkipDirectory, StartFile, EndOfDirectory, WaitCommand, ReadOutput, Reap, Finish, LogFile,
     recordVars
<1>3. CASE PrintRecord(d)
  <2>1. CASE EndOfLine(d)
    <3>1. buffer'[d] = {} /\ printed'[f] = IF f \in buffer[d] \cup {Entry(d)} THEN printed[f] + 1
                                                                           ELSE printed[f]
      BY <2>1 DEF EndOfLine, WriteRecords, TypeOK
    <3> QED BY <1>0, <1>3, <3>1
  <2>2. CASE buffer' = [buffer EXCEPT ![d] = @ \cup {Entry(d)}] /\ UNCHANGED printed
    <3>1. buffer'[d] = buffer[d] \cup {Entry(d)}
      BY <2>2 DEF TypeOK
    <3> QED BY <1>3, <2>2, <3>1
  <2> QED BY <1>3, <2>1, <2>2 DEF PrintRecord
<1>4. CASE Fork(d)
  <2>1. printed' = printed /\ buffer'[d] = buffer[d]
    BY <1>4, NewChild DEF Fork, TypeOK
  <2> QED BY <2>1
<1>5. CASE Die(d)
  <2>1. printed' = printed /\ buffer'[d] = {}
    BY <1>5 DEF Die, TypeOK
  <2> QED BY <1>0, <2>1
<1> QED BY <1>1, <1>2, <1>3, <1>4, <1>5 DEF Step

\* Who is forked by a process that holds a record is one of its heirs.
LEMMA ChildIsHeir ==
  ASSUME BasicInv, TreeInv, RecordInv, CopyInv, NEW d \in Dirs, Fork(d),
         NEW f \in Files, f \in buffer[d]
  PROVE  Entry(d) \in Heirs(f)
<1> DEFINE p == Parent[f]
           later == {Contents[p][i] : i \in {j \in DOMAIN Contents[p] :
                       \E k \in 1 .. j - 1 : Contents[p][k] = f}}
           c == Entry(d)
<1>1. /\ pos[d] \in DOMAIN Contents[d] /\ c = Contents[d][pos[d]] /\ c \in Dirs \ {Root}
      /\ Parent[c] = d /\ setting.r /\ ~setting.lineBuffered
  BY NewChild DEF RecordInv
<1>2. Heirs(f) = {e \in Dirs : Above[e] \cap later # {}}
  BY <1>1 DEF Heirs
<1>3. Above[c] = {c} \cup Above[d]
  BY <1>1, AboveIs
<1>4. d = p \/ d \in Heirs(f)
  BY DEF CopyInv, Holders
<1>5. CASE d = p
  <2>1. PICK k \in DOMAIN Contents[d] : Contents[d][k] = f
    BY <1>5, PlaceOf, ForensicAssumption DEF Entries
  <2>2. k \in Nat /\ k >= 1 /\ pos[d] \in Nat
    BY EntryType DEF BasicInv
  <2>3. k < pos[d]
    BY <2>1, <2>2 DEF RecordInv, RecordAt
  <2>4. k \in 1 .. pos[d] - 1
    BY <2>2, <2>3
  <2>5. c \in later
    BY <1>1, <1>5, <2>1, <2>4
  <2> QED BY <1>1, <1>2, <1>3, <2>5
<1>6. CASE d \in Heirs(f)
  BY <1>1, <1>2, <1>3, <1>6
<1> QED BY <1>4, <1>5, <1>6

\* Every step keeps CopyInv.
LEMMA CopiesKept ==
  ASSUME BasicInv, TreeInv, RecordInv, CopyInv, NEW d \in Dirs, Step(d) \/ Die(d)
  PROVE  CopyInv'
<1> SUFFICES ASSUME NEW f \in Files
             PROVE  /\ Holders(f)' \subseteq {Parent[f]} \cup Heirs(f)'
                    /\ printed'[f] + Cardinality(Holders(f)') <= 1 + Cardinality(Born(f)')
  BY DEF CopyInv
<1> USE DEF BasicInv
<1>1. /\ Holders(f) \subseteq {Parent[f]} \cup Heirs(f)
      /\ printed[f] + Cardinality(Holders(f)) <= 1 + Cardinality(Born(f))
  BY DEF CopyInv
<1>2. setting' = setting /\ \A e \in Dirs : pc[e] # "none" => pc'[e] # "none"
  <2>1. CASE Fork(d)
    BY <2>1 DEF Fork, Goto, TypeOK
  <2>2. CASE ~Fork(d)
    BY <2>2, Moves, Elsewhere
  <2> QED BY <2>1, <2>2
<1>3. Heirs(f)' = Heirs(f) /\ Heirs(f) \subseteq Dirs
  BY <1>2 DEF Heirs
<1>4. Born(f) \subseteq Born(f)' /\ Born(f)' \subseteq Dirs /\ Holders(f) \subseteq Dirs
      /\ Holders(f)' \subseteq Dirs
  BY <1>2, <1>3 DEF Born, Holders
<1>5. /\ IsFiniteSet(Holders(f)) /\ IsFiniteSet(Holders(f)') /\ IsFiniteSet(Born(f))
      /\ IsFiniteSet(Born(f)')
  <2>1. IsFiniteSet(Dirs)
    BY ForensicAssumption, FS_Subset DEF Entries
  <2> QED BY <1>4, <2>1, FS_Subset
<1>6. /\ Cardinality(Holders(f)) \in Nat /\ Cardinality(Holders(f)') \in Nat
      /\ Cardinality(Born(f)) \in Nat /\ Cardinality(Born(f)') \in Nat
      /\ Cardinality(Born(f)) <= Cardinality(Born(f)')
  BY <1>4, <1>5, FS_CardinalityType, FS_Subset
<1>7. printed[f] \in Nat /\ printed'[f] \in Nat
  <2>1. TypeOK'
    BY StepTypes, SignalTypes
  <2> QED BY <2>1 DEF TypeOK
<1>8. CASE Fork(d)
  <2> DEFINE c == Entry(d)
  <2>1. c \in Dirs \ {d} /\ pc[c] = "none"
    BY <1>8, NewChild
  <2>2. printed' = printed /\ \A e \in Dirs \ {c} : buffer'[e] = buffer[e] /\ pc'[e] = pc[e]
    BY <1>8 DEF Fork, Goto, TypeOK
  <2>3. buffer'[c] = buffer[d] /\ buffer[c] = {} /\ pc'[c] # "none"
    BY <1>8, <2>1 DEF Fork, Goto, TypeOK, RecordInv, Alive
  <2>4. CASE f \in buffer[d]
    <3>1. c \in Heirs(f)
      BY <1>8, <2>4, ChildIsHeir
    <3>2. Holders(f)' = Holders(f) \cup {c} /\ c \notin Holders(f)
      BY <2>1, <2>2, <2>3, <2>4 DEF Holders
    <3>3. Born(f)' = Born(f) \cup {c} /\ c \notin Born(f)
      BY <1>3, <2>1, <2>2, <2>3, <3>1 DEF Born
    <3>4. /\ Cardinality(Holders(f)') = Cardinality(Holders(f)) + 1
          /\ Cardinality(Born(f)') = Cardinality(Born(f)) + 1
      BY <1>5, <3>2, <3>3, FS_AddElement
    <3> QED BY <1>1, <1>3, <1>6, <1>7, <2>2, <3>1, <3>2, <3>4
  <2>5. CASE f \notin buffer[d]
    <3>1. Holders(f)' = Holders(f)
      BY <2>1, <2>2, <2>3, <2>5 DEF Holders
    <3> QED BY <1>1, <1>3, <1>6, <1>7, <2>2, <3>1
  <2> QED BY <2>4, <2>5
<1>9. CASE ~Fork(d)
  <2>1. \A e \in Dirs \ {d} : buffer'[e] = buffer[e]
    BY <1>9, Elsewhere
  <2>2. CASE printed'[f] = printed[f] /\ (f \in buffer'[d] <=> f \in buffer[d])
    <3>1. Holders(f)' = Holders(f)
      BY <2>1, <2>2 DEF Holders
    <3> QED BY <1>1, <1>3, <1>6, <1>7, <2>2, <3>1
  <2>3. CASE printed'[f] <= printed[f] + 1 /\ f \in buffer[d] /\ f \notin buffer'[d]
    <3>1. Holders(f)' = Holders(f) \ {d} /\ d \in Holders(f)
      BY <2>1, <2>3 DEF Holders
    <3>2. Cardinality(Holders(f)') = Cardinality(Holders(f)) - 1
      BY <1>5, <3>1, FS_RemoveElement
    <3> QED BY <1>1, <1>3, <1>6, <1>7, <2>3, <3>1, <3>2
  <2>4. CASE /\ PrintRecord(d) /\ f = Entry(d)
             /\ \/ printed'[f] = printed[f] + 1 /\ f \notin buffer'[d]
                \/ printed'[f] = printed[f]
    <3>1. pos[d] \in DOMAIN Contents[d] /\ Contents[d][pos[d]] = f /\ Parent[f] = d
          /\ pos[d] >= pos[d]
      BY <2>4, EntryType DEF PrintRecord, ScanInv, Protected, Entry
    <3>2. printed[f] = 0 /\ \A e \in Dirs : f \notin buffer[e]
      BY <3>1 DEF RecordInv, RecordAt
    <3>3. CASE printed'[f] = 1 /\ f \notin buffer'[d]
      <4>1. Holders(f)' = {}
        BY <2>1, <3>2, <3>3 DEF Holders
      <4> QED BY <1>6, <3>3, <4>1, FS_EmptySet
    <3>4. CASE printed'[f] = 0
      <4>1. Holders(f)' \subseteq {d}
        BY <2>1, <3>2 DEF Holders
      <4>2. Cardinality(Holders(f)') <= Cardinality({d}) /\ Cardinality({d}) = 1
        BY <4>1, FS_Singleton, FS_Subset
      <4> QED BY <1>6, <3>1, <3>4, <4>1, <4>2
    <3> QED BY <2>4, <3>2, <3>3, <3>4
  <2> QED BY <2>2, <2>3, <2>4, CopyMoves
<1> QED BY <1>8, <1>9

\* However the processes that share a buffer end, nothing is written that was
\* not logged, and a record at most once for itself and once for each process
\* started below its directory after it was printed; on a terminal just once.
THEOREM CopiesStayBounded == Spec => []CopiesBounded
<1>1. Init => CopyInv
  <2> SUFFICES ASSUME Init, NEW f \in Files
               PROVE  /\ Holders(f) \subseteq {Parent[f]} \cup Heirs(f)
                      /\ printed[f] + Cardinality(Holders(f)) <= 1 + Cardinality(Born(f))
    BY DEF CopyInv
  <2>1. Holders(f) = {} /\ printed[f] = 0
    BY DEF Init, Holders
  <2>2. Born(f) \subseteq Dirs
    BY DEF Born, Heirs
  <2>3. Cardinality(Born(f)) \in Nat
    BY <2>2, ForensicAssumption, FS_Subset, FS_CardinalityType DEF Entries
  <2> QED BY <2>1, <2>3, FS_EmptySet
<1>2. BasicInv /\ TreeInv /\ RecordInv /\ CopyInv /\ [Next]_vars => CopyInv'
  <2> SUFFICES ASSUME BasicInv, TreeInv, RecordInv, CopyInv, [Next]_vars
               PROVE  CopyInv'
    OBVIOUS
  <2>1. CASE \E d \in Dirs : Step(d) \/ Die(d)
    BY <2>1, CopiesKept
  <2>2. CASE (\E d \in Dirs : CommandEnds(d)) \/ Handle \/ Interrupt
    <3>1. UNCHANGED <<setting, pc, buffer, printed>>
      BY <2>2, SignalsElsewhere
    <3> QED BY <3>1 DEF CopyInv, Holders, Born, Heirs
  <2>3. CASE UNCHANGED vars
    BY <2>3 DEF CopyInv, Holders, Born, Heirs, vars, scanVars, recordVars
  <2> QED BY <2>1, <2>2, <2>3 DEF Next
<1>3. BasicInv /\ RecordInv /\ CopyInv => CopiesBounded
  <2> SUFFICES ASSUME BasicInv, RecordInv, CopyInv, NEW f \in Files
               PROVE  /\ printed[f] > 0 => f \in logged
                      /\ printed[f] <= 1 + Cardinality(Heirs(f))
    BY DEF CopiesBounded
  <2>1. printed[f] > 0 => f \in logged
    <3>1. Parent[f] \in Dirs
      BY PlaceOf, ForensicAssumption DEF Entries
    <3>2. PICK i \in DOMAIN Contents[Parent[f]] : Contents[Parent[f]][i] = f
      BY PlaceOf, ForensicAssumption DEF Entries
    <3>3. i >= pos[Parent[f]] \/ i < pos[Parent[f]]
      BY <3>1, <3>2, EntryType DEF BasicInv
    <3> QED BY <3>1, <3>2, <3>3 DEF RecordInv, RecordAt
  <2>2. Holders(f) \subseteq Dirs /\ Born(f) \subseteq Heirs(f) /\ Heirs(f) \subseteq Dirs
    BY DEF Holders, Born, Heirs
  <2>3. IsFiniteSet(Holders(f)) /\ IsFiniteSet(Heirs(f))
    BY <2>2, ForensicAssumption, FS_Subset DEF Entries
  <2>4. /\ Cardinality(Holders(f)) \in Nat /\ Cardinality(Heirs(f)) \in Nat
        /\ Cardinality(Born(f)) \in Nat /\ Cardinality(Born(f)) <= Cardinality(Heirs(f))
    BY <2>2, <2>3, FS_Subset, FS_CardinalityType
  <2> QED BY <2>1, <2>4 DEF BasicInv, CopyInv, TypeOK
<1> QED BY <1>1, <1>2, <1>3, RecordHolds, PTL DEF Spec
=============================================================================
