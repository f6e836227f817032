------------------------------ MODULE Forensic ------------------------------
(***************************************************************************)
(* The forensic program (Part I): a process per directory scans it, logs   *)
(* and prints a record for each file, and counts directories and files in  *)
(* the first process with SIGUSR1 and SIGUSR2 (forensic.c, signals.h).     *)
(*                                                                         *)
(* A process is named after its directory.  Its records go through stdio,  *)
(* whose buffer a fork copies: written at every end of line if stdout was  *)
(* a terminal when first used, else when it is full or the process exits.  *)
(* A plain file given as argument is a directory with one file.            *)
(*                                                                         *)
(* External are the kernel and the commands run on a file: a command       *)
(* writes its output as it ends; kill succeeds or fails on a process that  *)
(* has ended and may not have been waited for yet; fork does not fail.     *)
(* The root process handles its signals before it goes on.                 *)
(***************************************************************************)
EXTENDS Integers, Sequences, FiniteSets, SequencesExt

CONSTANTS
  Dirs, Files,
  Root,      \* the directory given as argument
  Contents,  \* Contents[d]: the entries of d, in the order of readdir
  Commands,  \* commands run on each file: "file" and the hashes asked for
  Settings   \* how the program may be started; see SettingType

Entries == Dirs \cup Files

\* The options -r and -o, how stdout is buffered, how many descriptors a
\* process may have open, and what cannot be opened (a directory) or is gone
\* when it is looked at (a file).
SettingType == [r : BOOLEAN, o : BOOLEAN, lineBuffered : BOOLEAN,
                descriptors : Nat, broken : SUBSET Entries]

ASSUME ForensicAssumption ==
  /\ IsFiniteSet(Entries) /\ Dirs \cap Files = {} /\ Root \in Dirs
  /\ Contents \in [Dirs -> Seq(Entries \ {Root})]
  /\ \A d \in Dirs : \A i, j \in DOMAIN Contents[d] :
       Contents[d][i] = Contents[d][j] => i = j
  /\ \A e \in Entries \ {Root} : \E d \in Dirs :
       {c \in Dirs : e \in Range(Contents[c])} = {d}
  /\ \E depth \in [Dirs -> 0 .. Cardinality(Dirs)] :
       \A d \in Dirs : \A e \in Range(Contents[d]) \cap Dirs : depth[d] < depth[e]
  /\ Commands \in 1 .. 4
  /\ Settings \subseteq SettingType

VARIABLES
  setting,
  pc,        \* pc[d]: the process of d, its place in readDirectory or after
  pos,       \* pos[d]: the entry it is at
  left,      \* left[d]: commands still to run on that file
  fds,       \* fds[d]: descriptors it has open (not counting the first ones)
  running,   \* running[d]: whether its last command still runs
  zombies,   \* zombies[d]: commands that ended and were not waited for
  reaped,    \* directories whose process was waited for
  buffer,    \* buffer[d]: files whose record is in its stdio buffer
  printed,   \* printed[f]: how often the record of f was written to the output
  logged,    \* files with an ANALIZED entry in the log
  sigint,    \* processes with a SIGINT pending
  ctrlC,     \* whether the user pressed Ctrl+C
  pending,   \* SIGUSR1 and SIGUSR2 pending for the root process
  handlers,  \* activations of sig_usr, the innermost last
  numDirs,
  numFiles,
  report     \* what "Finished: ..." said, once it did

scanVars   == <<pc, pos, left, fds>>
childVars  == <<running, zombies, reaped>>
recordVars == <<buffer, printed, logged>>
intVars    == <<sigint, ctrlC>>
countVars  == <<handlers, numDirs, numFiles>>
vars == <<setting, scanVars, childVars, recordVars, intVars, pending, countVars, report>>

Over      == {"ended", "killed", "failed"}
Protected == {"signal", "log", "command", "wait", "output", "print"}
Places    == {"none", "announce", "open", "read", "join", "exit"} \cup Protected \cup Over

Signals == {"SIGUSR1", "SIGUSR2"}
Frame   == [sig : Signals, value : Nat]
NoReport == [dirs |-> -1, files |-> -1]

TypeOK ==
  /\ setting  \in Settings
  /\ pc       \in [Dirs -> Places]
  /\ pos      \in [Dirs -> Nat] /\ \A d \in Dirs : pos[d] \in 1 .. Len(Contents[d]) + 1
  /\ left     \in [Dirs -> 0 .. Commands]
  /\ fds      \in [Dirs -> 0 .. setting.descriptors]
  /\ running  \in [Dirs -> BOOLEAN]
  /\ zombies  \in [Dirs -> Nat]
  /\ reaped   \subseteq Dirs
  /\ buffer   \in [Dirs -> SUBSET Files]
  /\ printed  \in [Files -> Nat]
  /\ logged   \subseteq Files
  /\ sigint   \subseteq Dirs
  /\ ctrlC    \in BOOLEAN
  /\ pending  \subseteq Signals
  /\ handlers \in Seq(Frame)
  /\ numDirs \in Nat /\ numFiles \in Nat
  /\ report   \in [dirs : Nat \cup {-1}, files : Nat \cup {-1}]

Init ==
  /\ setting  \in Settings
  /\ pc       = [d \in Dirs |-> IF d = Root THEN "open" ELSE "none"]
  /\ pos      = [d \in Dirs |-> 1]
  /\ left     = [d \in Dirs |-> 0]
  /\ fds      = [d \in Dirs |-> 0]
  /\ running  = [d \in Dirs |-> FALSE]
  /\ zombies  = [d \in Dirs |-> 0]
  /\ reaped   = {}
  /\ buffer   = [d \in Dirs |-> {}]
  /\ printed  = [f \in Files |-> 0]
  /\ logged   = {}
  /\ sigint   = {} /\ ctrlC = FALSE
  /\ pending  = {} /\ handlers = << >>
  /\ numDirs  = 0 /\ numFiles = 0
  /\ report   = NoReport

-----------------------------------------------------------------------------
(* The tree and the processes.                                             *)

Entry(d)     == Contents[d][pos[d]]
AtEntry(d)   == pc[d] = "read" /\ pos[d] <= Len(Contents[d])
NextEntry(d) == pos' = [pos EXCEPT ![d] = @ + 1]
Goto(d, place) == pc' = [pc EXCEPT ![d] = place]

Parent == [e \in Entries \ {Root} |-> CHOOSE d \in Dirs : e \in Range(Contents[d])]

Alive(d)    == pc[d] \notin Over \cup {"none"}
Children(d) == {c \in Dirs \ ({Root} \cup reaped) : Parent[c] = d /\ pc[c] # "none"}
Dead(d)     == {c \in Children(d) : pc[c] \in Over}

\* SIGINT waits between blockSigint and unblockSigint, and in sig_usr, whose
\* mask installHandler gives it.
UnmaskedForCommands(d) == pc[d] \in {"signal", "log", "print"}
Masked(d) == pc[d] \in Protected
SigintBlocked(d) == Masked(d) \/ (d = Root /\ handlers # << >>)

Runs(d) ==
  /\ Alive(d)
  /\ d \in sigint => SigintBlocked(d)
  /\ d = Root => pending = {} /\ handlers = << >>

\* exit writes out what the buffer holds; death by a signal does not.
Exit(d, place) ==
  /\ Goto(d, place)
  /\ printed' = [f \in Files |-> IF f \in buffer[d] THEN printed[f] + 1 ELSE printed[f]]
  /\ buffer' = [buffer EXCEPT ![d] = {}]

\* kill(parent_pid, sig): an error, once that process is gone, ends the caller.
Notify(d, sig, next) ==
  \/ /\ pending' = IF Alive(Root) THEN pending \cup {sig} ELSE pending
     /\ Goto(d, next) /\ UNCHANGED recordVars
  \/ /\ ~Alive(Root)
     /\ Exit(d, "failed") /\ UNCHANGED <<logged, pending>>

-----------------------------------------------------------------------------
(* readDirectory.                                                          *)

Announce(d) ==
  /\ pc[d] = "announce" /\ Runs(d)
  /\ Notify(d, "SIGUSR1", "open")
  /\ UNCHANGED <<setting, pos, left, fds, childVars, intVars, countVars, report>>

Open(d) ==
  /\ pc[d] = "open" /\ Runs(d)
  /\ IF d \notin setting.broken /\ fds[d] < setting.descriptors
     THEN /\ Goto(d, "read") /\ fds' = [fds EXCEPT ![d] = @ + 1]
          /\ UNCHANGED recordVars
     ELSE Exit(d, "failed") /\ UNCHANGED <<fds, logged>>
  /\ UNCHANGED <<setting, pos, left, childVars, intVars, pending, countVars, report>>

SkipDirectory(d) ==
  /\ AtEntry(d) /\ Runs(d)
  /\ Entry(d) \in Dirs /\ ~setting.r
  /\ NextEntry(d)
  /\ UNCHANGED <<setting, pc, left, fds, childVars, recordVars, intVars, pending,
                 countVars, report>>

\* The child has its parent's descriptors and a copy of its buffer.
Fork(d) ==
  /\ AtEntry(d) /\ Runs(d)
  /\ Entry(d) \in Dirs /\ setting.r
  /\ Goto(Entry(d), IF setting.o THEN "announce" ELSE "open")
  /\ fds'    = [fds EXCEPT ![Entry(d)] = fds[d]]
  /\ buffer' = [buffer EXCEPT ![Entry(d)] = buffer[d]]
  /\ NextEntry(d)
  /\ UNCHANGED <<setting, left, childVars, printed, logged, intVars, pending,
                 countVars, report>>

StartFile(d) ==
  /\ AtEntry(d) /\ Runs(d)
  /\ Entry(d) \in Files \ setting.broken
  /\ Goto(d, IF setting.o THEN "signal" ELSE "log")
  /\ UNCHANGED <<setting, pos, left, fds, childVars, recordVars, intVars, pending,
                 countVars, report>>

LoseFile(d) ==
  /\ AtEntry(d) /\ Runs(d)
  /\ Entry(d) \in Files \cap setting.broken
  /\ Exit(d, "failed")
  /\ UNCHANGED <<setting, pos, left, fds, childVars, logged, intVars, pending,
                 countVars, report>>

SignalFile(d) ==
  /\ pc[d] = "signal" /\ Runs(d)
  /\ Notify(d, "SIGUSR2", "log")
  /\ UNCHANGED <<setting, pos, left, fds, childVars, intVars, countVars, report>>

LogFile(d) ==
  /\ pc[d] = "log" /\ Runs(d)
  /\ logged' = logged \cup {Entry(d)}
  /\ left' = [left EXCEPT ![d] = Commands]
  /\ Goto(d, "command")
  /\ UNCHANGED <<setting, pos, fds, childVars, buffer, printed, intVars, pending,
                 countVars, report>>

EndOfDirectory(d) ==
  /\ pc[d] = "read" /\ Runs(d)
  /\ pos[d] > Len(Contents[d])
  /\ Goto(d, "join")
  /\ UNCHANGED <<setting, pos, left, fds, childVars, recordVars, intVars, pending,
                 countVars, report>>

-----------------------------------------------------------------------------
(* runCommand, called by printStats for each command of the file.          *)

PipeAlwaysFits(d) == TRUE                                  \* faulty variants
BothEndsLeft(d) == fds' = [fds EXCEPT ![d] = @ + 2]

\* A pipe takes two descriptors.
PipeFits(d) == fds[d] + 2 <= setting.descriptors

\* The write end is closed after the fork, the read end never.
ReadEndLeft(d) == fds' = [fds EXCEPT ![d] = @ + 1]

RunCommand(d) ==
  /\ pc[d] = "command" /\ Runs(d)
  /\ IF PipeFits(d)
     THEN /\ running' = [running EXCEPT ![d] = TRUE]
          /\ ReadEndLeft(d)
          /\ Goto(d, "wait") /\ UNCHANGED recordVars
     ELSE Exit(d, "failed") /\ UNCHANGED <<running, fds, logged>>
  /\ UNCHANGED <<setting, pos, left, zombies, reaped, intVars, pending, countVars,
                 report>>

CommandEnds(d) ==
  /\ running[d]
  /\ running' = [running EXCEPT ![d] = FALSE]
  /\ zombies' = [zombies EXCEPT ![d] = @ + 1]
  /\ UNCHANGED <<setting, scanVars, reaped, recordVars, intVars, pending, countVars,
                 report>>

\* wait(NULL) takes any child that ended: a command or a directory's process.
WaitAny(d) ==
  \/ /\ zombies[d] > 0
     /\ zombies' = [zombies EXCEPT ![d] = @ - 1] /\ UNCHANGED reaped
  \/ \E c \in Dead(d) : reaped' = reaped \cup {c} /\ UNCHANGED zombies

WaitCommand(d) ==
  /\ pc[d] = "wait" /\ Runs(d)
  /\ WaitAny(d)
  /\ Goto(d, "output")
  /\ UNCHANGED <<setting, pos, left, fds, running, recordVars, intVars, pending,
                 countVars, report>>

\* read returns what the command wrote, or 0 when it ended and wrote nothing.
EndNeverSeen(d) == FALSE                                   \* faulty variant
OutputReady(d) == ~running[d]

ReadOutput(d) ==
  /\ pc[d] = "output" /\ Runs(d)
  /\ OutputReady(d)
  /\ left' = [left EXCEPT ![d] = @ - 1]
  /\ Goto(d, IF left[d] > 1 THEN "command" ELSE "print")
  /\ UNCHANGED <<setting, pos, fds, childVars, recordVars, intVars, pending,
                 countVars, report>>

\* printf("\n"): the record is complete.
WriteRecords(d, records) ==
  printed' = [f \in Files |-> IF f \in records THEN printed[f] + 1 ELSE printed[f]]

KeepWritten(d) ==                                          \* faulty variant
  /\ WriteRecords(d, {Entry(d)})
  /\ buffer' = [buffer EXCEPT ![d] = @ \cup {Entry(d)}]

EndOfLine(d) ==
  /\ WriteRecords(d, buffer[d] \cup {Entry(d)})
  /\ buffer' = [buffer EXCEPT ![d] = {}]

PrintRecord(d) ==
  /\ pc[d] = "print" /\ Runs(d)
  /\ \/ EndOfLine(d)
     \/ /\ ~setting.lineBuffered
        /\ buffer' = [buffer EXCEPT ![d] = @ \cup {Entry(d)}] /\ UNCHANGED printed
  /\ NextEntry(d)
  /\ Goto(d, "read")
  /\ UNCHANGED <<setting, left, fds, childVars, logged, intVars, pending, countVars,
                 report>>

-----------------------------------------------------------------------------
(* waitChilds and the end of main.                                         *)

Reap(d) ==
  /\ pc[d] = "join" /\ Runs(d)
  /\ WaitAny(d)
  /\ UNCHANGED <<setting, scanVars, running, recordVars, intVars, pending, countVars,
                 report>>

CommandsOver(d) == ~running[d] /\ zombies[d] = 0           \* faulty variant
NoChildLeft(d) == ~running[d] /\ zombies[d] = 0 /\ Children(d) = {}

Finish(d) ==
  /\ pc[d] = "join" /\ Runs(d)
  /\ NoChildLeft(d)
  /\ report' = IF d = Root /\ setting.o THEN [dirs |-> numDirs, files |-> numFiles]
                                        ELSE report
  /\ Goto(d, "exit")
  /\ UNCHANGED <<setting, pos, left, fds, childVars, recordVars, intVars, pending,
                 countVars>>

End(d) ==
  /\ pc[d] = "exit" /\ Runs(d)
  /\ Exit(d, "ended")
  /\ UNCHANGED <<setting, pos, left, fds, childVars, logged, intVars, pending,
                 countVars, report>>

-----------------------------------------------------------------------------
(* Signals.                                                                *)

\* Ctrl+C reaches every process; bound: the user presses it once.
Interrupt ==
  /\ ~ctrlC /\ ctrlC' = TRUE
  /\ sigint' = {d \in Dirs : Alive(d)}
  /\ UNCHANGED <<setting, scanVars, childVars, recordVars, pending, countVars, report>>

Die(d) ==
  /\ Alive(d) /\ d \in sigint /\ ~SigintBlocked(d)
  /\ sigint' = sigint \ {d}
  /\ Goto(d, "killed")
  /\ buffer' = [buffer EXCEPT ![d] = {}]
  /\ UNCHANGED <<setting, pos, left, fds, childVars, printed, logged, ctrlC, pending,
                 countVars, report>>

Counter(sig)  == IF sig = "SIGUSR1" THEN numDirs ELSE numFiles

\* sig_usr starts and reads its counter; SA_NODEFER lets a further signal,
\* of the same kind too, interrupt it before it writes the counter back.
Deliver(sig) ==
  /\ Alive(Root) /\ sig \in pending
  /\ pending' = pending \ {sig}
  /\ handlers' = Append(handlers, [sig |-> sig, value |-> Counter(sig)])
  /\ UNCHANGED <<setting, scanVars, childVars, recordVars, intVars, numDirs, numFiles,
                 report>>

CountsEither(sig, value) ==                                \* faulty variant
  /\ numDirs'  = IF sig = "SIGUSR1" THEN value + 1 ELSE numDirs
  /\ numFiles' = numFiles + 1

Count(sig, value) ==
  /\ numDirs'  = IF sig = "SIGUSR1" THEN value + 1 ELSE numDirs
  /\ numFiles' = IF sig = "SIGUSR2" THEN value + 1 ELSE numFiles

HandlerReturns ==
  /\ handlers # << >>
  /\ Count(Last(handlers).sig, Last(handlers).value)
  /\ handlers' = Front(handlers)
  /\ UNCHANGED <<setting, scanVars, childVars, recordVars, intVars, pending, report>>

-----------------------------------------------------------------------------
Step(d) ==
  \/ Announce(d) \/ Open(d) \/ SkipDirectory(d) \/ Fork(d)
  \/ StartFile(d) \/ LoseFile(d) \/ SignalFile(d) \/ LogFile(d) \/ EndOfDirectory(d)
  \/ RunCommand(d) \/ WaitCommand(d) \/ ReadOutput(d) \/ PrintRecord(d)
  \/ Reap(d) \/ Finish(d) \/ End(d)

Handle == HandlerReturns \/ \E sig \in Signals : Deliver(sig)

Next ==
  \/ \E d \in Dirs : Step(d) \/ CommandEnds(d) \/ Die(d)
  \/ Handle
  \/ Interrupt

\* The kernel runs every process, delivers its signals and lets the commands
\* end; nobody has to press Ctrl+C.
Fairness ==
  /\ \A d \in Dirs : WF_vars(Step(d)) /\ WF_vars(CommandEnds(d)) /\ WF_vars(Die(d))
  /\ WF_vars(Handle)

Spec == Init /\ [][Next]_vars /\ Fairness

-----------------------------------------------------------------------------
(* Properties.                                                             *)

AtFile(f) == pos[Parent[f]] <= Len(Contents[Parent[f]]) /\ Entry(Parent[f]) = f

\* d and the directories above it.
Above[d \in Dirs] == IF d = Root THEN {Root} ELSE {d} \cup Above[Parent[d]]

\* A record that was logged is not forgotten: it is written, or its process is
\* at work on it and cannot be interrupted, or ended with an error at that very
\* file, or the record is in the buffer of a process that goes on; only what
\* stdio holds back can die with a process that Ctrl+C kills (blockSigint in
\* readDirectory).
RecordsAccounted ==
  \A f \in logged :
    \/ printed[f] > 0
    \/ AtFile(f) /\ pc[Parent[f]] \in Protected \cup {"failed"}
    \/ /\ ~setting.lineBuffered
       /\ \/ \E d \in Dirs : Alive(d) /\ f \in buffer[d]
          \/ pc[Parent[f]] = "killed"

\* What a fork copies is bounded: nothing is written that was not logged, and a
\* record is repeated at most once for each process started below its directory
\* after it was printed, on a terminal never.
Heirs(f) ==
  LET d == Parent[f]
      later == {Contents[d][i] : i \in {j \in DOMAIN Contents[d] :
                  \E k \in 1 .. j - 1 : Contents[d][k] = f}}
  IN  IF setting.r /\ ~setting.lineBuffered
      THEN {e \in Dirs : Above[e] \cap later # {}} ELSE {}

CopiesBounded ==
  \A f \in Files :
    /\ printed[f] > 0 => f \in logged
    /\ printed[f] <= 1 + Cardinality(Heirs(f))

\* The process that reports waited for all it started: every process whose
\* forebears all ended well is over, even when wait(NULL) took a directory for
\* a command; and if no process failed or was killed, every file the options
\* reach has its record written, or in the buffer of the first process.
FinishedIsComplete ==
  pc[Root] \in {"exit", "ended"} =>
    /\ \A d \in Dirs :
         (\A a \in Above[d] \ {d, Root} : pc[a] = "ended") /\ Alive(d) => d = Root
    /\ (\A d \in Dirs : pc[d] \notin {"failed", "killed"}) =>
         \A f \in Files : setting.r \/ Parent[f] = Root =>
           f \in logged /\ (printed[f] > 0 \/ f \in buffer[Root])

\* The descriptors that readDirectory and runCommand never close decide how far
\* the program gets: when a process finds room for one per directory and per
\* command before it, those its forebears left to it included, nothing but a
\* missing file or Ctrl+C makes a process fail.
FilesIn(d, n) == Cardinality({i \in 1 .. n : Contents[d][i] \in Files})

Inherited[d \in Dirs] ==
  IF d = Root THEN 0
  ELSE LET p == Parent[d]
           n == CHOOSE i \in DOMAIN Contents[p] : Contents[p][i] = d
       IN  Inherited[p] + 1 + Commands * FilesIn(p, n)

EnoughDescriptors ==
  \A d \in Dirs : Inherited[d] + 2 + Commands * FilesIn(d, Len(Contents[d]))
                    <= setting.descriptors

NoFailureWithoutCause ==
  EnoughDescriptors /\ setting.broken = {} /\ ~ctrlC =>
    \A d \in Dirs : pc[d] # "failed"

\* The total that is reported: signals of a kind merge while one is pending and
\* interrupted handlers lose counts, but it never exceeds what was signalled and
\* is not zero when anything was.
Announced == {d \in Dirs \ {Root} : pc[d] \notin {"none", "announce"}}
Signalled == {f \in Files : f \in logged \/ (AtFile(f) /\ pc[Parent[f]] = "log")}

Bounded(count, sent) ==
  count <= Cardinality(sent) /\ (sent # {} => count > 0)

ReportBounded ==
  [][report' # report => /\ Bounded(report'.dirs, Announced)
                         /\ Bounded(report'.files, Signalled)]_vars

\* Every process ends, whatever wait(NULL) returned and whoever was killed.
AllEnd == <>(\A d \in Dirs : ~Alive(d))

\* The comment on readDirectory: "if a logfile entry is registered it is
\* guaranteed that the file's info is printed on output".
LoggedIsPrinted ==
  (\A d \in Dirs : ~Alive(d)) =>
    \A f \in logged : printed[f] > 0
=============================================================================
