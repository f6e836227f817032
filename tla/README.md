# A verification of the home-banking server

The repository holds two programs. Part II is a home-banking service: a server
with a thread per bank office, and a user program that sends it one request
through named pipes. Part I, `forensic`, is an independent program that scans
directories. This project models both in TLA+, checks them with TLC and proves
with TLAPS, for instances of any size, every invariant and every refinement
that the runs check on small ones; liveness is left to TLC. The reference is
the code; paths below are relative to `src/Part II` unless they say otherwise.

## 1. The system

| Component | State | Operations | Talks to |
|---|---|---|---|
| Server FIFO (`/tmp/secure_srv`) | its mode, the bytes in it, who has it open | mkfifo, open, write, read, chmod, unlink | user processes, main thread, the office that handles a shutdown |
| Main thread (`bankCycle`, `produceRequest`, `insertRequest`) | `tlv`; `slots`, `inputIndex`, `requestQueue` (shared) | read a request, claim a slot, insert, announce; end on end-of-file once `shutdown` is set | offices, through `slotsLock`/`slotsCond`, `queueLock`, `requestsLock`/`requestsCond` |
| Bank offices (`consumeRequest`, `processRequestReply`) | `tlv`; `requests`, `outputIndex`, `activeThreads`, `shutdown` (shared) | claim a request, copy it out, handle it, reply, give the slot back, end | main thread, each other, the user's FIFO |
| Accounts (`requestHandler` and what it calls) | `bankAccounts`, `accountsIndex`, `accountLocks` | login, create account, balance, transfer | offices only, through `accountLocks` |
| User process (`user.c`) | its FIFO (`/tmp/secure_<pid>`), the alarm | make the FIFO, write the request, wait for a reply or 30 s | server FIFO, an office |
| Arguments (`init` of `user.c`, `utility.c`) | none | from a command line to an exit status or a request: bounds on identifiers, balances, amounts, delays, passwords | user process, and through the requests the accounts |
| Hashing (`utility.c`) | none | `sha256sum` in a child process | accounts |
| Logging (`log.c`, `sope.h`) | a file opened with O_APPEND | format and write a line | everybody; nobody reads it |
| Forensic (`../Part I/forensic.c`, `signals.h`) | a process per directory, each with a stdio buffer, open descriptors and a signal mask; the counters of the first one's handler | scan, fork for each directory, log, run commands on a file, print its record, count with SIGUSR1/2, wait for the children | its own children |

What is hard in it:

* The producer-consumer queue uses three locks and two conditions. The three
  steps of the producer and of the consumer are separate critical sections,
  and counters and indices agree only across all of them.
* The shutdown is a flag that is read without the lock its writers hold, a
  broadcast made by one office on behalf of the others, and a FIFO made
  read-only before the flag is set.
* A transfer takes and releases account locks up to four times. Between the
  tests and the moves, and between credit and debit, anything may happen.
* `accountsIndex` has no lock.
* A reply may fail because the user is gone, or has not opened its FIFO yet,
  and the user may go between the office's `open` and its `write`.
* A user waits on two FIFOs, with an alarm that covers only the second.
* A number on a command line goes through `strtol`, `int` and `uint32_t`, is
  tested in one form and used in another.
* Forensic's processes inherit their parent's output buffer and descriptors,
  wait for whichever child ends first, lose signals that merge or interrupt
  each other, and may be killed by Ctrl+C between any two steps.

What makes each component correct:

* queue: nothing overwritten, nothing taken twice, order kept, nobody asleep
  with work to do, `slots` and `requests` right at every point;
* shutdown: every office ends, and nothing accepted is left behind;
* accounts: money is neither made nor lost, moves only for its owner, balances
  stay in range, identifiers are unique, an account reported as created exists;
* locks: released on every path, held by whoever works under them;
* user: told what the server did, ended whatever the server does, its FIFO
  removed unless its arguments are refused or a signal kills it;
* arguments: what is accepted is within the limits the server relies on;
* forensic: each logged file gets its record, once; the totals are not more
  than what was seen; the first process outlives the others; all of them end.

## 2. Modules

| Module | Role |
|---|---|
| `RequestQueue` | server FIFO, main thread, circular buffer and bank offices, from `mkfifo` to the end of the process |
| `RequestChannel` | what those promise together: a FIFO channel from the users to the offices |
| `HomeBanking` | `RequestQueue` composed with the user processes: their FIFOs, alarms and replies |
| `MCHomeBanking` | symmetry set for TLC |
| `RequestQueueProofs` | theorems about `RequestQueue`, and that it implements `RequestChannel` |
| `HomeBankingProofs` | theorems about `HomeBanking`, and that it implements `RequestQueue` |
| `MCRequestQueue` | symmetry sets for TLC |
| `Accounts` | the accounts and the operations that offices run on them concurrently |
| `Ledger` | what those promise: creations and transfers as single steps |
| `Arguments` | the command line of a user process: its validation and the request made of it |
| `ArgumentsProofs` | theorems about `Arguments` |
| `AccountsProofs` | theorems about the locks, the accounts and the balances of `Accounts` |
| `LedgerProofs` | that `Accounts` implements `Ledger` |
| `MCAccounts` | passwords, opening accounts and command lines for TLC |
| `Forensic` | the processes of Part I, their records and their signals |
| `ForensicProofs` | theorems about the processes and the records of `Forensic` |
| `ForensicReportProofs` | theorems about its totals and its descriptors |
| `WellOrder` | least elements of sets of numbers and of subsets, for the proofs |
| `MCForensic` | a tree of directories and ways to start the program |

### RequestQueue

One action is one critical section (or one system call), named after what it
does: `ClaimSlot`/`WaitForSlot`, `InsertRequest` and `AnnounceRequest` are
`produceRequest`; `ClaimRequest`/`WaitForRequest`, `GetRequest`,
`BeginRequest`, `HandleRequest` or `HandleShutdown` and `SetShutdown`,
`OpenUserFIFO`, `WriteReply`, `EndRequest`, `FreeSlot` are an iteration of
`consumeRequest`; `ExitDrained` and `ExitWoken` are its two ways out.
`pthread_cond_wait` is split: a thread goes to `wait`, is moved to `woken` by a
signal, a broadcast or nothing at all (a spurious wake-up), and takes the lock
again in whatever it does next. `WriteRequest` and `OpenServerFIFO` are the
user's side. The variables have the names of the code; `officePC`, `mainPC` and
`user` are the places of the threads and processes.

Whether the user is there when an office opens its FIFO (`OpenUserFIFO`) and
still there when it writes the reply (`WriteReply`) is a free choice here. A
write to a user that ended in between raises SIGPIPE and kills the server:
`alive` becomes FALSE and no action of a server thread is enabled any more. A
killed server leaves its FIFO behind, and `mkfifo` leaves an existing one as it
is; `Init` therefore starts without a FIFO, with a writable one or with a
read-only one.

### HomeBanking

Adds the users of `user.c` to `RequestQueue`. `session[u]` is the place of
`u`'s process: `MakeUserFIFO`; `RejectArguments` (an `exit` in `init`, after a
message to the user, or a crash there; both leave the FIFO); `ConnectToServer`,
`FindServerDown` and `SendRequest`, which are `writeRequest`; `SetAlarm`,
`OpenOwnFIFO`, `ReadReply` and `PrintReply`, which are `readReply`; `Finish`;
and `TimeOut`, the alarm handler, enabled from `alarm` to the end of the
process, as nothing cancels it. `AnswerUser` and `SendReply` are `OpenUserFIFO`
and `WriteReply` with the choice made by the user: `open` with `O_NONBLOCK`
succeeds if the user has its FIFO open for reading, or waits in its own `open`;
the write succeeds if it still has. `told` and `logged` record what the user
printed, a refusal by `init` included, and which outcome the office logged;
they are the only variables without a counterpart in a variable of the code.

### Accounts

The queue is reduced to a set `todo` in which an office finds its next
request. Taking an account lock is the action `Lock`; the section under it,
with its release, is the next action of the office. `createNewAccount` is
cut at each access to `accountsIndex`, as nothing guards it: `LoadIndex` and
`StoreIndex` are the two halves of `accountsIndex++`, and `InitLock`,
`PickLock`, `WriteAccount` and `UnlockNew` read it again. `Resolve` is the
second, untested call of `checkLoginAccount`; where it would return -1 the
office goes to `undefined`, and `NoWildIndex` says that it never does.

Balances are words modulo `Modulus`; `ToInt` is the cast in
`isValidTransfer`. The constants come with three assumptions: the table does
not fill up (`AccountsAssumption`), requests are what `init` lets through
and have a login that fits its field
(`RequestsAssumption`, which `AcceptedInRange` justifies), and the accounts at
the start are the administrator's and what earlier creations made
(`OpeningAssumption`). `ArgumentsAssumption` keeps `Modulus` larger than the sum
of two balances, as 2^32 is in the code.

An operation that no `case` handles (a user may type any number) is answered
with the return code that happened to be on the stack: `Login` chooses it.

Abstractions: a password stands for its salted hash; delays only separate
steps; log calls and texts are left out; the fields of a reply that nothing
was stored in have no value.

### Arguments

Operators, no state. A word of the command line is the number `strtol` finds in
it, its length and the password it would be, three things the code tests and
uses independently. Each `validate` function is the status it exits with;
`Status` runs them in the order of `init` and stops at the first failure, and
`RequestOf` is the request made of the words. The password of the login is
copied with `strcpy` and no test of its length (`user.c:46`): a command line
that gets there with one longer than `MAX_PASSWORD_LEN` (`Overruns`) is
undefined behaviour. `Statuses` then has every outcome, a crash and an
acceptance included, and `RequestsOf` every request. `Atoi` folds what does not
fit an `int`, as the C library does, so that a balance of 42 in words modulo 40
is accepted as 2. A missing word is a NULL that the functions dereference: the
status is that of a crash. `Accounts` extends the module and takes its requests
from it; the user processes of `HomeBanking` have both outcomes of `init`.

### Forensic

`pc[d]` is the place of the process of directory `d`. `Announce`, `Open`,
`SkipDirectory`, `Fork`, `StartFile`, `LoseFile`, `SignalFile`, `LogFile` and
`EndOfDirectory` are `readDirectory`; `RunCommand`, `WaitCommand`, `ReadOutput`
and `PrintRecord` are `printStats` and the `runCommand` it calls for each
command; `Reap` and `Finish` are `waitChilds`, and `End` is the `exit` after
`main`. `LoseFile`, `Open`, `RunCommand` and `Notify` also have the exits that
the code makes when a call fails.

The records of a process are in `buffer[d]` until stdio writes them: at the end
of a line on a terminal, whenever it likes otherwise (the buffer may be full),
and at `exit`, but not when a signal kills the process. `Fork` copies the
buffer and `fds`, the open descriptors. `WaitAny` is `wait(NULL)`: it takes an
ended command or an ended directory's process, whichever. `Interrupt` is a
Ctrl+C, once and at any time, pending in a process while `Masked` or, for the
first, while a handler runs. `Deliver` and `HandlerReturns` are `sig_usr`, cut
between its read of a counter and its write; `handlers` is the stack of its
activations.

The handler is taken to be done before the interrupted code goes on, and a
command writes its output when it ends.

## 3. What is checked

| Run | Instance | Shows |
|---|---|---|
| `queue_safety` | 3 offices, 4 users, 2 of them shutting down, 2 slots, symmetry | `TypeOK`, `BufferSafe`, `NoLostWakeup`, `ActiveThreadsExact` |
| `queue_liveness` | 2 offices, 3 users, 2 shutting down, 2 slots, fair | `ChannelSpec` (refinement of `RequestChannel`), `ShutdownStopsOffices`, `QueuedIsTaken` |
| `accounts_concurrent` | 2 offices, 5 requests: transfers both ways between two clients, a creation, transfers to and from the new account | `TypeOK`, `LockDiscipline`, `NoWildIndex`, `CreatedIsThere`, `LedgerSpec` (refinement of `Ledger`), `AllAnswered` |
| `accounts_serial` | 1 office, 22 command lines of which 10 become requests: every operation, return code and exit status, in any order | `CreatedIsThere`, `BalanceInRange`, `LedgerSpec`, `AllAnswered` |
| `users` | 2 offices, 2 users, 1 of them shutting down, 1 slot, fair | `SystemTypeOK`, `SidesAgree`, `OwnFIFORemoved`, `SlotsAccounted`, `SessionEnds` |
| `users_kill_server` | the same, without fairness | violation of `UserGoneIsSurvived` |
| `queue_slot_leak` | 2 offices, 4 users | violation of `WaitsOnlyWhenFull` |
| `queue_left_behind` | 2 offices, 4 users | violation of `NothingLeftBehind` |
| `accounts_overdraft` | 2 offices, 2 transfers | violation of `BalanceInRange` |
| `accounts_lost` | 2 offices, 2 creations | violation of `CreatedIsThere` |
| `forensic` | 3 directories, 3 files, 2 commands a file, 5 settings, at most one Ctrl+C, fair | `TypeOK`, `RecordsAccounted`, `CopiesBounded`, `FinishedIsComplete`, `NoFailureWithoutCause`, `ReportBounded`, `AllEnd` |
| `forensic_redirected` | the same tree, 1 command, `-r` with the output redirected | violation of `LoggedIsPrinted` |

Bounds. Two slots is the least for which the buffer is neither always full nor
always empty while it is used, and four users go around it twice. Three offices
let one sleep, one work and one leave at the same time, and the second shutdown
is handled while the first one's offices are leaving. In `users` a single slot
makes main sleep on a lost one, and two users are enough for one to be answered
late, early or never while the other is queued. In `Accounts`, two offices are
enough for any two critical sections to cross; balances between 1 and 4 modulo
40 (in `accounts_overdraft` up to 5, so that the receiver has room for both
transfers and the run shows the race for the funds) keep both refusals
(`RC_NO_FUNDS`, `RC_TOO_HIGH`), the wrap-around of the subtraction and a
two-digit number that is folded. The assumption `EveryStatus` has TLC check
that the command lines of `MCAccounts` meet every exit status, and that two
more, whose password does not fit, may meet any. The tree of `MCForensic` has a
file before and after a directory, so that a process forks with a record in its
buffer and goes on, a directory in a directory, so that descriptors and buffers
are inherited twice, and an empty one, whose process may end before its parent
waits for a command. Its settings are: a terminal with exactly the descriptors
that are needed, with two less, and with a file and a directory that are gone;
`-r` redirected; neither. They differ only in the initial state.

Symmetry is used in `queue_safety`, `queue_slot_leak` and `queue_left_behind`,
which check no liveness: offices are interchangeable, and users are within the
two kinds of request. `users_kill_server` uses it for its offices. It is off
everywhere else.

`CHECK_DEADLOCK FALSE` is set throughout because the programs really stop:
the server ends after a shutdown, users end after their request, and offices
of `Accounts` have nothing left to take.

Fairness. `RequestQueue` assumes weak fairness of the main thread, of each
office and of a user between its `open` and its `close`: threads are scheduled
by the system, no lock is held across a blocking call other than
`pthread_cond_wait` (which releases it) and no two locks are nested, so each
request for a lock is granted. Nothing is assumed of a user that has not opened
the FIFO, nor of spurious wake-ups. In `HomeBanking` a user process that has
started goes on whenever it can, and an alarm that is set goes off; nothing is
assumed of the server, so that `SessionEnds` holds whatever becomes of it. It
is about users that sent their request: one that waits in `open` for a killed
server waits for ever, its alarm not being set yet. `Accounts` assumes weak
fairness of each office. Weak fairness of a thread does not promise a lock that
is taken by others again and again; in the runs of `Accounts` the requests are
finitely many, so a lock is eventually free for good. `Forensic` assumes weak
fairness of each process, of the end of each command, of the default action of
a pending signal and of the handler: all of it is the kernel's to do. Nothing
is assumed of Ctrl+C.

What holds only in part, and why the runs differ:

* `BalanceInRange` holds with one office and fails with two.
* `CreatedIsThere`, `LockDiscipline` and `NoWildIndex` hold as long as account
  creations do not overlap (one administrator that waits for its answer), and
  may fail when they do; `accounts_lost` shows it of the first.
* `LedgerSpec` says nothing of the refusals: that no transfer is made that
  should have been refused is `BalanceInRange`. What it does say holds with
  two offices: every transfer answered with `RC_OK` is made once, as a whole,
  for the owner of the account, none of those answered otherwise is made, and
  no step loses or makes money.

### Findings

1. **A slot is lost with every user that is gone** (`server.c:621`). The
   `continue` skips `slots++`. After 20 of them main sleeps for ever in
   `produceRequest`. With the slot returned on both paths `WaitsOnlyWhenFull`
   holds on the same instance.
2. **A request can be left in the queue by a shutdown** (`server.c:572`).
   Offices end on `requests == 0` while main holds a request it has not
   announced yet; `report.pdf`, page 2, says that main goes on until nothing is
   left to read and the offices until the queue is empty.
3. **Balances leave their range** (`server.c:271`). The funds are tested under a
   lock that is released before the money moves: `accounts_overdraft` ends with
   an account at 0 after two transfers that each found enough. The room of the
   receiver is tested in the same way (`server.c:310`); with `MAX_BALANCE = 4`
   the same instance ends with the receiver above it.
4. **Accounts are lost** (`server.c:177`, `196`). Two creations at once write
   to the same element, both answered with `RC_OK`.
5. **A logged file may go unprinted** (`../Part I/forensic.c:350`). SIGINT is
   blocked around the log entry and the printing of the record, for the
   guarantee that the comment at line 270 gives, but `printf` only reaches the
   stdio buffer when the output is not a terminal. On a terminal, and without
   a Ctrl+C or a failure, `RecordsAccounted` shows that the guarantee holds.
6. **A user that times out can kill the server** (`server.c:543`). Between the
   office's `open` and its `write` the alarm may end the user; the write then
   raises SIGPIPE, which the server does not handle. `users_kill_server` finds
   the server dead; everything it knew is lost, and its FIFO stays. All other
   properties of the queue are stated so as to allow for it, and liveness of
   the server holds until then.

## 4. What is proved

A theorem here is about every value of the constants that the assumptions of
its module allow, which TLC evaluates on every run. An invariant of a run is
seldom inductive: for each there is a stronger one, named below, that holds at
the start and that every action keeps. TLC agreed to each of these on the
instances of the runs before it was proved.

### RequestQueue

`RequestQueueProofs` proves, for any finite set of offices, any set of users
and any size of the buffer (`QueueAssumption`):

* `TypeCorrect`: `Spec => []TypeOK`;
* `BufferCorrect`: `Spec => []BufferSafe`;
* `ActiveThreadsCorrect`: `Spec => []ActiveThreadsExact`;
* `WakeupCorrect`: `Spec => []NoLostWakeup`;
* `RequestsHeld`: what main carries and what lies between the two indices are
  requests, so that no office copies out an element nobody filled;
* `ChannelImplemented`: `Spec => ChannelSpec`, the refinement of
  `RequestChannel`;
* `NeverTwice`: a request is in one place of the path at most, and one that was
  handed to an office is in none.

Each of the first four is inductive together with `TypeOK`, which is why they
are written the way they are:

* `BufferSafe` says more than that the buffer does not overflow: it accounts
  for every slot (free, being filled, filled, or with an office) and gives the
  distance of the two indices in terms of the same counters. Neither half is
  inductive alone, because `InsertRequest` moves a slot from one class to the
  next and an index by one, and `GetRequest` likewise. The slots lost on a
  failed reply are the reason for `<=` instead of `=`.
* `NoLostWakeup` has three conjuncts. The last, that no office leaves before
  the shutdown, is needed for the first. The second, that after a shutdown
  somebody on the way to the lock has not just been woken, is what makes a
  chain of `ExitWoken` end in an `ExitDrained`, which broadcasts.
* `ActiveThreadsExact` needs only `TypeOK`.

The refinement needs `BufferSafe` and `HoldsRequests`. The channel is the
buffer's filled positions, then what main carries, then the FIFO; `RingDistinct`
and `RingShift` say when two positions of the circular buffer are the same slot,
and from them follows that an insertion appends to the first part and a copy
takes its head. There is then one lemma for the steps of a user (`UserSends`),
of main (`MainCarries`, which moves a request from one part to the next and so
leaves the whole as it is) and of an office (`OfficeReceives`).

The lemmas `Count*` of the module say how the cardinality of a set of offices
changes when one of them goes from one place to another; the action lemmas
are one case for each action of `Next`.

### HomeBanking

`HomeBankingProofs` first proves `SystemImplementsQueue`, `SystemSpec => Spec`:
the service does nothing to the variables of `RequestQueue` that it does not
allow, so all of the above holds in the service and is used there. Then

* `SystemTypeCorrect` and `NoFIFOLeftBehind` (an ended process has removed its
  FIFO, unless `init` refused its arguments or SIGPIPE killed it, and then it
  has not), from `SessionInv`, which relates
  the place of a user process, the state of its request, what it told its user
  and whether its FIFO is there;
* `UsersAndServerAgree`, from `LogInv`: a request is logged once, by the one
  office that has it, and a reply is on its way, read or printed only if it was
  logged as one. That the office is one is `DeliveredOnce`;
* `LostSlotsAccounted`, from `LostInv`: the slots that are free, being filled,
  filled or with an office, and those lost on `RC_USR_DOWN`, are always all the
  slots there are.

### Arguments

`ArgumentsProofs` proves, for every command line whose login password fits its
field (`LoginFits`), every width of a word and all limits that
`ArgumentsAssumption` allows (`init` does not test that the password fits, and
nothing is claimed of a line where it does not):

* `AcceptedInRange`: a line that `init` accepts makes a well-typed request
  whose receiving account is at most `MAX_BANK_ACCOUNTS`, whose opening balance
  is between `MIN_BALANCE` and `MAX_BALANCE` and whose amount is between 1 and
  `MAX_BALANCE`;
* `IdentifierIsExact`: the receiving account of an accepted creation or
  transfer is the number that was typed. This needs the last part of the
  assumption, that a word of `WIDTH_ACCOUNT` digits fits an `int`; balances and
  amounts have no such theorem, as a longer amount, and a balance as long as
  `WIDTH_BALANCE` lets it be, may be folded.

The argument goes from `WordArithmetic` (the conversions between `int` and
`uint32_t`) over `FirstFailureIsOne`, which with `ThreeTests` and `FourTests`
turns a status of 0 into the success of every test, to `AcceptedPasses`, which
says what the tests of an accepted line found.

### Accounts

For any offices, requests and opening accounts. Without a hypothesis, that is
however creations race for `accountsIndex`:

* `AccountsTypeCorrect`: type correctness, given the room in the table that
  `AccountsAssumption` provides and the code does not test;
* `IndexCountsCreations`: `accountsIndex` is behind the accounts of the start
  once a creation has moved it, and moved by no more than one for each creation
  that was confirmed or is about to be. `BasicInv` bounds in the same way what an
  office holds of it in a register, and says that nothing is answered before it
  is done, so that a creation counts once. The count is not assumed; that it is
  below the size of the table is;
* `OpeningSurvives`: the accounts of the start are not written over.

While creations do not overlap (`OneCreation`):

* `LocksAreDisciplined`, `IndexIsNeverWild` and `ConfirmedAccountsAreThere`, from
  `SerialInv`. It adds to `BasicInv` that the table is filled from the left with
  accounts that differ, the one being created being the next and unused until
  it is written (`TableInv`), that offices work on accounts that are there
  (`WorkInv`), and `LockDiscipline`. They need each other: the lock that
  `InitLock` frees is nobody's because its account is unused and offices hold
  the locks of used ones;
* `LedgerImplemented` (`LedgerProofs`): `LedgerSpec`, the refinement of `Ledger`.
  `LedgerInv` adds that what an office moves is its user's, who could log in and
  still can.

While one office is at work (`OneAtWork`):

* `BalancesInRange`, from `RangeInv`: between its tests and its moves a transfer
  keeps what the tests found. `InRange` is the word arithmetic.

The two hypotheses are about behaviours and are stated as such
(`Spec /\ []OneCreation => ...`). `SingleCreation` and `SingleOffice` show that
they are met when one request at most is for a creation and when there is one
office; the passing runs meet them in the same way, and the violated
runs show that the theorems fail without them.

The refinement sends an account's balance to what it is without the credits
that are in flight, a sum over the offices between their credit and their debit
(`InFlight`). `SumIs` shows that the fold that adds them up is the number of
units in flight, a cardinality, so that one office more or less changes the sum
by its amount (`OneMoreInFlight`). A credit then leaves the ledger as it is
(`CreditedBook`), a debit moves the whole amount (`DebitedBook`, with the
arithmetic modulo the word of `SameRemainder` and `WordOf`), the writing of an
account opens it (`OpenedBook`) and no other step changes it (`QuietBook`).
`OpenedGrows` and `MovedGrows` say the same of what has been done, and `Answers`
what the reply says of it.

### Forensic

For any tree of directories, any number of commands and every way to start the
program (the settings):

* `ForensicTypeCorrect`, from `BasicInv`: also where in its directory a process
  can be at each of its places;
* `FinishedIsAlwaysComplete`, from `TreeInv`: a process was forked for exactly
  the directories its parent has passed, what was waited for is over, and who
  ended waited for all it forked, although `wait(NULL)` takes whoever ends first;
* `RecordsStayAccounted`, from `RecordInv`: where the record of each file is
  before, while and after its process passes it;
* `CopiesStayBounded`, from `CopyInv`: the copies of a record, written and held,
  are one and at most one more for each process started below it since. A
  `Fork` makes one copy and starts one process;
* `ReportStaysBounded` (`ForensicReportProofs`), from `CountInv`: activations of
  the handler read their counter in the order they were started, and counts,
  activations and the pending signal together are no more than what was sent.
  `IntInv` says who has been interrupted;
* `NothingElseFails`, from `FdsInv`: the descriptors a process has open stay
  below those it inherited, its directory and one for each command run so far.

What a process inherits, and how many files lie before an entry, are recursive
functions of the model. `AboveIs` and `InheritedIs` show that they satisfy their
equations, by exhibiting a function that does.

### In place of induction

The provers cannot use an induction theorem. `WellOrder` derives from the
well-foundedness of `<` that a nonempty set of numbers has a least element
(`HasLeast`), and from this that a set of sets that contains each subset of a
finite set whose smaller ones it contains has them all (`SubsetInduction`);
`TreeInduction` of `ForensicProofs` is the same for trees. They are about sets,
not operators, and stand in for induction where it is needed.

### Only model-checked

* Liveness: `ShutdownStopsOffices`, `QueuedIsTaken`, `SessionEnds`, `AllAnswered`
  and `AllEnd`. Reasoning about fairness and `ENABLED` is beyond the prover.
* That the code breaks the properties of the violated runs: each is shown by
  TLC's counterexample.

## 5. Not modelled

* A process identifier that is used again, so that a late reply reaches
  another user; a signal other than the alarm that ends a user.
* Hashing and logging: no state that another part reads.
* The capacity of a pipe (a user would wait in `write`), partial reads, and a
  failing `read`, `chmod` or `pthread_*` call, whose results the code ignores.
* `numThreads`, which the server takes from its command line as it is, and the
  `offices` array it indexes; `getOfficeId` is only used for the log.
* An account table that is full: a creation would then write past the array.
  `AccountsAssumption` excludes it, and the code does not.
* What becomes of a server or a user whose memory a login password of more than
  20 characters has spoiled (`user.c:46`): `Arguments` says that anything may be
  sent, and `Accounts` and `HomeBanking` have users whose password fits.
* The order in which a transfer with two errors reports them (`types.h:17` asks
  for `RC_ID_NOT_FOUND` before `RC_NO_FUNDS`, and `bankTransfer` tests the funds
  first): the models follow the code and state no property of it.
* In Part I: the formats of permissions, dates and summaries; the parsing of
  the options; a `fork` that fails, and a command that writes nothing, after
  which the code parses what the buffer held.

## 6. Plan

1. *(done)* `RequestQueue`, its channel and its invariants; `Accounts` and its
   ledger; the theorems on the queue.
2. *(done)* `HomeBanking`: the user processes and the server together.
3. *(done)* `Arguments`, the requests of `Accounts` taken from it, and its
   theorems.
4. *(done)* `Forensic`: processes, signals that merge and interrupt each other,
   buffered output, the wrong child waited for.
5. *(done)* Proofs of every invariant and refinement of the passing runs.
6. What is left to prove: that the hypotheses of the theorems on `Accounts` are
   met by larger classes of requests than one creation (`SingleCreation`), such
   as creations whose user waits for the answer before the next.
