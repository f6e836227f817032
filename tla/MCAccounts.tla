----------------------------- MODULE MCAccounts -----------------------------
(* Accounts on small instances: balances between 1 and 4, or 5 where two     *)
(* transfers overdraw, in words modulo 40, identifiers of one digit, balances *)
(* of two.                                                                   *)
EXTENDS Accounts

CONSTANTS adminPass, anaPass, ruiPass, evaPass

MCPasswords == {adminPass, anaPass, ruiPass, evaPass}

Number(n) == [value |-> n, length |-> IF n \in 0 .. 9 THEN 1 ELSE 2, text |-> adminPass]
Secret(p) == [value |-> 0, length |-> 8, text |-> p]
TooLong == [value |-> 0, length |-> MAX_PASSWORD_LEN + 1, text |-> ruiPass]
MCTokens == {Number(n) : n \in -1 .. 9} \cup {Number(42)} \cup
            {Secret(p) : p \in MCPasswords} \cup {TooLong}

\* The administrator and two clients.
MCOpening ==
  [i \in 0 .. 2 |->
     [account_id |-> i,
      password   |-> IF i = 0 THEN adminPass ELSE IF i = 1 THEN anaPass ELSE ruiPass,
      balance    |-> IF i = 0 THEN 0 ELSE 4 - i]]

-----------------------------------------------------------------------------
(* Command lines, and the requests of the users whose line is accepted and *)
(* whose password fits.                                                    *)

Command(account_id, password, op, tokens) ==
  [argc |-> 6, idConta |-> Number(account_id), password |-> Secret(password),
   delay |-> Number(1), op |-> Number(op),
   argList |-> [spaces |-> IF tokens = << >> THEN 0 ELSE Len(tokens) - 1,
                tokens |-> tokens]]

Create(target, balance, newPassword) ==
  Command(0, adminPass, 0, <<Number(target), Number(balance), Secret(newPassword)>>)
Balance(account_id, password) == Command(account_id, password, 1, << >>)
Transfer(account_id, password, target, amount) ==
  Command(account_id, password, 2, <<Number(target), Number(amount)>>)
Shutdown(account_id, password) == Command(account_id, password, 3, << >>)

Sent(commands) ==
  LET users == {p \in DOMAIN commands : LoginFits(commands[p]) /\ 0 \in Statuses(commands[p])}
  IN  UNION {RequestsOf(pid, commands[pid]) : pid \in users}

\* Every operation and every return code; a balance of 42 is read as 2.
Accepted ==
  <<Transfer(1, anaPass, 2, 2), Transfer(2, ruiPass, 3, 2), Transfer(3, evaPass, 2, 1),
    Transfer(1, anaPass, 1, 1), Transfer(1, ruiPass, 2, 1), Create(3, 42, evaPass),
    Create(2, 1, evaPass), Balance(2, ruiPass), Command(0, adminPass, 5, << >>),
    Shutdown(2, ruiPass)>>

\* What init refuses, for each reason it has; the last has two spaces in a row.
Refused ==
  <<[Balance(2, ruiPass) EXCEPT !.argc = 5], Create(7, 2, evaPass), Create(-1, 2, evaPass),
    Create(4, 0, evaPass), Create(4, 6, evaPass),
    Command(0, adminPass, 0, <<Number(4), Number(2), Number(2)>>),
    Transfer(1, anaPass, 2, 0), Transfer(1, anaPass, 2, 6),
    [Balance(2, ruiPass) EXCEPT !.delay = Number(0)],
    [Balance(2, ruiPass) EXCEPT !.delay = Number(6)],
    Command(1, anaPass, 2, <<Number(2)>>),
    [Command(1, anaPass, 2, <<Number(2)>>) EXCEPT !.argList.spaces = 1]>>

\* Passes every test, or fails that of the delay, with a password that does not fit.
Spoiled == [Balance(2, ruiPass) EXCEPT !.password = TooLong]
SpoiledLate == [Spoiled EXCEPT !.delay = Number(0)]

ASSUME EveryStatus ==
  /\ \A i \in DOMAIN Accepted : Accepted[i] \in CommandLine /\ Statuses(Accepted[i]) = {0}
  /\ {{status} : status \in 1 .. 6 \cup {Crash}}
       = {Statuses(Refused[i]) : i \in DOMAIN Refused}
  /\ Spoiled \in CommandLine
  /\ Statuses(Spoiled) = {0, 5, Crash} /\ Statuses(SpoiledLate) = {0, 5, Crash}

\* Transfers both ways between two accounts, to one being created and from
\* it, and a transfer that the source cannot always pay.
Crossing == Sent(<<Transfer(1, anaPass, 2, 1), Transfer(2, ruiPass, 1, 1),
                   Create(3, 2, evaPass), Transfer(3, evaPass, 1, 1),
                   Transfer(2, ruiPass, 3, 2)>>)

EveryOne == Sent(Accepted \o Refused)

\* Two transfers from one account that cannot pay both, to one that has room for
\* both if MAX_BALANCE is 5; if it is 4, both may still find room, and do not fit.
Overdraw == Sent(<<Transfer(1, anaPass, 2, 1), Transfer(1, anaPass, 2, 2)>>)

\* Two accounts created at the same time.
Creating == Sent(<<Create(3, 2, evaPass), Create(4, 1, anaPass)>>)

\* TLC computes a definition once, and again at each use what a configuration
\* puts in the place of a constant: these are only names.
ConcurrentRequests == Crossing
SerialRequests == EveryOne
TwoTransfers == Overdraw
TwoCreations == Creating
=============================================================================
