----------------------------- MODULE Arguments -----------------------------
(***************************************************************************)
(* From the command line of a user process to the request it sends: init,  *)
(* fillOperationInfo and fillHeader of user.c with the validate functions  *)
(* of utility.c.                                                           *)
(*                                                                         *)
(* A word of the command line is what strtol reads in it, its length and   *)
(* the password it would be.  The list of arguments is cut by strtok, for  *)
(* which several spaces are one.  Words hold no spaces, so that the second *)
(* test of validatePassword never fails.                                   *)
(*                                                                         *)
(* The password of the login is copied without a test of its length.  One  *)
(* that is too long is undefined behaviour: see Overruns.                  *)
(***************************************************************************)
EXTENDS Integers, Sequences

CONSTANTS
  Passwords,
  Tokens,             \* the words on command lines
  MAX_BANK_ACCOUNTS,
  MIN_BALANCE,
  MAX_BALANCE,
  MIN_PASSWORD_LEN,
  MAX_PASSWORD_LEN,
  MAX_OP_DELAY_MS,
  WIDTH_ACCOUNT,
  WIDTH_BALANCE,
  Modulus             \* 2^32: int and uint32_t have 32 bits

Word == 0 .. Modulus - 1

\* (uint32_t)x of an int and (int)x of an unsigned.
ToWord(x) == x % Modulus
ToInt(x) == IF x < Modulus \div 2 THEN x ELSE x - Modulus

TokenType == [value : Int, length : Nat, text : Passwords]

\* The last: as many digits as validateAccountID lets through fit an int.
ASSUME ArgumentsAssumption ==
  /\ Modulus \in Nat \ {0} /\ Modulus % 2 = 0
  /\ MAX_BANK_ACCOUNTS \in Nat /\ MIN_BALANCE \in Nat
  /\ MAX_BALANCE \in Nat /\ 4 * MAX_BALANCE < Modulus
  /\ MIN_PASSWORD_LEN \in Nat /\ MAX_PASSWORD_LEN \in Nat
  /\ MAX_OP_DELAY_MS \in Nat
  /\ WIDTH_ACCOUNT \in Nat /\ WIDTH_BALANCE \in Nat
  /\ Passwords # {} /\ Tokens \subseteq TokenType
  /\ \A t \in Tokens : t.length <= WIDTH_ACCOUNT =>
       t.value \in - (Modulus \div 2) .. Modulus \div 2 - 1

\* strtok's NULL.
NoToken == [value |-> 0, length |-> -1, text |-> CHOOSE p \in Passwords : TRUE]

ArgListType == [spaces : Nat, tokens : Seq(Tokens)]
Token(list, i) == IF i \in DOMAIN list.tokens THEN list.tokens[i] ELSE NoToken

CommandLine == [argc : Nat, idConta : Tokens, password : Tokens, delay : Tokens,
                op : Tokens, argList : ArgListType]

\* strtol stops at the limits of a long, of twice as many bits; atoi is the
\* int in its low half.
Long == (Modulus * Modulus) \div 2
Strtol(t) == IF t.value >= Long THEN Long - 1
             ELSE IF t.value < -Long THEN -Long ELSE t.value
Atoi(t) == ToInt(ToWord(Strtol(t)))

-----------------------------------------------------------------------------
(* Each validate function is the status it exits with, or 0.               *)

Crash == 139  \* stands for the end by any signal; 139 is SIGSEGV's
Verdict(t, valid, status) ==
  IF t = NoToken THEN Crash ELSE IF valid THEN 0 ELSE status

validateAccountID(t) ==
  Verdict(t, /\ Atoi(t) >= 0 /\ ToWord(Atoi(t)) <= MAX_BANK_ACCOUNTS
             /\ t.length <= WIDTH_ACCOUNT, 1)

validateBalance(t) ==
  Verdict(t, /\ ToWord(Atoi(t)) \in MIN_BALANCE .. MAX_BALANCE
             /\ t.length <= WIDTH_BALANCE, 2)

validatePassword(t) ==
  Verdict(t, t.length \in MIN_PASSWORD_LEN .. MAX_PASSWORD_LEN, 3)

validateAmount(t) ==
  Verdict(t, Atoi(t) >= 1 /\ ToWord(Atoi(t)) <= MAX_BALANCE, 4)

validateDelay(t) ==
  Verdict(t, Atoi(t) >= 1 /\ ToWord(Atoi(t)) <= MAX_OP_DELAY_MS, 5)

\* Counts spaces, not words.
validateArgList(list, number) == IF list.spaces + 1 = number THEN 0 ELSE 6

-----------------------------------------------------------------------------
OpTypes == {"OP_CREATE_ACCOUNT", "OP_BALANCE", "OP_TRANSFER", "OP_SHUTDOWN",
            "__OP_MAX_NUMBER"}  \* the last stands for every other number

Op(c) ==
  LET n == Atoi(c.op) IN
  CASE n = 0 -> "OP_CREATE_ACCOUNT" [] n = 1 -> "OP_BALANCE"
    [] n = 2 -> "OP_TRANSFER"       [] n = 3 -> "OP_SHUTDOWN"
    [] OTHER -> "__OP_MAX_NUMBER"

FirstFailure(statuses) ==
  LET failed == {i \in DOMAIN statuses : statuses[i] # 0}
  IN  IF failed = {} THEN 0
      ELSE statuses[CHOOSE i \in failed : \A j \in failed : i <= j]

fillOperationInfo(op, list) ==
  CASE op = "OP_CREATE_ACCOUNT" ->
         FirstFailure(<<validateArgList(list, 3), validateAccountID(Token(list, 1)),
                        validateBalance(Token(list, 2)), validatePassword(Token(list, 3))>>)
    [] op = "OP_TRANSFER" ->
         FirstFailure(<<validateArgList(list, 2), validateAccountID(Token(list, 1)),
                        validateAmount(Token(list, 2))>>)
    [] OTHER -> 0

\* What the tests of init find: the status of the first that fails, or 0.
Status(c) ==
  FirstFailure(<<IF c.argc = 6 THEN 0 ELSE 1, fillOperationInfo(Op(c), c.argList),
                 validateDelay(c.delay)>>)

\* strcpy(header->password, argv[2]), between the tests of the operation's
\* arguments and that of the delay, into a field of MAX_PASSWORD_LEN + 1 bytes.
LoginFits(c) == c.password.length <= MAX_PASSWORD_LEN
Overruns(c) ==
  c.argc = 6 /\ fillOperationInfo(Op(c), c.argList) = 0 /\ ~LoginFits(c)

\* The statuses init may end with, 0 standing for a command line it accepts.
\* What is written past the field may end the process, or spoil the delay that
\* is tested next.
Statuses(c) == {Status(c)} \cup (IF Overruns(c) THEN {0, 5, Crash} ELSE {})

\* The request made of the words.  target, amount and newPassword are the fields of
\* value.create or value.transfer; an operation without them leaves them unset
\* and no office reads them.
RequestType == [pid : Nat, type : OpTypes, account_id : Word, password : Passwords,
                target : Word, amount : Word, newPassword : Passwords]

RequestOf(pid, c) ==
  [pid         |-> pid,
   type        |-> Op(c),
   account_id  |-> ToWord(Atoi(c.idConta)),
   password    |-> c.password.text,
   target      |-> ToWord(Atoi(Token(c.argList, 1))),
   amount      |-> ToWord(Atoi(Token(c.argList, 2))),
   newPassword |-> Token(c.argList, 3).text]

\* The requests that may be sent: nothing is known of one that was overwritten.
RequestsOf(pid, c) == IF Overruns(c) THEN RequestType ELSE {RequestOf(pid, c)}
=============================================================================
