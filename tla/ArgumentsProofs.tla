-------------------------- MODULE ArgumentsProofs --------------------------
(* What a request is sure to hold once init has accepted the command line   *)
(* and the password of the login fits its field.                            *)
EXTENDS Arguments, TLAPS

-----------------------------------------------------------------------------
\* Conversions to and from words stay in the word, and agree with each other.
LEMMA WordArithmetic ==
  ASSUME NEW x \in Int
  PROVE  /\ ToWord(x) \in Word
         /\ ToInt(ToWord(x)) \in - (Modulus \div 2) .. Modulus \div 2 - 1
         /\ ToInt(ToWord(x)) >= 0 => ToWord(ToInt(ToWord(x))) = ToInt(ToWord(x))
PROOF
<1>1. Modulus \in Nat \ {0} /\ Modulus % 2 = 0
  BY ArgumentsAssumption
<1>2. x % Modulus \in 0 .. Modulus - 1
  BY <1>1
<1>3. 2 * (Modulus \div 2) = Modulus
  BY <1>1
<1>4. \A y \in 0 .. Modulus - 1 : y % Modulus = y
  BY <1>1
<1>5. Modulus \div 2 \in Nat /\ Modulus \div 2 <= Modulus
  BY <1>1
<1> QED
  BY <1>1, <1>2, <1>3, <1>4, <1>5 DEF ToWord, ToInt, Word

\* strtol never leaves the integers, whatever is written.
LEMMA StrtolIsInt ==
  ASSUME NEW t \in TokenType
  PROVE  Strtol(t) \in Int
PROOF
<1>1. Long \in Int
  BY ArgumentsAssumption DEF Long
<1> QED
  BY <1>1 DEF Strtol, TokenType

\* A word no longer than an identifier may be is read as the number it is.
LEMMA ShortIsExact ==
  ASSUME NEW t \in Tokens, t.length <= WIDTH_ACCOUNT
  PROVE  Atoi(t) = t.value
PROOF
<1> DEFINE half == Modulus \div 2
<1>1. Modulus \in Nat \ {0} /\ half \in Nat /\ 2 * half = Modulus
  BY ArgumentsAssumption
<1>2. t.value \in - half .. half - 1
  BY ArgumentsAssumption
<1>3. half <= Long /\ Long \in Nat
  <2>1. half >= 1
    BY <1>1
  <2>2. Modulus * Modulus = 2 * (half * Modulus)
    BY <1>1
  <2>3. half * Modulus \in Nat /\ half * Modulus >= half
    BY <1>1
  <2>4. Long = half * Modulus
    BY <2>2, <2>3 DEF Long
  <2> QED
    BY <2>3, <2>4
<1>4. Strtol(t) = t.value
  BY <1>1, <1>2, <1>3 DEF Strtol
<1>5. CASE t.value >= 0
  <2>1. t.value % Modulus = t.value
    BY <1>1, <1>2, <1>5
  <2> QED
    BY <1>1, <1>2, <1>4, <1>5, <2>1 DEF Atoi, ToInt, ToWord
<1>6. CASE t.value < 0
  <2>1. t.value % Modulus = t.value + Modulus
    BY <1>1, <1>2, <1>6
  <2> QED
    BY <1>1, <1>2, <1>4, <1>6, <2>1 DEF Atoi, ToInt, ToWord
<1> QED
  BY <1>2, <1>5, <1>6

\* What FirstFailure returns is a status of the list, and 0 only when all are:
\* four tests at most are made in a row.
LEMMA FirstFailureIsOne ==
  ASSUME NEW s \in Seq(Int), Len(s) <= 4
  PROVE  /\ FirstFailure(s) \in Int
         /\ FirstFailure(s) = 0 => \A i \in DOMAIN s : s[i] = 0
PROOF
<1> DEFINE failed == {i \in DOMAIN s : s[i] # 0}
<1>1. CASE failed = {}
  BY <1>1 DEF FirstFailure
<1>2. CASE failed # {}
  <2>1. \A i \in failed : i = 1 \/ i = 2 \/ i = 3 \/ i = 4
    OBVIOUS
  <2>2. \E i \in failed : \A j \in failed : i <= j
    <3> HIDE DEF failed
    <3>1. CASE 1 \in failed
      BY <3>1, <2>1
    <3>2. CASE 1 \notin failed /\ 2 \in failed
      BY <3>2, <2>1
    <3>3. CASE 1 \notin failed /\ 2 \notin failed /\ 3 \in failed
      BY <3>3, <2>1
    <3>4. CASE 1 \notin failed /\ 2 \notin failed /\ 3 \notin failed
      BY <3>4, <2>1, <1>2
    <3> QED
      BY <3>1, <3>2, <3>3, <3>4
  <2>3. FirstFailure(s) = s[CHOOSE i \in failed : \A j \in failed : i <= j]
    BY <1>2 DEF FirstFailure
  <2>4. (CHOOSE i \in failed : \A j \in failed : i <= j) \in failed
    <3> HIDE DEF failed
    <3> QED
      BY <2>2
  <2> QED
    BY <2>3, <2>4
<1> QED
  BY <1>1, <1>2

\* The two lengths there are.
LEMMA ThreeTests ==
  ASSUME NEW x \in Int, NEW y \in Int, NEW z \in Int
  PROVE  /\ FirstFailure(<<x, y, z>>) \in Int
         /\ FirstFailure(<<x, y, z>>) = 0 => x = 0 /\ y = 0 /\ z = 0
PROOF
<1>1. ASSUME NEW s \in Seq(Int), Len(s) = 3
      PROVE  FirstFailure(s) \in Int /\ (FirstFailure(s) = 0 => s[1] = 0 /\ s[2] = 0 /\ s[3] = 0)
  <2>1. FirstFailure(s) \in Int /\ (FirstFailure(s) = 0 => \A i \in DOMAIN s : s[i] = 0)
    <3>1. Len(s) <= 4
      BY <1>1
    <3> QED
      BY <3>1, FirstFailureIsOne
  <2>2. 1 \in DOMAIN s /\ 2 \in DOMAIN s /\ 3 \in DOMAIN s
    BY <1>1
  <2> QED
    BY <2>1, <2>2
<1>2. <<x, y, z>> \in Seq(Int) /\ Len(<<x, y, z>>) = 3
  OBVIOUS
<1>3. <<x, y, z>>[1] = x /\ <<x, y, z>>[2] = y /\ <<x, y, z>>[3] = z
  OBVIOUS
<1>4. /\ FirstFailure(<<x, y, z>>) \in Int
      /\ FirstFailure(<<x, y, z>>) = 0 => <<x, y, z>>[1] = 0 /\ <<x, y, z>>[2] = 0 /\ <<x, y, z>>[3] = 0
  BY <1>1, <1>2, Zenon
<1> QED
  BY <1>3, <1>4

\* The same for four tests.
LEMMA FourTests ==
  ASSUME NEW w \in Int, NEW x \in Int, NEW y \in Int, NEW z \in Int
  PROVE  /\ FirstFailure(<<w, x, y, z>>) \in Int
         /\ FirstFailure(<<w, x, y, z>>) = 0 => w = 0 /\ x = 0 /\ y = 0 /\ z = 0
PROOF
<1>1. ASSUME NEW s \in Seq(Int), Len(s) = 4
      PROVE  FirstFailure(s) \in Int /\ (FirstFailure(s) = 0 => s[1] = 0 /\ s[2] = 0 /\ s[3] = 0 /\ s[4] = 0)
  <2>1. FirstFailure(s) \in Int /\ (FirstFailure(s) = 0 => \A i \in DOMAIN s : s[i] = 0)
    <3>1. Len(s) <= 4
      BY <1>1
    <3> QED
      BY <3>1, FirstFailureIsOne
  <2>2. 1 \in DOMAIN s /\ 2 \in DOMAIN s /\ 3 \in DOMAIN s /\ 4 \in DOMAIN s
    BY <1>1
  <2> QED
    BY <2>1, <2>2
<1>2. <<w, x, y, z>> \in Seq(Int) /\ Len(<<w, x, y, z>>) = 4
  OBVIOUS
<1>3. <<w, x, y, z>>[1] = w /\ <<w, x, y, z>>[2] = x /\ <<w, x, y, z>>[3] = y /\ <<w, x, y, z>>[4] = z
  OBVIOUS
<1>4. /\ FirstFailure(<<w, x, y, z>>) \in Int
      /\ FirstFailure(<<w, x, y, z>>) = 0 => <<w, x, y, z>>[1] = 0 /\ <<w, x, y, z>>[2] = 0 /\ <<w, x, y, z>>[3] = 0 /\ <<w, x, y, z>>[4] = 0
  BY <1>1, <1>2, Zenon
<1> QED
  BY <1>3, <1>4

\* An amount that is read as positive is the word that is sent.
LEMMA PositiveIsWord ==
  ASSUME NEW x \in Int, ToInt(ToWord(x)) >= 1
  PROVE  ToWord(ToInt(ToWord(x))) >= 1
PROOF
  BY WordArithmetic, ArgumentsAssumption

-----------------------------------------------------------------------------
\* A word of the argument list is a token or strtok's NULL.
LEMMA WordOfList ==
  ASSUME NEW list \in ArgListType, NEW i \in Nat
  PROVE  /\ Strtol(Token(list, i)) \in Int
         /\ Atoi(Token(list, i)) \in Int
         /\ Token(list, i).text \in Passwords
PROOF
<1>1. Token(list, i) \in Tokens \cup {NoToken}
  BY DEF Token, ArgListType
<1>2. ASSUME NEW t \in Tokens \cup {NoToken}
      PROVE  Strtol(t) \in Int /\ Atoi(t) \in Int /\ t.text \in Passwords
  <2>1. t.value \in Int /\ t.text \in Passwords
    BY ArgumentsAssumption DEF TokenType, NoToken
  <2>2. Long \in Int /\ Modulus \in Nat \ {0}
    BY ArgumentsAssumption DEF Long
  <2>3. Strtol(t) \in Int
    BY <2>1, <2>2 DEF Strtol
  <2>4. ToInt(ToWord(Strtol(t))) \in Int
    BY <2>2, <2>3 DEF ToInt, ToWord
  <2> QED
    BY <2>1, <2>3, <2>4 DEF Atoi
<1> QED
  BY <1>1, <1>2

\* What init tests, of every command line it accepts.
LEMMA AcceptedPasses ==
  ASSUME NEW c \in CommandLine, Status(c) = 0
  PROVE  /\ c.argc = 6 /\ validateDelay(c.delay) = 0
         /\ Op(c) = "OP_CREATE_ACCOUNT" =>
              /\ validateArgList(c.argList, 3) = 0
              /\ validateAccountID(Token(c.argList, 1)) = 0
              /\ validateBalance(Token(c.argList, 2)) = 0
              /\ validatePassword(Token(c.argList, 3)) = 0
         /\ Op(c) = "OP_TRANSFER" =>
              /\ validateArgList(c.argList, 2) = 0
              /\ validateAccountID(Token(c.argList, 1)) = 0
              /\ validateAmount(Token(c.argList, 2)) = 0
PROOF
<1> DEFINE list == c.argList
           account == validateAccountID(Token(list, 1))
           balance == validateBalance(Token(list, 2))
           amount == validateAmount(Token(list, 2))
           pass == validatePassword(Token(list, 3))
           create == FirstFailure(<<validateArgList(list, 3), account, balance, pass>>)
           transfer == FirstFailure(<<validateArgList(list, 2), account, amount>>)
<1>1. \A n \in Int : validateArgList(list, n) \in Int
  BY DEF validateArgList
<1>2. account \in Int /\ balance \in Int /\ amount \in Int /\ pass \in Int
        /\ validateDelay(c.delay) \in Int
  BY DEF validateAccountID, validateBalance, validatePassword, validateAmount,
         validateDelay, Verdict, Crash
<1>3. create \in Int /\ (create = 0 => /\ validateArgList(list, 3) = 0 /\ account = 0
                                       /\ balance = 0 /\ pass = 0)
  <2> HIDE DEF account, balance, pass
  <2> QED
    BY <1>1, <1>2, FourTests
<1>4. transfer \in Int /\ (transfer = 0 => /\ validateArgList(list, 2) = 0
                                           /\ account = 0 /\ amount = 0)
  <2> HIDE DEF account, amount
  <2> QED
    BY <1>1, <1>2, ThreeTests
<1>5. fillOperationInfo(Op(c), list) \in Int
  <2> HIDE DEF account, balance, amount, pass, create, transfer
  <2>1. fillOperationInfo(Op(c), list) = CASE Op(c) = "OP_CREATE_ACCOUNT" -> create
                                           [] Op(c) = "OP_TRANSFER" -> transfer
                                           [] OTHER -> 0
    BY DEF fillOperationInfo, account, balance, amount, pass, create, transfer
  <2> QED
    BY <1>3, <1>4, <2>1
<1>6. c.argc = 6 /\ fillOperationInfo(Op(c), list) = 0 /\ validateDelay(c.delay) = 0
  <2> DEFINE argcStatus == IF c.argc = 6 THEN 0 ELSE 1
             opStatus == fillOperationInfo(Op(c), list)
             delayStatus == validateDelay(c.delay)
  <2>1. FirstFailure(<<argcStatus, opStatus, delayStatus>>) = 0
    BY DEF Status
  <2>2. argcStatus \in Int /\ (argcStatus = 0 => c.argc = 6)
    OBVIOUS
  <2> HIDE DEF argcStatus, opStatus, delayStatus
  <2>3. opStatus \in Int /\ delayStatus \in Int
    BY <1>2, <1>5 DEF opStatus, delayStatus
  <2>4. argcStatus = 0 /\ opStatus = 0 /\ delayStatus = 0
    BY <2>1, <2>2, <2>3, ThreeTests
  <2> QED
    BY <2>2, <2>4 DEF opStatus, delayStatus
<1>7. Op(c) = "OP_CREATE_ACCOUNT" => create = 0
  BY <1>6 DEF fillOperationInfo
<1>8. Op(c) = "OP_TRANSFER" => transfer = 0
  BY <1>6 DEF fillOperationInfo
<1> QED
  BY <1>3, <1>4, <1>6, <1>7, <1>8

\* A login that fits is undefined behaviour nowhere: init has one outcome.
LEMMA LoginThatFits ==
  ASSUME NEW c, LoginFits(c), NEW pid
  PROVE  Statuses(c) = {Status(c)} /\ RequestsOf(pid, c) = {RequestOf(pid, c)}
PROOF
  BY DEF Statuses, RequestsOf, Overruns

\* What the server can rely on: an accepted request is well typed, names an
\* account identifier the array was dimensioned for, but for the last, and an
\* amount between 1 or MIN_BALANCE and MAX_BALANCE.  That the password of the
\* login fits is a hypothesis, as it is the one word init does not test; of the
\* others any number, length and count will do.  (init in user.c)
THEOREM AcceptedInRange ==
  ASSUME NEW c \in CommandLine, LoginFits(c), 0 \in Statuses(c),
         NEW pid \in Nat, NEW r \in RequestsOf(pid, c)
  PROVE  /\ r \in RequestType
         /\ r.type \in {"OP_CREATE_ACCOUNT", "OP_TRANSFER"} =>
              r.target \in 0 .. MAX_BANK_ACCOUNTS
         /\ r.type = "OP_CREATE_ACCOUNT" => r.amount \in MIN_BALANCE .. MAX_BALANCE
         /\ r.type = "OP_TRANSFER" => r.amount \in 1 .. MAX_BALANCE
PROOF
<1> DEFINE list == c.argList
<1>0. Status(c) = 0 /\ r = RequestOf(pid, c)
  BY LoginThatFits
<1>1. list \in ArgListType /\ c.idConta \in Tokens /\ c.password \in Tokens
  BY DEF CommandLine
<1>2. c.idConta \in TokenType /\ c.password \in TokenType /\ Atoi(c.idConta) \in Int
  <2>1. c.idConta \in TokenType /\ c.password \in TokenType
    BY <1>1, ArgumentsAssumption
  <2> QED
    BY <2>1, StrtolIsInt, WordArithmetic DEF Atoi
<1>3. \A i \in Nat : Atoi(Token(list, i)) \in Int /\ Token(list, i).text \in Passwords
  BY <1>1, WordOfList
<1>4. r \in RequestType
  <2>1. Op(c) \in OpTypes
    BY DEF Op, OpTypes
  <2>2. \A x \in Int : ToWord(x) \in Word
    BY WordArithmetic
  <2> QED
    BY <1>0, <1>2, <1>3, <2>1, <2>2 DEF RequestOf, RequestType, TokenType
<1>5. \A i \in Nat : ToWord(Atoi(Token(list, i))) \in Word
  BY <1>3, WordArithmetic
<1>6. MAX_BANK_ACCOUNTS \in Nat /\ MAX_BALANCE \in Nat
  BY ArgumentsAssumption
<1>7. ToWord(Atoi(Token(list, 1))) \in Nat /\ ToWord(Atoi(Token(list, 2))) \in Nat
  <2>1. ASSUME NEW i \in {1, 2}
        PROVE  ToWord(Atoi(Token(list, i))) \in Nat
    <3>1. ToWord(Atoi(Token(list, i))) \in Word
      BY <1>5
    <3> QED
      BY <3>1, ArgumentsAssumption DEF Word
  <2> QED
    BY <2>1
<1>8. /\ r.type = Op(c)
      /\ r.target = ToWord(Atoi(Token(list, 1)))
      /\ r.amount = ToWord(Atoi(Token(list, 2)))
  BY <1>0 DEF RequestOf
<1>9. CASE Op(c) = "OP_CREATE_ACCOUNT"
  <2>1. ToWord(Atoi(Token(list, 1))) <= MAX_BANK_ACCOUNTS
    BY <1>0, <1>9, AcceptedPasses DEF validateAccountID, Verdict, Crash
  <2>2. ToWord(Atoi(Token(list, 2))) \in MIN_BALANCE .. MAX_BALANCE
    BY <1>0, <1>9, AcceptedPasses DEF validateBalance, Verdict, Crash
  <2>3. ToWord(Atoi(Token(list, 1))) \in 0 .. MAX_BANK_ACCOUNTS
    BY <2>1, <1>7, <1>6
  <2> QED
    BY <1>4, <1>8, <1>9, <2>2, <2>3
<1>10. CASE Op(c) = "OP_TRANSFER"
  <2>1. ToWord(Atoi(Token(list, 1))) <= MAX_BANK_ACCOUNTS
    BY <1>0, <1>10, AcceptedPasses DEF validateAccountID, Verdict, Crash
  <2>2. Atoi(Token(list, 2)) >= 1 /\ ToWord(Atoi(Token(list, 2))) <= MAX_BALANCE
    BY <1>0, <1>10, AcceptedPasses DEF validateAmount, Verdict, Crash
  <2>3. ToWord(Atoi(Token(list, 1))) \in 0 .. MAX_BANK_ACCOUNTS
    BY <2>1, <1>7, <1>6
  <2>4. ToWord(Atoi(Token(list, 2))) >= 1
    BY <1>1, <2>2, WordOfList, PositiveIsWord DEF Atoi
  <2>5. ToWord(Atoi(Token(list, 2))) \in 1 .. MAX_BALANCE
    BY <1>7, <1>6, <2>2, <2>4
  <2> QED
    BY <1>4, <1>8, <1>10, <2>3, <2>5
<1>11. CASE Op(c) \notin {"OP_CREATE_ACCOUNT", "OP_TRANSFER"}
  BY <1>4, <1>8, <1>11
<1> QED
  BY <1>9, <1>10, <1>11

\* The identifier that is sent is the one that was written: WIDTH_ACCOUNT keeps
\* it short enough for an int.  Amounts have no such limit, and 4294967297 is
\* accepted as 1.  (validateAccountID in utility.c)
THEOREM IdentifierIsExact ==
  ASSUME NEW c \in CommandLine, LoginFits(c), 0 \in Statuses(c),
         Op(c) \in {"OP_CREATE_ACCOUNT", "OP_TRANSFER"},
         NEW pid \in Nat, NEW r \in RequestsOf(pid, c)
  PROVE  r.target = Token(c.argList, 1).value
PROOF
<1> DEFINE t == Token(c.argList, 1)
<1>0. Status(c) = 0 /\ r = RequestOf(pid, c)
  BY LoginThatFits
<1>1. t # NoToken /\ Atoi(t) >= 0 /\ t.length <= WIDTH_ACCOUNT
  BY <1>0, AcceptedPasses DEF validateAccountID, Verdict, Crash
<1>2. t \in Tokens
  BY <1>1 DEF CommandLine, ArgListType, Token
<1>3. Atoi(t) = t.value
  BY <1>1, <1>2, ShortIsExact
<1>4. Strtol(t) \in Int
  BY <1>2, ArgumentsAssumption, StrtolIsInt
<1>5. ToWord(Atoi(t)) = Atoi(t)
  BY <1>1, <1>4, WordArithmetic DEF Atoi
<1> QED
  BY <1>0, <1>3, <1>5 DEF RequestOf
=============================================================================
