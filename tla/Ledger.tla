------------------------------- MODULE Ledger -------------------------------
(***************************************************************************)
(* What the server promises about money.  Each step is one effect on the   *)
(* accounts as a whole; a request is answered RC_OK if it had its effect   *)
(* and otherwise if it had none.  The server does not promise to refuse    *)
(* every transfer it should refuse (see BalanceInRange in Accounts.tla),   *)
(* so a transfer may be made whatever the balances.                        *)
(***************************************************************************)
EXTENDS Integers

CONSTANTS Requests, Opening, Modulus

VARIABLES
  accounts,  \* accounts[id]: password and balance of account id
  opened,    \* creations that had their effect
  moved,     \* transfers that had theirs
  answer     \* answer[r]: the return code of request r, or "none"

vars == <<accounts, opened, moved, answer>>

IDs == DOMAIN accounts

Init ==
  /\ accounts =
       [id \in {Opening[i].account_id : i \in DOMAIN Opening} |->
          LET i == CHOOSE j \in DOMAIN Opening : Opening[j].account_id = id
          IN [password |-> Opening[i].password, balance |-> Opening[i].balance]]
  /\ opened = {} /\ moved = {}
  /\ answer = [r \in Requests |-> "none"]

\* The request carries the password of the account it is made from.
Authorised(r) == r.account_id \in IDs /\ accounts[r.account_id].password = r.password

Open(r) ==
  /\ r.type = "OP_CREATE_ACCOUNT" /\ r \notin opened /\ answer[r] = "none"
  /\ r.account_id = 0 /\ Authorised(r)
  /\ r.target \notin IDs
  /\ accounts' = [id \in IDs \cup {r.target} |->
                    IF id = r.target
                    THEN [password |-> r.newPassword, balance |-> r.amount]
                    ELSE accounts[id]]
  /\ opened' = opened \cup {r}
  /\ UNCHANGED <<moved, answer>>

Move(r) ==
  /\ r.type = "OP_TRANSFER" /\ r \notin moved /\ answer[r] = "none"
  /\ Authorised(r)
  /\ r.target \in IDs \ {r.account_id}
  /\ accounts' = [accounts EXCEPT
       ![r.account_id].balance = (@ - r.amount) % Modulus,
       ![r.target].balance     = (@ + r.amount) % Modulus]
  /\ moved' = moved \cup {r}
  /\ UNCHANGED <<opened, answer>>

Answer(r, code) ==
  /\ answer[r] = "none"
  /\ r.type = "OP_CREATE_ACCOUNT" => (code = "RC_OK") <=> (r \in opened)
  /\ r.type = "OP_TRANSFER"       => (code = "RC_OK") <=> (r \in moved)
  /\ r.type = "OP_BALANCE" /\ code = "RC_OK" => Authorised(r)
  /\ answer' = [answer EXCEPT ![r] = code]
  /\ UNCHANGED <<accounts, opened, moved>>

Codes == {"RC_OK", "RC_LOGIN_FAIL", "RC_OP_NALLOW", "RC_ID_IN_USE",
          "RC_ID_NOT_FOUND", "RC_SAME_ID", "RC_NO_FUNDS", "RC_TOO_HIGH", "RC_OTHER"}

Next ==
  \E r \in Requests : Open(r) \/ Move(r) \/ \E code \in Codes : Answer(r, code)

Spec == Init /\ [][Next]_vars
=============================================================================
