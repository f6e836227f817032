SPECIFICATION Spec
CONSTANTS
  o1 = o1
  o2 = o2
  adminPass = adminPass
  anaPass = anaPass
  ruiPass = ruiPass
  evaPass = evaPass
  NoPassword = NoPassword
  Nobody = Nobody
  Offices = {o1, o2}
  Requests <- TwoTransfers
  Opening <- MCOpening
  Passwords <- MCPasswords
  MAX_BANK_ACCOUNTS = 4
  MIN_BALANCE = 1
  MAX_BALANCE = 5
  MIN_PASSWORD_LEN = 8
  MAX_PASSWORD_LEN = 20
  MAX_OP_DELAY_MS = 5
  WIDTH_ACCOUNT = 1
  WIDTH_BALANCE = 2
  Modulus = 40
  Tokens <- MCTokens
INVARIANTS
  BalanceInRange
CHECK_DEADLOCK FALSE
