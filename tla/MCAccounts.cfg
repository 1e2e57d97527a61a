\* Three calls of any kind, on an empty table or beside an account.
SPECIFICATION Spec
CONSTANTS
  r1 = r1  r2 = r2  r3 = r3  i1 = i1  i2 = i2  i3 = i3
  lower = lower  mixed = mixed  secret = secret  padded = padded  other = other
  None = None
  Requests = {r1, r2, r3}
  Ids = {i1, i2}
  Emails = {lower, mixed}
  Passwords = {secret, padded, other}
  Lower <- MCLower
  Strip <- MCStrip
  Existing <- MCExisting
  Faults = {"db_error", "deactivate"}
SYMMETRY RequestSymmetry
INVARIANTS TypeOK OneAccountPerMailbox RegistrationsAreDecided AnswersMatchEffects NewAccountsCanLogIn PasswordsAreProved
PROPERTIES AccountsKeepTheirIdentity
