CONSTANTS
  u1 = u1
  u2 = u2
  ann = ann
  annUpper = annUpper
  bob = bob
  noAddress = noAddress
  k1 = k1
  k2 = k2
  k3 = k3
  Users = {u1, u2}
  Spellings = {ann, annUpper, bob, noAddress}
  Mails = {ann, bob}
  Normalized <- MCNormalized
  Passwords = {p1, p2}
  Entries = {e1, e2}
  Visits = {v1}
  Keys = {k1, k2, k3}
  KeyOwner <- MCKeyOwner
  Ttl = 2
  TicksPerSecond = 2
  MaxNow = 6
  NoUser = NoUser
  NoMail = NoMail
  NoPassword = NoPassword
  Malformed = Malformed
  NoCredential = NoCredential
  Junk = Junk
SPECIFICATION Spec
SYMMETRY Symmetry
CHECK_DEADLOCK FALSE
INVARIANTS TypeOK EmailsUnique TokenNamesAccount KeysAgree
PROPERTIES TokenLife
