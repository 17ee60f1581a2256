SPECIFICATION Spec
CONSTANTS
  admin = admin
  owner = owner
  e1 = e1
  e2 = e2
  e3 = e3
  w1 = w1
  w2 = w2
  h1 = h1
  h2 = h2
  b1 = b1
  b2 = b2
  Handlers = {h1, h2}
  Editors = {h1}
  Browsers = {b1, b2}
  Users = {admin, owner}
  Admins = {admin}
  Emails = {e1, e2}
  Passwords = {w1, w2}
  FirstEmail <- MCEmail
  FirstPassword <- MCPassword
  MaxChanges = 1
  None = None
SYMMETRY BrowserSymmetry
INVARIANTS SessionsTypeOK
PROPERTIES PasswordEndsSessions OffboardedStaysOut
