\* Two people, two addresses, two browsers and two requests served at a time;
\* every account can be logged out once, and both can be deleted.
CONSTANTS
  Identities = {i1, i2}
  Emails = {a, b}
  UserIds = {u1, u2}
  Unborn = Unborn
  Gone = Gone
  NoOne = NoOne
  Browsers = {b1, b2}
  NoSession = NoSession
  Handlers = {h1, h2}
  MaxVersion = 1
SPECIFICATION Spec
SYMMETRY Symmetry
INVARIANTS SessionsExact LogoutRevokes AccountsReachable
PROPERTIES IdentityKept
