SPECIFICATION MCSpec
CONSTANTS
  x1 = x1
  x2 = x2
  y1 = y1
  y2 = y2
  b1 = b1
  None = None
  Requests = {x1, x2}
  Sockets = {s1}
  MAX_ATTEMPTS = 2
  MaxCodes = 2
  MaxTokens = 1
  MaxSuspensions = 1
  Tasks = {x1, x2}
  Emails = {e1}
  Phones = {y1, y2}
  Plates = {y1, y2}
  Types = {sedan, van}
  MaxApplications = 2
  MaxUsers = 2
  MaxVehicles = 2
  Logins = {x1, x2}
  Google = {g1}
  Others = {k1}
  Mailboxes = {y1, y2}
  MaxCustomers = 3
  Drivers = {x1, x2}
  Bookings = {b1, b2}
  Riders = {r1}
  Reports = {h1}
  Second = 2
  Shift = 6
  Fresh = 1
  MaxAge = 2
  MaxAhead = 0
  MaxTime = 1
  Customers = {x1, x2}
  Admins = {y1, y2}
  PublicIds = {y1, y2}
  MaxMessages = 3
  MaxByHand = 1
INVARIANTS
  SessionsEndWithPassword
  CodeWorksOnce
  SuspendedHearsNothing
  ApplicationsAreSettled
  IdentityIsOneAccount
  HeardOnTrip
  InquiriesAreFound
SYMMETRY AccountsSymmetry
CHECK_DEADLOCK FALSE
