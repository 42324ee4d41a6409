SPECIFICATION MCSpec
CONSTANTS
  x1 = x1
  x2 = x2
  y1 = y1
  y2 = y2
  None = None
  Bookings = {x1, x2}
  Customers = {y1, y2}
  Drivers = {d1}
  CreationTTL = 2
  LookupTTL = 1
  QrTTL = 1
  MaxTime = 1
  MaxTokens = 2
  MaxCodes = 3
  Tokens = {x1, x2}
  Workers = {y1, y2}
  Notes = {n1}
  Staff = {d1}
  PushedBookings = {b1}
  PushedCustomers = {u1}
  MAX_DELIVERY_ATTEMPTS = 3
  MaxExcuses = 1
  ReviewedBookings = {b1}
  ReviewedDrivers = {d1, d2}
  Ratings = {1, 5}
  MaxRows = 3
  MaxSeconds = 1
INVARIANTS
  CodesMoveOnce
  NoSecondPush
  RatingsAreEarned

  
  
SYMMETRY CustomersSymmetry
CHECK_DEADLOCK FALSE
