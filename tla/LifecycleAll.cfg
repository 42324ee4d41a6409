SPECIFICATION Spec
CONSTANTS
  Drivers = {d1, d2}
  NoDriver = NoDriver
  Slots = {3}
  Bookings = {b1}
  ManualBookings = {b1}
  MaxHour = 3
  RawAdminStatus = TRUE
  Archiving = TRUE
SYMMETRY DriverSymmetry
INVARIANTS
  DriverColumnMatches
  CommissionMatchesStatus
PROPERTIES
  ClosedForever
