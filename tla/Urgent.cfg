SPECIFICATION UrgentSafety
CONSTANTS
  Drivers = {d1, d2}
  NoDriver = NoDriver
  Slots = {1}
  Bookings = {b1}
  ManualBookings = {}
  MaxHour = 0
  RawAdminStatus = FALSE
  Archiving = FALSE
  MaxAttempts = 2
  MaxEta = 2
  AdminAssigns = TRUE
SYMMETRY DriverSymmetry
INVARIANTS
  OpenIsNegotiated
  GivenUpInTime
