SPECIFICATION UrgentSpec
CONSTANTS
  Drivers = {d1, d2}
  NoDriver = NoDriver
  Slots = {1}
  Bookings = {b1}
  ManualBookings = {}
  MaxHour = 0
  RawAdminStatus = FALSE
  Archiving = FALSE
  MaxAttempts = 3
  MaxEta = 3
  AdminAssigns = FALSE
INVARIANTS
  MayReopen
PROPERTIES
  RoundsEnd
