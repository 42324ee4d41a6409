SPECIFICATION Spec
CONSTANTS
  Drivers = {d1, d2}
  NoDriver = NoDriver
  Slots = {1, 2, 3}
  Bookings = {b1, b2}
  ManualBookings = {}
  MaxHour = 1
  RawAdminStatus = FALSE
  Archiving = FALSE
SYMMETRY DriverSymmetry
INVARIANTS
  NoDoubleBooking
  SuspendedHasNoTrip
PROPERTIES
  UnsettledGetsNoWork
