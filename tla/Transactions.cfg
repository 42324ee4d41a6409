SPECIFICATION Spec
CONSTANTS
  Drivers = {d1, d2}
  NoDriver = NoDriver
  Slots = {1, 3}
  b1 = b1
  b2 = b2
  b3 = b3
  transfer = transfer
  charter = charter
  Bookings = {b1, b2, b3}
  Services = {transfer, charter}
  ServiceOf <- CloseTogether
  PickupOf <- Hours
  Tx = {t1, t2}
  NoTx = NoTx
  NoBooking = NoBooking
  MaxRequests = 4
SYMMETRY TxSymmetry
INVARIANTS
  NoDoubleBooking
PROPERTIES
  CommitsAreHandlers
