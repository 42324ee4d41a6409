SPECIFICATION MCSpec
CONSTANTS
  t1 = t1
  t2 = t2
  k1 = k1
  k2 = k2
  A = A
  B = B
  c1 = c1
  LINE = LINE
  WECHAT = WECHAT
  KAKAO = KAKAO
  p1 = p1
  p2 = p2
  Numbers = {n1}
  Accounts = {u1}
  Amounts = {1, 2, 3}
  NameSign = 1
  None = None
  Same = Same
  MaxEdits = 3
  Tasks = {t1, t2}
  NoTask = NoTask
  Keys = {k1, k2}
  NoKey = NoKey
  Bodies = {A, B}
  Coupons = {c1}
  NoCoupon = NoCoupon
  Discount = 10
  Requests <- Sent
  Balances = {7}
  MaxBookings = 2
  MaxFaults = 1
  Drivers = {d1}
  Messengers = {LINE, WECHAT, KAKAO}
  Phones = {p1, p2}
  Channels = {LINE, WECHAT}
  DefaultChannel = LINE
  MaxConnections = 2
  MaxCustomerEdits = 1
INVARIANTS
  MoneyAgrees
  OneBookingPerKey
  SpentOnce
  MileageFollowsTrip
  CalledOnce
PROPERTIES
  CreationIsAtomic
SYMMETRY TaskSymmetry
CHECK_DEADLOCK FALSE
