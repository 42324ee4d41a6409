SPECIFICATION MCSpec
CONSTANTS
  d1 = d1
  d2 = d2
  f1 = f1
  f2 = f2
  b1 = b1
  Drivers = {d1, d2}
  None = None
  Types = {"SEDAN", "VAN", "VIP_SUV"}
  Tier <- MCTier
  Pickups = {4, 6, 9}
  Gap = 2
  Window = 4
  Cooldown = 1
  Shift = 1
  MaxTime = 2
  MaxEdits = 1
  HalfHour = 2
  TwoHours = 4
  SixHours = 6
  Day = 8
  HistoryDays = 1
  PickupTimes = {4, 10, 12, 20}
  UpdateTimes = {2, 6, 10}
  StartTime = 9
  QueueTime = 11
  Bookings = {b1}
  Flights = {f1, f2}
  FlightPickup <- MCPickup
  FlightStates <- MCFlightStates
  Editors = {"CUSTOMER"}
  SyncInterval = 1
  RetryBase = 1
  MaxRetries = 2
  BatchSize = 1
  DelayDelta = 1
  CacheTTL = 1
  Lookback = 3
  Lookahead = 3
  Offset = 1
  Ranges <- MCRanges
  Gaps <- MCGaps
  FlightTime = 1
  FlightEdits = 1
  RegionFares <- MCRegionFares
  Locations <- MCLocations
  Airports = {"BKK"}
  Regions <- MCRegions
  Places = {0, 25, 105, 120, 143}
  Counts = {1, 3}
  Requests <- Priced
  RouteKeys <- MCRouteKeys
  NewKeys <- MCNewKeys
  Amounts = {80050}
  PolicyRates <- MCPolicyRates
  PriceEdits = 1
  JobPickups = {3, 7}
  Arrivals = {4}
  JobTime = 6
INVARIANTS
  ListMatchesClaim
  InvitedSeesCall
  ScreensAgree
  
  QuotesHold
SYMMETRY CallSymmetry
CHECK_DEADLOCK FALSE
