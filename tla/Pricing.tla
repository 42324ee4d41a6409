------------------------------- MODULE Pricing -------------------------------
(***************************************************************************)
(* What a ride costs.  Administrators keep a catalogue of routes, prices   *)
(* per route and charge policies; a customer's request is priced by the    *)
(* region pair when the region fares are switched on, else by the route    *)
(* between its two places, else by the nearest priced route, else (city    *)
(* transfers) by a distance band.  A booking inserts the quote's items     *)
(* through a trigger that checks them.  Geography is a line: a place is    *)
(* its road kilometre.  Money is in satang.  One vehicle type is followed: *)
(* the types are priced apart.                                             *)
(***************************************************************************)
EXTENDS Integers, Sequences, FiniteSets, SequencesExt

CONSTANTS
  RegionFares,   \* pricing_region_fares: [from, to, amount]
  Locations,     \* location code -> kilometre of its anchor
  Airports,      \* the codes of airports
  Regions,       \* pricing_regions by priority: [code, fare, covers]
  Places,        \* kilometres customers pick
  Counts,        \* vehicles per booking
  Requests,      \* those priced
  RouteKeys,     \* service, origin and destination of the routes kept
  NewKeys,       \* other routes administrators may add
  Amounts,       \* prices administrators enter
  PolicyRates,   \* <<calculation type, amount>> of the policies they add
  MaxEdits,      \* bound on the catalogue's changes
  None

Services == {"AIRPORT_PICKUP", "AIRPORT_DROPOFF", "CITY_TRANSFER"}
Codes == DOMAIN Locations
IncludedKm == 10                      \* ROUTE_DISTANCE_INCLUDED_KM
StepKm == 10                          \* ROUTE_DISTANCE_STEP_KM
StepPrice == 10000                    \* ROUTE_DISTANCE_STEP_PRICE
Periods == {"always", "later"}        \* effective now and later, or only later
Times == {"weekday", "weekend"}       \* a weekday now, a weekend later
PolicyTypes == {"NAME_SIGN", "HOLIDAY"}   \* those a customer can be charged

VARIABLES
  regional,  \* REGION_FIXED_FARES_ENABLED
  routes,    \* routes by their unique key; deleted rows keep it
  prices,    \* vehicle_prices by route
  policies,  \* charge_policies in the order they are read
  copying,   \* a route copied whose prices are not written yet, or None
  edits,     \* how often the catalogue changed
  booked     \* the last quote of a request and whether its items were stored

vars == <<regional, routes, prices, policies, copying, edits, booked>>

States == {"active", "inactive", "deleted"}
Route == [state: States, period: Periods]
Price == [state: States, period: Periods, amount: Nat]
Policy == [type: PolicyTypes, calculation: {"FIXED", "PERCENT_OF_BASE", "PERCENT_OF_SUBTOTAL"},
           amount: Nat, state: States, period: Periods]

(* Half away from zero, as roundMoney and DECIMAL do with amounts >= 0.    *)
Rounded(a, n) == (2 * a + n) \div (2 * n)

-----------------------------------------------------------------------------
(* Distances.                                                              *)

Km(a, b) == IF a >= b THEN a - b ELSE b - a

DistanceSteps(km) == IF km <= IncludedKm THEN 0 ELSE (km - IncludedKm + StepKm - 1) \div StepKm

(* Mutant of Excess: any deviation from the route's own length is charged. *)
ExcessEither(k, from, to) == Km(Km(from, to), Km(Locations[k.from], Locations[k.to]))

(* How much longer the ride is than the route.                             *)
Excess(k, from, to) ==
  LET more == Km(from, to) - Km(Locations[k.from], Locations[k.to])
  IN  IF more > 0 THEN more ELSE 0

DistanceAdjustment(k, from, to, count) ==
  DistanceSteps(Excess(k, from, to)) * StepPrice * count

(* How far the ride's ends are from the route's.                           *)
Deviation(k, from, to) == Km(from, Locations[k.from]) + Km(to, Locations[k.to])

-----------------------------------------------------------------------------
(* Charge items and policies.                                              *)

(* An item refers to the row that it was charged by; to none here when the *)
(* trigger does not look the row up (an added region fare, a band).        *)
ItemTypes == {"VEHICLE_BASE", "DISTANCE_SURCHARGE"} \cup PolicyTypes
Refs == {None} \cup ({"CHARGE_POLICY"} \X Nat) \cup ({"VEHICLE_PRICE"} \X (RouteKeys \cup NewKeys))
Items == [type: ItemTypes, quantity: Nat, unit: Nat, amount: Nat, ref: Refs]
Item(type, quantity, unit, amount, ref) ==
  [type |-> type, quantity |-> quantity, unit |-> unit, amount |-> amount, ref |-> ref]
Base(count, price, ref) == <<Item("VEHICLE_BASE", count, price, price * count, ref)>>

Total(items) ==
  LET sum[n \in 0..Len(items)] == IF n = 0 THEN 0 ELSE sum[n - 1] + items[n].amount
  IN  sum[Len(items)]

EffectiveAt(row, time) == row.period = "later" => time = "weekend"

(* Policies of other types than these two are never charged to customers.  *)
ShouldApply(p, nameSign, time) ==
  /\ p.state = "active" /\ EffectiveAt(p, time)
  /\ \/ p.type = "NAME_SIGN" /\ nameSign
     \/ p.type = "HOLIDAY" /\ time = "weekend"

PolicyAmount(p, base, subtotal) ==
  CASE p.calculation = "FIXED" -> p.amount
    [] p.calculation = "PERCENT_OF_BASE" -> Rounded(base * p.amount, 100)
    [] p.calculation = "PERCENT_OF_SUBTOTAL" -> Rounded(subtotal * p.amount, 100)

(* appendPolicyChargeItems: one policy after the other, each of which may  *)
(* be a share of all that was charged before.                              *)
Charged(sofar, i, base, nameSign, time) ==
  LET amount == PolicyAmount(policies[i], base, Total(sofar))
  IN  IF ShouldApply(policies[i], nameSign, time) /\ amount # 0
        THEN Append(sofar, Item(policies[i].type, 1, amount, amount, <<"CHARGE_POLICY", i>>))
        ELSE sofar

WithPolicies(items, nameSign, time) ==
  LET charged[n \in 0..Len(policies)] ==
        IF n = 0 THEN items
        ELSE Charged(charged[n - 1], n, Total(items), nameSign, time)
  IN  charged[Len(policies)]

Quote(mode, route, items) == [mode |-> mode, route |-> route, items |-> items]
NotFound == Quote("not found", None, <<>>)
Inquiry == Quote("inquiry", None, <<>>)
Refused(q) == q.items = <<>>

-----------------------------------------------------------------------------
(* A request: the service chosen, codes of the two places when they have   *)
(* one, and the kilometres picked on the map when there are any.           *)

Request ==
  {r \in [service: Services, from: Codes \cup {None}, to: Codes \cup {None},
          fromAt: Places \cup {None}, toAt: Places \cup {None},
          count: Counts, nameSign: BOOLEAN, time: Times] :
     /\ r.from = None => r.fromAt # None
     /\ r.to = None => r.toAt # None}

HasPlaces(r) == r.fromAt # None /\ r.toAt # None

Active(k) == k \in DOMAIN routes /\ routes[k].state = "active"

(* selectVehiclePrice: uk_vehicle_prices_route_vehicle leaves one row.     *)
Priced(k, r) ==
  /\ k \in DOMAIN prices /\ prices[k].state = "active"
  /\ EffectiveAt(prices[k], r.time)

(* computeQuote over one route: an active route is used though its period  *)
(* has not begun (selectRoute).                                            *)
ComputeQuote(k, r) ==
  IF Priced(k, r)
    THEN Quote("route", k, WithPolicies(Base(r.count, prices[k].amount, <<"VEHICLE_PRICE", k>>),
                                        r.nameSign, r.time))
    ELSE NotFound

(* applyDistanceAdjustment.                                                *)
WithDistance(q, amount, count) ==
  IF amount = 0 THEN q
  ELSE [q EXCEPT !.items = Append(@, Item("DISTANCE_SURCHARGE", count,
                                         Rounded(amount, count), amount, None))]

RouteQuote(r) ==
  LET k == [service |-> r.service, from |-> r.from, to |-> r.to]
  IN  IF Active(k) /\ ~Refused(ComputeQuote(k, r))
        THEN WithDistance(ComputeQuote(k, r),
               IF HasPlaces(r) THEN DistanceAdjustment(k, r.fromAt, r.toAt, r.count) ELSE 0,
               r.count)
        ELSE NotFound

(* The nearest priced route; its adjustment was worked out for one vehicle.*)
ReferenceQuote(r) ==
  LET usable == {k \in DOMAIN routes : /\ k.service = r.service /\ Active(k)
                                       /\ EffectiveAt(routes[k], r.time) /\ Priced(k, r)}
      nearest == CHOOSE k \in usable : \A l \in usable :
                   Deviation(k, r.fromAt, r.toAt) <= Deviation(l, r.fromAt, r.toAt)
  IN  IF HasPlaces(r) /\ usable # {}
        THEN WithDistance([ComputeQuote(nearest, r) EXCEPT !.mode = "reference"],
                          DistanceAdjustment(nearest, r.fromAt, r.toAt, 1), r.count)
        ELSE NotFound

(* city_transfer_distance_bands after migration 70, prices of one type.    *)
Bands == {[min |-> 12, max |-> 50, amount |-> 90000], [min |-> 51, max |-> 100, amount |-> 110000],
          [min |-> 101, max |-> 145, amount |-> 130000], [min |-> 146, max |-> 200, amount |-> 140000]}

BandQuote(r) ==
  LET matching == {b \in Bands : HasPlaces(r) /\ b.min <= Km(r.fromAt, r.toAt)
                                              /\ Km(r.fromAt, r.toAt) <= b.max}
      band == CHOOSE b \in matching : TRUE
  IN  IF matching = {} THEN Inquiry
      ELSE Quote("band", None,
                 WithPolicies(Base(r.count, band.amount, None), r.nameSign, r.time))

(* legacyCalculate.                                                        *)
LegacyQuote(r) ==
  IF r.from # None /\ r.from = r.to THEN NotFound
  ELSE IF ~Refused(RouteQuote(r)) THEN RouteQuote(r)
  ELSE IF ~Refused(ReferenceQuote(r)) THEN ReferenceQuote(r)
  ELSE IF r.service = "CITY_TRANSFER" /\ HasPlaces(r) THEN BandQuote(r)
  ELSE NotFound

(* matchRegion: an airport by its code, else the first region around the   *)
(* place, "none" if there is none.                                         *)
Unmatched == [code |-> "none", fare |-> None, covers |-> {}]
RegionOf(code, place) ==
  LET around == {i \in DOMAIN Regions : IF code \in Airports THEN Regions[i].code = code
                                        ELSE place \in Regions[i].covers}
  IN  IF around = {} THEN Unmatched
      ELSE Regions[CHOOSE i \in around : \A j \in around : i <= j]

RegionalService(from, to) ==
  CASE from.code \in Airports -> "AIRPORT_PICKUP"
    [] from.code \notin Airports /\ to.code \in Airports -> "AIRPORT_DROPOFF"
    [] OTHER -> "CITY_TRANSFER"

(* The route that prices a region pair.                                    *)
FareKey(from, to, r) ==
  [service |-> RegionalService(from, to), from |-> from.fare, to |-> to.fare]

(* calculate, for two places of the map.                                   *)
RegionQuote(r) ==
  LET from == RegionOf(r.from, r.fromAt)
      to == RegionOf(r.to, r.toAt)
      added == {f \in RegionFares : f.from = from.fare /\ f.to = to.fare}
      fare == CHOOSE f \in added : TRUE
      key == FareKey(from, to, r)
  IN  IF from = Unmatched \/ to = Unmatched THEN Inquiry
      ELSE IF added # {}
        THEN Quote("region", None,
                   WithPolicies(Base(r.count, fare.amount, None), r.nameSign, r.time))
      ELSE IF from.fare # to.fare /\ Active(key) /\ Priced(key, r)
        THEN [ComputeQuote(key, r) EXCEPT !.mode = "region"]
      ELSE Inquiry

(* No two places of one region are farther apart than a city transfer is   *)
(* long, but for the kilometres included.                                  *)
ShortWithinRegions ==
  \A f, t \in Places :
    RegionOf(None, f) # Unmatched /\ RegionOf(None, f) = RegionOf(None, t) =>
      \A k \in RouteKeys \cup NewKeys :
        k.service = "CITY_TRANSFER" =>
          Km(f, t) <= Km(Locations[k.from], Locations[k.to]) + IncludedKm

SameRegion(r) ==
  /\ RegionOf(r.from, r.fromAt) # Unmatched
  /\ RegionOf(r.from, r.fromAt) = RegionOf(r.to, r.toAt)

Calculate(r) ==
  IF ~regional \/ (SameRegion(r) /\ r.service = "CITY_TRANSFER")
    THEN LegacyQuote(r) ELSE RegionQuote(r)

-----------------------------------------------------------------------------
(* The catalogue and the booking.                                          *)

Init ==
  /\ regional \in BOOLEAN
  /\ routes = [k \in RouteKeys |-> [state |-> "active", period |-> "always"]]
  /\ prices = [k \in RouteKeys |-> [state |-> "active", period |-> "always",
                                    amount |-> CHOOSE a \in Amounts : TRUE]]
  /\ policies = <<[type |-> "NAME_SIGN", calculation |-> "FIXED", amount |-> 10000,
                   state |-> "active", period |-> "always"]>>
  /\ copying = None
  /\ edits = 0
  /\ booked = None

Edit ==
  /\ edits < MaxEdits /\ edits' = edits + 1
  /\ booked' = None
  /\ UNCHANGED regional
Put(table, k, row) == [j \in DOMAIN table \cup {k} |-> IF j = k THEN row ELSE table[j]]

(* RouteAdminService.create: deleted routes keep their key, so that they   *)
(* cannot be created again.                                                *)
CreateRoute(k, period) ==
  /\ Edit /\ k.from # k.to /\ k \notin DOMAIN routes
  /\ routes' = Put(routes, k, [state |-> "active", period |-> period])
  /\ UNCHANGED <<prices, policies, copying>>

(* RouteAdminService.update, of the switch and the period.                 *)
UpdateRoute(k, state, period) ==
  /\ Edit /\ routes[k].state # "deleted"
  /\ routes' = [routes EXCEPT ![k].state = state, ![k].period = period]
  /\ UNCHANGED <<prices, policies, copying>>

DeleteRoute(k) ==
  /\ Edit /\ routes[k].state # "deleted"
  /\ routes' = [routes EXCEPT ![k].state = "deleted"]
  /\ UNCHANGED <<prices, policies, copying>>

(* copy inserts the route first and its prices after, in no transaction.   *)
CopyRoute(k, l) ==
  /\ Edit /\ copying = None
  /\ routes[k].state # "deleted" /\ l \notin DOMAIN routes
  /\ l.service = k.service /\ l.from # l.to
  /\ routes' = Put(routes, l, routes[k])
  /\ copying' = [from |-> k, to |-> l,
                 price |-> IF k \in DOMAIN prices THEN prices[k] ELSE None]
  /\ UNCHANGED <<prices, policies>>

(* The second half of copy, of the prices as they were read; or it fails.  *)
CopyPrices ==
  /\ copying # None
  /\ prices' = IF copying.price # None /\ copying.price.state = "active"
                    /\ copying.to \notin DOMAIN prices
               THEN Put(prices, copying.to, copying.price) ELSE prices
  /\ copying' = None
  /\ UNCHANGED <<regional, routes, policies, edits, booked>>

CopyFails ==
  /\ copying # None /\ copying' = None
  /\ UNCHANGED <<regional, routes, prices, policies, edits, booked>>

(* VehiclePriceAdminService.create: one row per route, whatever its state. *)
CreatePrice(k, amount, period) ==
  /\ Edit /\ k \notin DOMAIN prices /\ routes[k].state # "deleted"
  /\ prices' = Put(prices, k, [state |-> "active", period |-> period, amount |-> amount])
  /\ UNCHANGED <<routes, policies, copying>>

UpdatePrice(k, state, amount, period) ==
  /\ Edit /\ prices[k].state # "deleted"
  /\ prices' = [prices EXCEPT ![k] = [state |-> state, period |-> period, amount |-> amount]]
  /\ UNCHANGED <<routes, policies, copying>>

DeletePrice(k) ==
  /\ Edit /\ prices[k].state # "deleted"
  /\ prices' = [prices EXCEPT ![k].state = "deleted"]
  /\ UNCHANGED <<routes, policies, copying>>

(* ChargePolicyAdminService: the read order is by type, then by id.        *)
CreatePolicy(type, calculation, amount, period) ==
  /\ Edit
  /\ \E n \in 0..Len(policies) :
       /\ \A i \in DOMAIN policies :
            i <= n <=> policies[i].type = "NAME_SIGN" \/ type = "HOLIDAY"
       /\ policies' = InsertAt(policies, n + 1,
                        [type |-> type, calculation |-> calculation, amount |-> amount,
                         state |-> "active", period |-> period])
  /\ UNCHANGED <<routes, prices, copying>>

SetPolicy(i, state) ==
  /\ Edit /\ policies[i].state # "deleted"
  /\ policies' = [policies EXCEPT ![i].state = state]
  /\ UNCHANGED <<routes, prices, copying>>

(* trg_bci_before_insert_validate: the amount is that of the units, and    *)
(* the row referred to is there and in use.                                *)
TriggerAccepts(i) ==
  /\ i.amount = i.quantity * i.unit
  /\ \/ i.ref = None
     \/ i.ref[1] = "CHARGE_POLICY" /\ policies[i.ref[2]].state = "active"
     \/ i.ref[1] = "VEHICLE_PRICE" /\ prices[i.ref[2]].state = "active"

(* createBooking: the quote is worked out anew and its items inserted, the *)
(* catalogue staying as it is in between.                                  *)
Book(r) ==
  /\ booked = None /\ ~Refused(Calculate(r))
  /\ LET quote == Calculate(r)
     IN  booked' = [request |-> r, mode |-> quote.mode, items |-> quote.items,
                    stored |-> \A i \in DOMAIN quote.items : TriggerAccepts(quote.items[i])]
  /\ UNCHANGED <<regional, routes, prices, policies, copying, edits>>

Next ==
  \/ \E k \in NewKeys, p \in Periods : CreateRoute(k, p)
  \/ \E k \in DOMAIN routes : \/ \E st \in {"active", "inactive"}, p \in Periods : UpdateRoute(k, st, p)
                             \/ DeleteRoute(k)
                             \/ \E l \in NewKeys : CopyRoute(k, l)
                             \/ \E a \in Amounts, p \in Periods : CreatePrice(k, a, p)
  \/ CopyPrices \/ CopyFails
  \/ \E k \in DOMAIN prices :
       \/ \E st \in {"active", "inactive"}, a \in Amounts, p \in Periods : UpdatePrice(k, st, a, p)
       \/ DeletePrice(k)
  \/ \E t \in PolicyTypes, x \in PolicyRates, p \in Periods : CreatePolicy(t, x[1], x[2], p)
  \/ \E i \in DOMAIN policies, st \in States : SetPolicy(i, st)
  \/ \E r \in Requests : Book(r)

Spec == Init /\ [][Next]_vars

-----------------------------------------------------------------------------
(* Properties.                                                             *)

TypeOK ==
  /\ regional \in BOOLEAN
  /\ DOMAIN routes \subseteq RouteKeys \cup NewKeys
  /\ \A k \in DOMAIN routes : routes[k] \in Route
  /\ DOMAIN prices \subseteq DOMAIN routes
  /\ \A k \in DOMAIN prices : prices[k] \in Price
  /\ policies \in Seq(Policy)
  /\ copying # None =>
       /\ copying.to \in DOMAIN routes /\ copying.price \in Price \cup {None}
  /\ booked # None => booked.request \in Requests

(* Of two rides charged by the same route (by the route between its places *)
(* or by the nearest one), the closer never costs more, wherever its ends  *)
(* lie from the route's own: what distanceAdjustment's comment promises.   *)
CloserNeverCostsMore ==
  booked # None =>
    LET r == booked.request
        mine == Calculate(r)
    IN  HasPlaces(r) /\ mine.route # None =>
          \A f, t \in Places :
            Km(f, t) <= Km(r.fromAt, r.toAt) =>
              LET other == Calculate([r EXCEPT !.fromAt = f, !.toAt = t])
              IN  other.route = mine.route => Total(other.items) <= Total(mine.items)

(* Whatever the catalogue holds, a quote passes the database's check of    *)
(* its items, so that the ride can be booked at it; except by the nearest  *)
(* route with several vehicles, whose surcharge is divided among them.     *)
QuoteCanBeBooked ==
  booked # None => booked.stored \/ (booked.mode = "reference" /\ booked.request.count > 1)

(* "THB charged per started distance block, per vehicle."                  *)
(* (cityTransferDistance.constants.js:12).                                 *)
SurchargePerVehicle ==
  booked # None =>
    \A i \in Range(booked.items) :
      i.type = "DISTANCE_SURCHARGE" => i.amount % (StepPrice * booked.request.count) = 0
=============================================================================
