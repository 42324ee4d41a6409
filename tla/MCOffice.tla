-------------------------------- MODULE MCOffice -------------------------------
(***************************************************************************)
(* OfficeViews for TLC.  Its parts share no row, so that one run checks    *)
(* them one after the other: "part" says which of them takes its steps.    *)
(***************************************************************************)
EXTENDS OfficeViews, TLC

CONSTANTS d1, d2, f1, f2, b1

VARIABLE part

MCTier == [t \in Types |-> IF t = "SEDAN" THEN 1 ELSE IF t = "VAN" THEN 3 ELSE 0]

-----------------------------------------------------------------------------
(* A flight is on its way, late, and lands.                                *)
Late == [status |-> "DELAYED", delay |-> 1]
Landed == [status |-> "LANDED", delay |-> 0]
MCFlightStates == {Late, Landed}
MCPickup == [b \in Bookings |-> 1]
MCRanges == <<1, 2, 4>>
MCGaps == <<1, 1, 2>>

(* Two places of the coast lie on the same side of Bangkok's airport; one  *)
(* region covers what another covers already.                              *)
Region(c, f, covers) == [code |-> c, fare |-> f, covers |-> covers]
Ride(s, f, t) == [service |-> s, from |-> f, to |-> t]

MCLocations == ("BKK" :> 0) @@ ("BANGKOK" :> 25) @@ ("PATTAYA" :> 120)
MCRegions == <<Region("BKK", "BKK", {0}), Region("PATTAYA", "PATTAYA", {105, 120}),
               Region("SIRACHA", "PATTAYA", {105}), Region("BANGKOK", "BANGKOK", {25})>>
MCRegionFares == {[from |-> "BANGKOK", to |-> "PATTAYA", amount |-> 200000]}
MCRouteKeys == {Ride("AIRPORT_PICKUP", "BKK", "PATTAYA"),
                Ride("AIRPORT_PICKUP", "BKK", "BANGKOK"),
                Ride("CITY_TRANSFER", "BANGKOK", "PATTAYA")}
MCNewKeys == {Ride("AIRPORT_DROPOFF", "PATTAYA", "BKK"), Ride("CITY_TRANSFER", "PATTAYA", "BANGKOK")}
MCPolicyRates == {<<"FIXED", 10000>>, <<"PERCENT_OF_BASE", 15>>, <<"PERCENT_OF_SUBTOTAL", 15>>}

(* A weekend ride has a name sign; rides go from left to right; the wizard *)
(* gives the airport's code and either both places of the map or neither.  *)
Priced ==
  {r \in [service : {"AIRPORT_PICKUP", "AIRPORT_DROPOFF", "CITY_TRANSFER"},
          from : {"BKK", "BANGKOK", None}, to : {"PATTAYA", None},
          fromAt : {0, 25, 105, None}, toAt : {105, 120, 143, None},
          count : {1, 3}, nameSign : BOOLEAN, time : {"weekday", "weekend"}] :
     /\ r.nameSign <=> r.time = "weekend"
     /\ (r.fromAt = None) <=> (r.toAt = None)
     /\ r.from = None => r.fromAt # None
     /\ r.to = None => r.toAt # None}

(* The theorem on the quotes is about catalogues like this one.            *)
ASSUME RegionsAreShort == Prices!ShortWithinRegions

CallSymmetry == Permutations({d1, d2}) \cup Permutations({f1, f2})

-----------------------------------------------------------------------------
(* A part that does not run stays in one of its initial states.            *)
MCInit ==
  /\ part \in {"calls", "queue", "flights", "prices", "jobs"}
  /\ part # "calls" =>
       /\ call = [status |-> "OPEN", verified |-> FALSE, driver |-> None,
                  type |-> "VAN", pickup |-> 4]
       /\ main = [d \in Drivers |-> "VAN"]
  /\ Init
  /\ part # "queue" =>
       queueRow = [status |-> "OPEN", commission |-> "NOT_DUE_YET", slip |-> "none",
                   assigned |-> FALSE, released |-> "never", lowRated |-> FALSE,
                   archived |-> FALSE, pickup |-> 12, updated |-> 6]
  /\ Queue!Init
  /\ part # "flights" =>
       /\ flightRow = [b \in Bookings |-> Monitor!Fresh(f1)]
       /\ flight = [f \in Flights |-> Late]
  /\ Monitor!Init
  /\ part # "prices" => regional = FALSE
  /\ Prices!Init
  /\ part # "jobs" => job = [status |-> "OPEN", pickup |-> 7, archived |-> FALSE,
                            airport |-> FALSE, exempt |-> FALSE,
                            scheduled |-> None, estimated |-> None]
  /\ Cards!Init

MCNext ==
  /\ \/ part = "calls" /\ CallStep
     \/ part = "queue" /\ QueueStep
     \/ part = "flights" /\ FlightStep
     \/ part = "prices" /\ PriceStep
     \/ part = "jobs" /\ JobStep
  /\ part' = part

MCSpec == MCInit /\ [][MCNext]_<<part, officeVars>>
=============================================================================
