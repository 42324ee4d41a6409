------------------------------- MODULE OfficeViews -----------------------------
(***************************************************************************)
(* What the office and the drivers are shown of the work: the list of open *)
(* calls and the candidates (OpenCalls), the administrators' queue         *)
(* (AdminQueue), the flights of the bookings (FlightMonitor), their prices *)
(* (Pricing) and a driver's card of his job (JobCard).  The five keep rows *)
(* of their own and take their steps in any order.                         *)
(***************************************************************************)
EXTENDS OpenCalls

CONSTANTS
  HalfHour, TwoHours, SixHours, Day, HistoryDays, PickupTimes, UpdateTimes,
  StartTime, QueueTime,
  Bookings, Flights, FlightPickup, FlightStates, Editors,
  SyncInterval, RetryBase, MaxRetries, BatchSize, DelayDelta, CacheTTL,
  Lookback, Lookahead, Offset, Ranges, Gaps, FlightTime, FlightEdits,
  RegionFares, Locations, Airports, Regions, Places, Counts, Requests,
  RouteKeys, NewKeys, Amounts, PolicyRates, PriceEdits,
  JobPickups, Arrivals, JobTime

VARIABLES
  queueRow, queueClock, filters, item,
  booking, flightRow, flight, cache, flightCall, worker, sched, outbox,
  flightClock, flightEdits,
  regional, routes, prices, policies, copying, priceEdits, booked,
  job, link, suspended, jobClock, cause

queueState == <<queueRow, queueClock, filters, item>>
flightState == <<booking, flightRow, flight, cache, flightCall, worker, sched,
                 outbox, flightClock, flightEdits>>
priceState == <<regional, routes, prices, policies, copying, priceEdits, booked>>
jobState == <<job, link, suspended, jobClock, cause>>
officeVars == <<vars, queueState, flightState, priceState, jobState>>

Queue == INSTANCE AdminQueue WITH
  MaxTime <- QueueTime, row <- queueRow, clock <- queueClock

ASSUME QueueAssumption ==
  /\ PickupTimes \subseteq Int /\ UpdateTimes \subseteq Int
  /\ {StartTime, HalfHour, TwoHours, SixHours, Day} \subseteq Int

Monitor == INSTANCE FlightMonitor WITH
  Pickup <- FlightPickup, Cooldown <- SyncInterval,
  MaxTime <- FlightTime, MaxEdits <- FlightEdits,
  row <- flightRow, call <- flightCall, clock <- flightClock, edits <- flightEdits

ASSUME FlightAssumption == None \notin Monitor!Final /\ FlightTime \in Nat

Prices == INSTANCE Pricing WITH MaxEdits <- PriceEdits, edits <- priceEdits

ASSUME PriceAssumption ==
  /\ Locations \in [Prices!Codes -> Int] /\ Places \subseteq Int /\ None \notin Places
  /\ DOMAIN Regions \subseteq Nat /\ None \notin Airports
  /\ Counts \subseteq Nat \ {0} /\ Requests \subseteq Prices!Request
  /\ RouteKeys \cup NewKeys
       \subseteq [service : Prices!Services, from : Prices!Codes, to : Prices!Codes]
  /\ Amounts # {} /\ Amounts \subseteq Nat /\ \A f \in RegionFares : f.amount \in Nat
  /\ PolicyRates \subseteq {"FIXED", "PERCENT_OF_BASE", "PERCENT_OF_SUBTOTAL"} \X Nat

Cards == INSTANCE JobCard WITH MaxTime <- JobTime, clock <- jobClock

ASSUME CardAssumption ==
  /\ JobPickups \subseteq Int
  /\ None \notin Cards!Emergencies \union Cards!Markers \union {"DRIVER_RELEASED", "ADMIN_RELEASED"}

-----------------------------------------------------------------------------
OfficeInit == Init /\ Queue!Init /\ Monitor!Init /\ Prices!Init /\ Cards!Init

CallStep == Next /\ UNCHANGED <<queueState, flightState, priceState, jobState>>
QueueStep == Queue!Next /\ UNCHANGED <<vars, flightState, priceState, jobState>>
FlightStep == Monitor!Next /\ UNCHANGED <<vars, queueState, priceState, jobState>>
PriceStep == Prices!Next /\ UNCHANGED <<vars, queueState, flightState, jobState>>
JobStep == Cards!Next /\ UNCHANGED <<vars, queueState, flightState, priceState>>
OfficeNext == CallStep \/ QueueStep \/ FlightStep \/ PriceStep \/ JobStep

OfficeSpec == OfficeInit /\ [][OfficeNext]_officeVars

-----------------------------------------------------------------------------
(* PROPERTIES of the parts that are instances.                             *)

(* What the queue lists for action has a reason, and the reverse within a  *)
(* second; its button is one that the handler accepts; a badge's filter    *)
(* shows the bookings that carry the badge (booking.repository.js's SQL    *)
(* against adminOperations.service.js).  What a driver's card offers is    *)
(* accepted, and a driver who lost the job is told how (driverJob).        *)
ScreensAgree ==
  /\ Queue!ListMatchesReasons /\ Queue!ButtonIsPossible /\ Queue!BadgeMatchesFilter
  /\ Cards!OfferedActionsWork /\ Cards!ToldWhy

(* What a booking shows of its flight was learnt of that flight, and a     *)
(* landing or a cancellation that it shows was announced.                  *)
FlightIsTheBookings == Monitor!DataIsOfTheFlight /\ Monitor!EndIsAnnounced

(* Of two rides charged by one route the closer never costs more, and a    *)
(* ride can be booked at its quote but for the surcharge of several        *)
(* vehicles, whatever the administrators enter.                            *)
QuotesHold == Prices!CloserNeverCostsMore /\ Prices!QuoteCanBeBooked
=============================================================================
