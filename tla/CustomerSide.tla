------------------------------ MODULE CustomerSide -----------------------------
(***************************************************************************)
(* What reaches a customer: the bookings a login, token or code opens      *)
(* (CustomerAccess), the pushes to a device (PushDevices) and the review   *)
(* of the trip (Reviews).  The three keep rows of their own and take their *)
(* steps in any order.                                                     *)
(***************************************************************************)
EXTENDS CustomerAccess, FiniteSets

CONSTANTS
  Tokens, Workers, Notes, Staff, PushedBookings, PushedCustomers,
  MAX_DELIVERY_ATTEMPTS, MaxExcuses,
  ReviewedBookings, ReviewedDrivers, Ratings, MaxRows, MaxSeconds

VARIABLES
  device, holder, note, worker, shown, excused,
  reviewStatus, column, rows, request, review, events, arrivals, drove, reviewClock

pushVars == <<device, holder, note, worker, shown, excused>>
reviewVars == <<reviewStatus, column, rows, request, review, events, arrivals,
                drove, reviewClock>>
customersVars == <<vars, pushVars, reviewVars>>

Pushes == INSTANCE PushDevices WITH
  Bookings <- PushedBookings, Customers <- PushedCustomers

Rated == INSTANCE Reviews WITH
  Bookings <- ReviewedBookings, Drivers <- ReviewedDrivers,
  status <- reviewStatus, clock <- reviewClock

(* None is neither a notification nor a row of one.                        *)
ASSUME PushAssumption ==
  /\ None \notin Notes \union Pushes!Note
  /\ IsFiniteSet(Workers)
  /\ MAX_DELIVERY_ATTEMPTS \in Nat

(* Nor is it a driver or a review.                                         *)
ASSUME ReviewAssumption == None \notin ReviewedDrivers \union Rated!Review

-----------------------------------------------------------------------------
CustomersInit == Init /\ Pushes!Init /\ Rated!Init

AccessStep == Next /\ UNCHANGED <<pushVars, reviewVars>>
PushStep == Pushes!Next /\ UNCHANGED <<vars, reviewVars>>
ReviewStep == Rated!Next /\ UNCHANGED <<vars, pushVars>>
CustomersNext == AccessStep \/ PushStep \/ ReviewStep

CustomersSpec == CustomersInit /\ [][CustomersNext]_customersVars

-----------------------------------------------------------------------------
(* PROPERTIES of the parts that are instances.                             *)

(* A device shows a notification again only for a lost answer or record, a *)
(* crash or a second worker, not because another device failed.            *)
NoSecondPush == Pushes!NoSecondPush

(* Claiming a booking hides none of the notifications its guest could read *)
(* before, and no later step takes one away.                               *)
ListOnlyGrows == Pushes!ListOnlyGrows

(* A driver's rating is made of the visible reviews of trips he drove, and *)
(* every trip that ended is or was asked about, unless the customer opted  *)
(* out.                                                                    *)
RatingsAreEarned == Rated!RatingsAreEarned /\ Rated!EndedTripsAreQueued
=============================================================================
