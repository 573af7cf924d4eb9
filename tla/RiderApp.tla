------------------------------ MODULE RiderApp ------------------------------
(***************************************************************************)
(* The rider's app has one page open at a time: the dashboard or the page  *)
(* of his active trips, each with a server of its own (a trip accepted on  *)
(* one turns up on the other as RiderTrip!Accept).  A behaviour is one of  *)
(* either page.  The names are its own, so that PagesProofs may extend it  *)
(* next to BrowserSession.                                                 *)
(***************************************************************************)
EXTENDS Naturals, Sequences

CONSTANTS
    Rides, Parcels, Handlers, MaxLoads, MaxSwitches, Overlap,       \* of RiderDashboard
    TripRides, TripParcels, NoTrip, MaxRequests, MaxUploads,        \* of RiderTrip
    OneParcel, OneUpload, Overtake,
    AppFaults

VARIABLES
    screen,   \* the page of this behaviour
    job, isAvailable, h, dashboard, dashboardSock, wire, broadcasts, loads, accepting,
    late, lost, hasty,
    trip, page, sock, news, reqs, uploads

dashboardVars == <<job, isAvailable, h, dashboard, dashboardSock, wire, broadcasts,
                   loads, accepting, late, lost, hasty>>
activeVars == <<trip, page, sock, news, reqs, uploads>>
appVars == <<screen, dashboardVars, activeVars>>

Dash == INSTANCE RiderDashboardProperties
          WITH page <- dashboard, sock <- dashboardSock, news <- broadcasts,
               Faults <- AppFaults

Active == INSTANCE RiderTripProperties
            WITH Rides <- TripRides, Parcels <- TripParcels, Faults <- AppFaults

ASSUME RiderAppAssumption == Dash!DashboardAssumption /\ Active!RiderTripAssumption

-----------------------------------------------------------------------------
(* The rows behind the page that stays closed make no difference: they are *)
(* given one value.                                                        *)
AppInit ==
    /\ screen \in {"dashboard", "active"}
    /\ Dash!Init
    /\ Active!Init
    /\ screen = "dashboard" => \A t \in Active!Trips : trip[t].method = "CASH"
    /\ screen = "active" => ~isAvailable

OnDashboard == screen = "dashboard" /\ Dash!Next /\ UNCHANGED <<screen, activeVars>>
OnActive == screen = "active" /\ Active!Next /\ UNCHANGED <<screen, dashboardVars>>

AppNext == OnDashboard \/ OnActive

AppSpec == AppInit /\ [][AppNext]_appVars

(* The other page is closed: none of its fair steps can be taken.          *)
AppFairSpec == AppSpec /\ Dash!Fairness /\ Active!Fairness

-----------------------------------------------------------------------------
(* Nobody is offered as available whose dashboard says he is not, nor the  *)
(* other way round, once the page is entered and no switch is under way.   *)
AvailabilityAgrees == Dash!AvailabilityAgrees

(* Who stays online is shown every waiting request, once, and no other.    *)
ListCatchesUp == Dash!ListCatchesUp

(* No parcel is delivered without a proof of its own.                      *)
ProofBeforeDelivery == Active!ProofBeforeDelivery

(* A page of active trips that stays open shows them as they are.          *)
ActiveCatchesUp == Active!ActiveCatchesUp
=============================================================================
