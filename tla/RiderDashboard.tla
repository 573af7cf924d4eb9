--------------------------- MODULE RiderDashboard ---------------------------
(***************************************************************************)
(* A rider's dashboard: the switch between online and offline and the list *)
(* of requests nearby, with the TrackingService it uses in the browser and *)
(* on the server the tracking gateway, the rider's isAvailable and the     *)
(* rides and parcels that wait for a rider.                                *)
(*                                                                         *)
(* The switch is sent over a socket, and nobody tells the page what became *)
(* of it.  The list is filled by two ways that know nothing of each other: *)
(* the replies to getNearby, asked for every minute, and the broadcasts of *)
(* new requests.  A request is a ride or a parcel; the two lists that are  *)
(* asked for together are one here, since nothing is in both.  The card of *)
(* the active job, the figures and the charts are left out.                *)
(***************************************************************************)
EXTENDS Naturals, Sequences, SequencesExt

CONSTANTS
    Rides, Parcels,   \* the requests there will be
    Handlers,         \* messages of the socket that the server works on at a time
    MaxLoads,         \* bound on the calls of getNearby in flight
    MaxSwitches,      \* bound on the switches sent and not yet received
    Overlap,          \* TRUE: the server's handlers overlap one another
    Faults            \* TRUE: sockets drop, calls fail, positions are denied

Jobs == Rides \cup Parcels

DashboardAssumption ==
    /\ Rides \cap Parcels = {}
    /\ {MaxLoads, MaxSwitches} \subseteq Nat \ {0}
    /\ {Overlap, Faults} \subseteq BOOLEAN

VARIABLES
    job,          \* the server's status of each request
    isAvailable,  \* the rider's row
    h,            \* the handlers at work: the availability they will write
    page,         \* the component
    sock,         \* TrackingService's socket
    wire,         \* the switches emitted on it and not yet received
    news,         \* the broadcasts sent on it and not yet received
    loads,        \* the calls of getNearby in flight
    accepting,    \* the calls that accept a request
    late,         \* TRUE: the ngOnInit of a page that was left still waits
    lost,         \* history: the server never got to a switch sent lately
    hasty         \* history: the rider did not wait for the page to be entered

vars == <<job, isAvailable, h, page, sock, wire, news, loads, accepting, late, lost, hasty>>

-----------------------------------------------------------------------------
(* `list`: how often pendingRequests has each request; `locating`: the     *)
(* browser has been asked for the rider's position.  A page that is        *)
(* "entering" awaits its first three loads.                                *)
Pages == [at : {"away", "entering", "open"}, online : BOOLEAN, list : [Jobs -> 0 .. 2],
          locating : BOOLEAN]

Empty == [j \in Jobs |-> 0]

Away == [at |-> "away", online |-> TRUE, list |-> Empty, locating |-> FALSE]

(* "refused": the server closed the socket because of its token, and       *)
(* socket.io does not try again.                                           *)
SocketStates == {"none", "connecting", "connected", "refused"}

Loads == [done : BOOLEAN, found : SUBSET Jobs]

Waiting == {j \in Jobs : job[j] = "PENDING"}

Init ==
    /\ job = [j \in Jobs |-> "unborn"]
    /\ isAvailable \in BOOLEAN
    /\ h = [p \in Handlers |-> {}]
    /\ page = Away
    /\ sock = "none"
    /\ wire = <<>> /\ news = <<>> /\ loads = <<>>
    /\ accepting = [j \in Jobs |-> "no"]
    /\ late = FALSE
    /\ lost = FALSE
    /\ hasty = FALSE

-----------------------------------------------------------------------------
(* toggleAvailability: socket.io keeps what is emitted on a socket that is *)
(* not connected yet, and sends it then.  Without a socket nothing is      *)
(* emitted.                                                                *)
Emit(isOn) ==
    IF sock = "none" THEN UNCHANGED <<wire, lost>>
    ELSE /\ Len(wire) < MaxSwitches
         /\ wire' = Append(wire, isOn)
         /\ lost' = FALSE

(* loadNearbyRequests looks at the switch once, before it asks.            *)
LoadNearby(online) ==
    IF online
    THEN /\ Len(loads) < MaxLoads
         /\ loads' = Append(loads, [done |-> FALSE, found |-> {}])
    ELSE UNCHANGED loads

(* ngOnInit up to its await; isOnline is TRUE on a new page.               *)
Open ==
    /\ page.at = "away"
    /\ page' = [Away EXCEPT !.at = "entering"]
    /\ sock' = "connecting"
    /\ UNCHANGED <<job, isAvailable, h, wire, news, loads, accepting, late, lost, hasty>>

(* The rest of ngOnInit: setupListeners, toggleAvailability(true) and      *)
(* reportLocation, whatever the switch has been set to meanwhile.          *)
Entered ==
    /\ page.at = "entering"
    /\ page' = [page EXCEPT !.at = "open", !.locating = TRUE]
    /\ Emit(TRUE)
    /\ UNCHANGED <<job, isAvailable, h, sock, news, loads, accepting, late, hasty>>

(* Mutant: the switch that is emitted is the one before.                   *)
EmitsOldSwitch ==
    /\ page.at # "away"
    /\ page' = [page EXCEPT !.online = ~@,
                            !.list = IF page.online THEN Empty ELSE @,
                            !.locating = @ \/ ~page.online]
    /\ Emit(page.online)
    /\ LoadNearby(~page.online)
    /\ hasty' = (page.at = "entering" \/ late)
    /\ UNCHANGED <<job, isAvailable, h, sock, news, accepting, late>>

(* toggleOnline *)
ToggleOnline ==
    /\ page.at # "away"
    /\ page' = [page EXCEPT !.online = ~@,
                            !.list = IF page.online THEN Empty ELSE @,
                            !.locating = @ \/ ~page.online]
    /\ Emit(~page.online)
    /\ LoadNearby(~page.online)
    /\ hasty' = (page.at = "entering" \/ late)
    /\ UNCHANGED <<job, isAvailable, h, sock, news, accepting, late>>

(* reportLocation's callback; the position itself is left out.             *)
Located ==
    /\ page.locating
    /\ page' = [page EXCEPT !.locating = FALSE]
    /\ LoadNearby(page.online)
    /\ UNCHANGED <<job, isAvailable, h, sock, wire, news, accepting, late, lost, hasty>>

Denied ==
    /\ Faults /\ page.locating
    /\ page' = [page EXCEPT !.locating = FALSE]
    /\ UNCHANGED <<job, isAvailable, h, sock, wire, news, loads, accepting, late, lost, hasty>>

(* nearbyTimer, set before the first loads.                                *)
Poll ==
    /\ page.at # "away" /\ page.online
    /\ LoadNearby(page.online)
    /\ UNCHANGED <<job, isAvailable, h, page, sock, wire, news, accepting, late, lost, hasty>>

(* ngOnDestroy.  What was sent on the socket still gets there; what waited *)
(* for it to connect is gone, and so is whoever awaits a reply.  One       *)
(* ngOnInit at a time may be left waiting, a bound of the model.           *)
Leave ==
    /\ page.at = "open" \/ (page.at = "entering" /\ ~late)
    /\ page' = Away
    /\ late' = (late \/ page.at = "entering")
    /\ sock' = "none"
    /\ wire' = IF sock = "connected" THEN wire ELSE <<>>
    /\ lost' = (lost \/ wire' # wire)
    /\ news' = <<>> /\ loads' = <<>>
    /\ accepting' = [j \in Jobs |-> IF accepting[j] = "asked" THEN "left"
                                    ELSE IF accepting[j] = "ok" THEN "no" ELSE accepting[j]]
    /\ hasty' = (hasty \/ page.at = "entering")
    /\ UNCHANGED <<job, isAvailable, h>>

(* The rest of ngOnInit of a page that was left: its emit goes out on      *)
(* whatever socket TrackingService has now.                                *)
LateEntered ==
    /\ late
    /\ late' = FALSE
    /\ Emit(TRUE)
    /\ UNCHANGED <<job, isAvailable, h, page, sock, news, loads, accepting, hasty>>

-----------------------------------------------------------------------------
(* The list *)

(* Mutant: what getNearby found is added to what the list shows.           *)
AddsNearby(i) ==
    /\ i \in DOMAIN loads /\ loads[i].done
    /\ page' = [page EXCEPT !.list = [j \in Jobs |-> IF j \in loads[i].found THEN 1 ELSE @[j]]]
    /\ loads' = RemoveAt(loads, i)
    /\ UNCHANGED <<job, isAvailable, h, sock, wire, news, accepting, late, lost, hasty>>

(* getNearby's reply replaces the list, be the rider online still or not.  *)
NearbyShown(i) ==
    /\ i \in DOMAIN loads /\ loads[i].done
    /\ page' = [page EXCEPT !.list = [j \in Jobs |-> IF j \in loads[i].found THEN 1 ELSE 0]]
    /\ loads' = RemoveAt(loads, i)
    /\ UNCHANGED <<job, isAvailable, h, sock, wire, news, accepting, late, lost, hasty>>

(* A broadcast: the listeners exist once ngOnInit has run to its end, and  *)
(* do not look whether the list has the request already.                   *)
NewsArrives ==
    /\ news # <<>>
    /\ news' = Tail(news)
    /\ page' = IF page.at = "open" /\ page.online
               THEN [page EXCEPT !.list[Head(news)] = @ + 1] ELSE page
    /\ UNCHANGED <<job, isAvailable, h, sock, wire, loads, accepting, late, lost, hasty>>

(* acceptRequest *)
Accept(j) ==
    /\ page.list[j] > 0 /\ accepting[j] = "no"
    /\ accepting' = [accepting EXCEPT ![j] = "asked"]
    /\ UNCHANGED <<job, isAvailable, h, page, sock, wire, news, loads, late, lost, hasty>>

(* acceptRequest goes on, after loadActiveJob: the request is taken off.   *)
Accepted(j) ==
    /\ accepting[j] = "ok"
    /\ accepting' = [accepting EXCEPT ![j] = "no"]
    /\ page' = [page EXCEPT !.list[j] = 0]
    /\ UNCHANGED <<job, isAvailable, h, sock, wire, news, loads, late, lost, hasty>>

-----------------------------------------------------------------------------
(* The server *)

(* handleConnection, the token accepted or refused.                        *)
Connect ==
    /\ sock = "connecting"
    /\ sock' \in IF Faults THEN {"connected", "refused"} ELSE {"connected"}
    /\ UNCHANGED <<job, isAvailable, h, page, wire, news, loads, accepting, late, lost, hasty>>

(* The socket drops and what is on its way with it; it connects again by   *)
(* itself.                                                                 *)
Drop ==
    /\ Faults /\ sock = "connected"
    /\ sock' = "connecting"
    /\ wire' = <<>> /\ news' = <<>>
    /\ lost' = (lost \/ wire # <<>>)
    /\ UNCHANGED <<job, isAvailable, h, page, loads, accepting, late, hasty>>

(* handleToggleAvailability up to updateAvailability's update.             *)
StartToggle(p) ==
    /\ wire # <<>> /\ sock \in {"none", "connected"}
    /\ h[p] = {} /\ (Overlap \/ \A q \in Handlers : h[q] = {})
    /\ h' = [h EXCEPT ![p] = {Head(wire)}]
    /\ wire' = Tail(wire)
    /\ UNCHANGED <<job, isAvailable, page, sock, news, loads, accepting, late, lost, hasty>>

UpdateAvailability(p) ==
    /\ h[p] # {}
    /\ isAvailable' \in h[p]
    /\ h' = [h EXCEPT ![p] = {}]
    /\ UNCHANGED <<job, page, sock, wire, news, loads, accepting, late, lost, hasty>>

(* The update throws; the page asked for no answer.                        *)
ToggleFails(p) ==
    /\ Faults /\ h[p] # {}
    /\ h' = [h EXCEPT ![p] = {}]
    /\ lost' = TRUE
    /\ UNCHANGED <<job, isAvailable, page, sock, wire, news, loads, accepting, late, hasty>>

(* createRide and createParcel: the row, then emitNewRideRequest to the    *)
(* room of the riders, online or not.                                      *)
Create(j) ==
    /\ job[j] = "unborn"
    /\ job' = [job EXCEPT ![j] = "PENDING"]
    /\ news' = IF sock = "connected" THEN Append(news, j) ELSE news
    /\ UNCHANGED <<isAvailable, h, page, sock, wire, loads, accepting, late, lost, hasty>>

(* It is cancelled, or another rider takes it.                             *)
Gone(j) ==
    /\ job[j] = "PENDING"
    /\ job' = [job EXCEPT ![j] = "gone"]
    /\ UNCHANGED <<isAvailable, h, page, sock, wire, news, loads, accepting, late, lost, hasty>>

(* getNearbyPendingRides and getNearbyPendingParcels; the first 20 of each *)
(* are taken to be all there are.                                          *)
ServeNearby(i) ==
    /\ i \in DOMAIN loads /\ ~loads[i].done
    /\ loads' = [loads EXCEPT ![i] = [done |-> TRUE, found |-> Waiting]]
    /\ UNCHANGED <<job, isAvailable, h, page, sock, wire, news, accepting, late, lost, hasty>>

NearbyFails(i) ==
    /\ Faults /\ i \in DOMAIN loads /\ ~loads[i].done
    /\ loads' = RemoveAt(loads, i)
    /\ UNCHANGED <<job, isAvailable, h, page, sock, wire, news, accepting, late, lost, hasty>>

(* acceptRide and acceptParcel, which module Rides and module Parcels have *)
(* call by call; only rides ask whether the rider is available.            *)
ServeAccept(j) ==
    /\ accepting[j] \in {"asked", "left"}
    /\ IF job[j] = "PENDING" /\ (j \in Rides => isAvailable)
       THEN /\ job' = [job EXCEPT ![j] = "gone"]
            /\ accepting' = [accepting EXCEPT ![j] = IF @ = "asked" THEN "ok" ELSE "no"]
       ELSE /\ accepting' = [accepting EXCEPT ![j] = "no"]
            /\ UNCHANGED job
    /\ UNCHANGED <<isAvailable, h, page, sock, wire, news, loads, late, lost, hasty>>

-----------------------------------------------------------------------------
Next ==
    \/ Open \/ Entered \/ ToggleOnline \/ Located \/ Denied \/ Poll \/ Leave \/ LateEntered
    \/ \E i \in 1 .. MaxLoads : NearbyShown(i) \/ ServeNearby(i) \/ NearbyFails(i)
    \/ NewsArrives \/ Connect \/ Drop
    \/ \E j \in Jobs : Accept(j) \/ Accepted(j) \/ Create(j) \/ Gone(j) \/ ServeAccept(j)
    \/ \E p \in Handlers : StartToggle(p) \/ UpdateAvailability(p) \/ ToggleFails(p)

Spec == Init /\ [][Next]_vars

(* The browser's timer goes on, replies and broadcasts that came are       *)
(* handled, and a server asked for the list again and again answers.       *)
Fairness ==
    /\ WF_vars(Poll)
    /\ WF_vars(NewsArrives)
    /\ WF_vars(\E i \in 1 .. MaxLoads : NearbyShown(i))
    /\ SF_vars(\E i \in 1 .. MaxLoads : ServeNearby(i))
    /\ \A j \in Jobs : WF_vars(ServeAccept(j) \/ Accepted(j))

FairSpec == Spec /\ Fairness
=============================================================================
