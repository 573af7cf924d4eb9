------------------------- MODULE RiderTripProperties -------------------------
(***************************************************************************)
(* What the rider's page of active trips promises.                         *)
(***************************************************************************)
EXTENDS RiderTrip

(* Rows, the page, requests and uploads are of their types.                *)
TypeOK ==
    /\ trip \in [Trips -> Rows]
    /\ page \in Pages
    /\ sock \in {"none", "connecting", "connected"}
    /\ news \subseteq Trips
    /\ reqs \in Seq(Requests) /\ Len(reqs) <= MaxRequests
    /\ uploads \in Seq(Uploads) /\ Len(uploads) <= MaxUploads

(* A parcel that was delivered has the proof that sender and rider are to  *)
(* find in its history.  The server does not ask for it: all there is, is  *)
(* the page's one flag, which late replies, uploads of the parcel before   *)
(* and a page opened again must not carry over to the next parcel.         *)
ProofBeforeDelivery ==
    \A t \in Parcels : trip[t].st = "DELIVERED" => trip[t].proof

(* What the page shows of a kind is one of the active trips as it is, its  *)
(* payment included, and nothing only if there is none.                    *)
Shows(card, kind) == card \in FirstActive(kind)

(* A page that is left open shows the active trips in the end, whatever    *)
(* replies were late, events lost and payments made meanwhile.             *)
ActiveCatchesUp ==
    <>[](page.at = "open" /\ page.loaded)
    => <>[](Shows(page.ride, Rides) /\ Shows(page.parcel, Parcels))

(* The same without a first load that succeeded.                           *)
OpenCatchesUp ==
    <>[](page.at = "open")
    => <>[](Shows(page.ride, Rides) /\ Shows(page.parcel, Parcels))

(* A page that has read that the trip is paid does not ask the rider to    *)
(* wait for the payment again.                                             *)
PaidStaysShown ==
    [][page.ride.id # NoTrip /\ page.ride.paid /\ page'.ride.id = page.ride.id
       => page'.ride.paid]_page
=============================================================================
