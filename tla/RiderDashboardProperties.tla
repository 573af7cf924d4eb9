---------------------- MODULE RiderDashboardProperties ----------------------
(***************************************************************************)
(* What the rider's dashboard promises.                                    *)
(***************************************************************************)
EXTENDS RiderDashboard

(* Statuses, the page and everything in flight are of their types; the     *)
(* list has no request more than twice.                                    *)
TypeOK ==
    /\ job \in [Jobs -> {"unborn", "PENDING", "gone"}]
    /\ isAvailable \in BOOLEAN
    /\ h \in [Handlers -> SUBSET BOOLEAN]
    /\ page \in Pages
    /\ sock \in SocketStates
    /\ wire \in Seq(BOOLEAN) /\ Len(wire) <= MaxSwitches
    /\ news \in Seq(Jobs)
    /\ loads \in Seq(Loads) /\ Len(loads) <= MaxLoads
    /\ accepting \in [Jobs -> {"no", "asked", "left", "ok"}]
    /\ {late, lost, hasty} \subseteq BOOLEAN

(* Once the page is open and no switch is on its way or was lost, the      *)
(* server has the rider as the page shows him: a rider who sees            *)
(* "Currently Offline" is not available, however often he switched, left   *)
(* and came back, and wherever the socket dropped.  Except if he has not   *)
(* switched since he used or left a page that was still being entered: the *)
(* rest of ngOnInit then makes him available.                              *)
AvailabilityAgrees ==
    page.at = "open" /\ wire = <<>> /\ (\A p \in Handlers : h[p] = {}) /\ ~lost /\ ~hasty
    => isAvailable = page.online

(* A rider who stays online is in the end shown every request that waits,  *)
(* once, and no other: old replies, requests shown twice, and requests     *)
(* that others took do not stay.                                           *)
ListCatchesUp ==
    <>[](page.at # "away" /\ page.online)
    => <>[](\A j \in Jobs : page.list[j] = IF job[j] = "PENDING" THEN 1 ELSE 0)

(* A rider who is offline is shown no requests.                            *)
OfflineShowsNothing == page.at # "away" /\ ~page.online => page.list = Empty

(* No request is in the list twice.                                        *)
ListedOnce == \A j \in Jobs : page.list[j] <= 1
=============================================================================
