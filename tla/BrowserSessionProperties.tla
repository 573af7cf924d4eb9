---------------------- MODULE BrowserSessionProperties ----------------------
(***************************************************************************)
(* What the owner of a browser may rely on about being signed in.          *)
(***************************************************************************)
EXTENDS BrowserSession

(* Storage, signals and requests hold values of their types.               *)
TypeOK ==
    /\ store \in Stores
    /\ user \in [Tabs -> {0} \cup Tokens]
    /\ refreshing \in [Tabs -> Refreshes]
    /\ req \in [Slots -> Requests]
    /\ row \in {0} \cup Tokens /\ isActive \in BOOLEAN /\ expired \subseteq Tokens
    /\ issued \in {0} \cup Tokens /\ clean \in BOOLEAN

(* Whichever answers come late, the stored tokens belong together and to   *)
(* a user: never an access token without a user entry, with which a tab    *)
(* that is loaded would show the login page and yet send the token, never  *)
(* a refresh token of another login than the access token or one left      *)
(* behind by a logout.  The entry may be of another user, or outlive the   *)
(* tokens: a late profile restores it.                                     *)
TokensBelong ==
    /\ store.access # 0 => store.user # 0
    /\ store.refresh \in {0, store.access}

(* A login lasts until the user logs out in one of the tabs, its access    *)
(* token is over or the account is suspended: no other failure of a        *)
(* request ends it, and no profile answered late.  Provided nothing was in *)
(* flight when he logged in.                                               *)
LoginLasts ==
    [][store.access # 0 /\ store'.access # store.access /\ clean =>
         \/ store.access \in expired
         \/ \E s \in Slots : req[s].for = "logout" /\ req[s].pressed /\ req'[s] = Idle
         \/ \E s \in Slots : req[s].for = "login" /\ req'[s] = Idle]_vars

(* A page never waits forever for a call, however many calls wait for the  *)
(* same refresh and whatever becomes of it.                                *)
CallEnds == \A s \in Slots : req[s].for = "call" ~> req[s].for # "call"

-----------------------------------------------------------------------------
(* What comments say.                                                      *)

(* "Attempt a token refresh once": a session the server would go on with   *)
(* does not end when its access token does.                                *)
ExpiryIsBridged ==
    [][\A t \in Tabs : refreshing[t].at = "sent" /\ row # 0
         => refreshing'[t].at # "401"]_vars

(* A login lasts, whatever was in flight when the user logged in.          *)
LoginAlwaysLasts ==
    [][store.access # 0 /\ store'.access = 0 =>
         \/ store.access \in expired
         \/ \E s \in Slots : req[s].for = "logout" /\ req[s].pressed /\ req'[s] = Idle]_vars

(* A tab shows the user whose tokens it sends.                             *)
TabsAgree == \A t \in Tabs : user[t] # 0 => user[t] = store.user
=============================================================================
