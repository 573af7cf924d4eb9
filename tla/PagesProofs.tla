------------------------ MODULE PagesProofs ------------------------
(***************************************************************************)
(* Proofs about the pages in the browser: BrowserSession, for every set of *)
(* tabs and of requests in flight and any number of logins; the rider's    *)
(* dashboard, for every set of rides and parcels, of handlers and any      *)
(* number of loads and switches in flight; the rider's page of active      *)
(* trips, for every set of trips and any number of requests and uploads in *)
(* flight; and the chat page, for any number of messages, requests and     *)
(* handlers.  Their modules share no name.                                 *)
(***************************************************************************)
EXTENDS BrowserSessionProperties, RiderApp, ChatProperties,
        Integers, SequencesExt, Sums, TLAPS

LEMMA HeaderType ==
    ASSUME TypeOK, NEW own \in Headers
    PROVE  Header(own) \in Headers
  BY DEF TypeOK, Stores, Header, Headers, Access

LEMMA SentType ==
    ASSUME TypeOK, NEW for \in {"call", "login", "logout", "change"},
           NEW t \in Tabs \cup {NoTab}, NEW retried \in BOOLEAN, NEW pressed \in BOOLEAN
    PROVE  Sent(for, t, retried, pressed) \in Requests
<1>1. Header(Access(0)) \in Headers
  BY HeaderType DEF Headers, Access
<1>2. QED
  BY <1>1 DEF Sent, Requests, Headers

LEMMA IdleFields ==
    /\ Idle \in Requests
    /\ Idle.for = "none" /\ Idle.at = "sent" /\ ~Idle.retried
  BY DEF Idle, Requests

LEMMA RequestUpdates ==
    ASSUME NEW x \in Requests, NEW at \in {"sent", "ok", "401", "error", "awaiting"},
           NEW k \in {0} \cup Tokens
    PROVE  /\ [x EXCEPT !.at = at] \in Requests
           /\ [x EXCEPT !.tab = NoTab] \in Requests
           /\ [x EXCEPT !.at = at, !.token = k] \in Requests
           /\ [x EXCEPT !.at = at, !.token = k, !.retried = TRUE] \in Requests
  BY DEF Requests

LEMMA RefreshUpdates ==
    ASSUME NEW x \in Refreshes, NEW at \in {"no", "sent", "ok", "401", "error"}
    PROVE  /\ [x EXCEPT !.at = at] \in Refreshes
           /\ \A k \in {0} \cup Tokens : [x EXCEPT !.at = at, !.got = k] \in Refreshes
  BY DEF Refreshes

LEMMA NoRefreshType == NoRefresh \in Refreshes /\ NoRefresh.at = "no"
  BY DEF NoRefresh, Refreshes, Headers, Access

LEMMA InitTypeOK == Init => TypeOK
  BY NoRefreshType, IdleFields DEF Init, TypeOK, NoStore, Stores

(* One more login or refresh, as long as the bound allows it.              *)
LEMMA NextToken ==
    ASSUME TypeOK, issued < MaxTokens
    PROVE  issued + 1 \in Tokens /\ issued + 1 # 0
  BY BrowserAssumption DEF TypeOK, Tokens

(* What serving a request may do to the tokens issued and to the row.      *)
LEMMA EffectTypes ==
    ASSUME TypeOK, NEW s \in Slots, Effect(s)
    PROVE  /\ issued' \in {0} \cup Tokens /\ row' \in {0} \cup Tokens
           /\ req[s].for = "login" => issued' \in Tokens /\ issued' # 0
<1>1. CASE req[s].for = "login"
  <2>1. issued < MaxTokens /\ issued' = issued + 1 /\ row' = issued + 1
    BY <1>1 DEF Effect
  <2>2. QED
    BY <2>1, NextToken
<1>2. CASE req[s].for # "login"
  <2>1. /\ issued' = issued /\ row' \in {0, row}
    BY <1>2 DEF Effect
  <2>2. issued \in {0} \cup Tokens /\ row \in {0} \cup Tokens
    BY DEF TypeOK
  <2>3. QED
    BY <1>2, <2>1, <2>2
<1>3. QED
  BY <1>1, <1>2

(* The places of the requests that a step changes.                         *)
LEMMA RespondType ==
    ASSUME TypeOK, NEW s \in Slots, NEW at \in {"ok", "401", "error"},
           NEW k \in {0} \cup Tokens, Respond(s, at, k)
    PROVE  req' \in [Slots -> Requests]
<1>1. [req[s] EXCEPT !.at = at, !.token = k] \in Requests
  BY RequestUpdates DEF TypeOK
<1>2. req \in [Slots -> Requests]
  BY DEF TypeOK
<1>3. QED
  BY <1>1, <1>2, IdleFields DEF Respond

LEMMA FinishType ==
    ASSUME TypeOK, NEW s \in Slots, Finish(s)
    PROVE  req' \in [Slots -> Requests]
  BY IdleFields DEF TypeOK, Finish

LEMMA StepTypeOK == TypeOK /\ [Next]_vars => TypeOK'
<1> SUFFICES ASSUME TypeOK, [Next]_vars
             PROVE  TypeOK'
  OBVIOUS
<1>1. ASSUME NEW s \in Slots, NEW t \in Tabs,
             NEW for \in {"call", "login", "logout", "change"},
             NEW pressed \in BOOLEAN, Send(s, for, t, pressed)
      PROVE  TypeOK'
  <2>1. Sent(for, t, FALSE, pressed) \in Requests
    BY SentType
  <2>2. QED
    BY <1>1, <2>1 DEF Send, TypeOK
<1>2. ASSUME NEW s \in Slots,
             \/ CallDone(s) \/ ProfileDone(s) \/ LoggedIn(s) \/ PasswordChanged(s)
             \/ LoggedOut(s)
      PROVE  TypeOK'
  <2>1. Finish(s)
    BY <1>2 DEF CallDone, ProfileDone, LoggedIn, PasswordChanged, LoggedOut
  <2>2. req' \in [Slots -> Requests]
    BY <2>1, FinishType
  <2>3. req[s].token \in {0} \cup Tokens /\ req[s].tab \in Tabs \cup {NoTab}
    BY DEF TypeOK, Requests
  <2>4. CASE CallDone(s)
    BY <2>2, <2>4 DEF CallDone, TypeOK
  <2>5. CASE LoggedIn(s)
    BY <2>2, <2>3, <2>5 DEF LoggedIn, TypeOK, Stores
  <2>6. CASE PasswordChanged(s)
    BY <2>2, <2>6 DEF PasswordChanged, TypeOK, Stores
  <2>7. CASE LoggedOut(s)
    BY <2>2, <2>7 DEF LoggedOut, TypeOK, Stores, NoStore
  <2>8. CASE ProfileDone(s)
    <3>1. user[req[s].tab] \in {0} \cup Tokens
      BY <2>3, <2>8 DEF ProfileDone, Answered, TypeOK
    <3>2. store' \in Stores
      BY <2>8, <3>1 DEF ProfileDone, TypeOK, Stores
    <3>3. QED
      BY <2>2, <2>8, <3>2 DEF ProfileDone, TypeOK
  <2>9. QED
    BY <1>2, <2>4, <2>5, <2>6, <2>7, <2>8
<1>3. ASSUME NEW s \in Slots, CallRefused(s)
      PROVE  TypeOK'
  <2>1. req[s] \in Requests
    BY DEF TypeOK
  <2>2. req' \in [Slots -> Requests]
    <3>1. req[s].tab \in Tabs \cup {NoTab}
      BY <2>1 DEF Requests
    <3>2. Sent("logout", req[s].tab, FALSE, FALSE) \in Requests
      BY <3>1, SentType
    <3>3. [req[s] EXCEPT !.at = "awaiting"] \in Requests
      BY <2>1, RequestUpdates
    <3>4. QED
      BY <1>3, <3>2, <3>3 DEF CallRefused, TypeOK
  <2>3. refreshing' \in [Tabs -> Refreshes]
    <3> DEFINE x == [at |-> "sent", header |-> Header(RefreshOf(store.refresh)), got |-> 0]
    <3>1. x \in Refreshes
      <4>1. RefreshOf(store.refresh) \in Headers
        BY DEF TypeOK, Stores, RefreshOf, Headers
      <4>2. Header(RefreshOf(store.refresh)) \in Headers
        BY <4>1, HeaderType
      <4>3. QED
        BY <4>2 DEF Refreshes
    <3>2. \A t \in Tabs : [refreshing[t] EXCEPT !.at = "error"] \in Refreshes
      BY RefreshUpdates DEF TypeOK
    <3> HIDE DEF x
    <3>3. \/ refreshing' = refreshing
          \/ \E t : \E y : /\ refreshing' = [refreshing EXCEPT ![t] = y]
                           /\ y = x \/ y = [refreshing[t] EXCEPT !.at = "error"]
      BY <1>3 DEF CallRefused, x
    <3>4. QED
      BY <3>1, <3>2, <3>3 DEF TypeOK
  <2>4. QED
    BY <1>3, <2>2, <2>3 DEF CallRefused, TypeOK
<1>4. ASSUME NEW s \in Slots, Serve(s)
      PROVE  TypeOK'
  <2>1. ASSUME Effect(s), req[s].for = "login", Respond(s, "ok", issued')
        PROVE  TypeOK'
    <3>1. issued' \in Tokens /\ row' \in {0} \cup Tokens
      BY <2>1, EffectTypes
    <3>2. PICK k \in Tokens : k = issued'
      BY <3>1
    <3>3. Respond(s, "ok", k)
      BY <2>1, <3>2
    <3>4. req' \in [Slots -> Requests]
      BY <3>3, RespondType
    <3>5. QED
      BY <1>4, <3>1, <3>4 DEF Serve, TypeOK
  <2>2. ASSUME Effect(s), NEW at \in {"ok", "401"}, Respond(s, at, 0)
        PROVE  TypeOK'
    BY <1>4, <2>2, EffectTypes, RespondType DEF Serve, TypeOK
  <2>3. ASSUME Respond(s, "401", 0), UNCHANGED <<issued, row>>
        PROVE  TypeOK'
    BY <1>4, <2>3, RespondType DEF Serve, TypeOK
  <2>4. QED
    BY <1>4, <2>1, <2>2, <2>3 DEF Serve
<1>5. ASSUME NEW s \in Slots, Fail(s) \/ AnswerLost(s)
      PROVE  TypeOK'
  <2>1. CASE Fail(s)
    BY <2>1, RespondType DEF Fail, TypeOK
  <2>2. CASE AnswerLost(s)
    BY <2>2, EffectTypes DEF AnswerLost, TypeOK
  <2>3. QED
    BY <1>5, <2>1, <2>2
<1>6. ASSUME NEW t \in Tabs, RefreshEnds(t)
      PROVE  TypeOK'
  <2>1. refreshing[t].got \in {0} \cup Tokens /\ refreshing[t].at \in {"no", "sent", "ok", "401", "error"}
    BY DEF TypeOK, Refreshes
  <2>2. store' \in Stores
    BY <1>6, <2>1 DEF RefreshEnds, TypeOK, Stores
  <2>3. refreshing' \in [Tabs -> Refreshes]
    BY <1>6, NoRefreshType DEF RefreshEnds, TypeOK
  <2>4. req' \in [Slots -> Requests]
    <3>1. Sent("logout", t, FALSE, FALSE) \in Requests
      BY SentType
    <3>2. \A s \in Slots : [req[s] EXCEPT !.at = "sent", !.token = refreshing[t].got,
                                          !.retried = TRUE] \in Requests
      BY <2>1, RequestUpdates DEF TypeOK
    <3>3. QED
      BY <1>6, <3>1, <3>2 DEF RefreshEnds, TypeOK
  <2>5. QED
    BY <1>6, <2>2, <2>3, <2>4 DEF RefreshEnds, TypeOK
<1>7. ASSUME NEW t \in Tabs, ServeRefresh(t)
      PROVE  TypeOK'
  <2>1. CASE refreshing[t].header.kind = "refresh" /\ row # 0
    <3>1. /\ issued < MaxTokens /\ issued' = issued + 1 /\ row' = issued + 1
          /\ refreshing' = [refreshing EXCEPT ![t] =
                               [refreshing[t] EXCEPT !.at = "ok", !.got = issued + 1]]
      BY <1>7, <2>1 DEF ServeRefresh
    <3>2. issued + 1 \in Tokens
      BY <3>1, NextToken
    <3>3. refreshing' \in [Tabs -> Refreshes]
      BY <3>1, <3>2, RefreshUpdates DEF TypeOK
    <3>4. QED
      BY <1>7, <3>1, <3>2, <3>3 DEF ServeRefresh, TypeOK
  <2>2. CASE ~(refreshing[t].header.kind = "refresh" /\ row # 0)
    <3>1. /\ refreshing' = [refreshing EXCEPT ![t] = [refreshing[t] EXCEPT !.at = "401"]]
          /\ UNCHANGED <<store, user, req, row, isActive, expired, issued, clean>>
      BY <1>7, <2>2 DEF ServeRefresh
    <3>2. [refreshing[t] EXCEPT !.at = "401"] \in Refreshes
      BY RefreshUpdates DEF TypeOK
    <3>3. QED
      BY <3>1, <3>2 DEF TypeOK
  <2>3. QED
    BY <2>1, <2>2
<1>8. ASSUME NEW t \in Tabs, RefreshFails(t) \/ Reload(t)
      PROVE  TypeOK'
  <2>1. CASE RefreshFails(t)
    BY <2>1, RefreshUpdates DEF RefreshFails, TypeOK
  <2>2. CASE Reload(t)
    <3>1. \A s \in Slots : [req[s] EXCEPT !.tab = NoTab] \in Requests
      BY RequestUpdates DEF TypeOK
    <3>2. req \in [Slots -> Requests] /\ store.user \in {0} \cup Tokens
      BY DEF TypeOK, Stores
    <3>3. req' \in [Slots -> Requests]
      BY <2>2, <3>1, <3>2, IdleFields DEF Reload
    <3>4. QED
      BY <2>2, <3>2, <3>3, NoRefreshType DEF Reload, TypeOK
  <2>3. QED
    BY <1>8, <2>1, <2>2
<1>9. ASSUME NEW k \in Tokens, Expire(k)
      PROVE  TypeOK'
  BY <1>9 DEF Expire, TypeOK
<1>10. CASE SetAccountStatus
  BY <1>10 DEF SetAccountStatus, TypeOK
<1>11. CASE UNCHANGED vars
  BY <1>11 DEF vars, TypeOK
<1>12. QED
  BY <1>1, <1>2, <1>3, <1>4, <1>5, <1>6, <1>7, <1>8, <1>9, <1>10, <1>11
     DEF Next, Handled, Call, PressLogout, ChangePassword, Login

(* Storage, signals and requests keep their types.                         *)
THEOREM TypeCorrect == Spec => []TypeOK
  BY InitTypeOK, StepTypeOK, PTL DEF Spec

-----------------------------------------------------------------------------
(* The storage.  What keeps its tokens together is that no refresh ever    *)
(* succeeds: the request for one carries an access token, because          *)
(* authInterceptor puts the stored one there.                              *)

SessionInv ==
    /\ TokensBelong
    /\ \A t \in Tabs : /\ refreshing[t].at # "ok"
                       /\ refreshing[t].at = "sent" => refreshing[t].header.kind = "access"
    /\ \A s \in Slots : /\ req[s].for = "login" /\ req[s].at = "ok" => req[s].token # 0
                        /\ ~req[s].retried

(* What a step may do to the request in a slot: nothing that counts, end   *)
(* it, send it, make it wait for a refresh, or answer it.                  *)
Stays(s) ==
    /\ req'[s].for = req[s].for /\ req'[s].at = req[s].at /\ req'[s].token = req[s].token
    /\ req'[s].retried = req[s].retried /\ req'[s].pressed = req[s].pressed

IsSent(s) ==
    /\ req'[s].at = "sent" /\ ~req'[s].retried
    /\ req'[s].token = IF store.access # 0 THEN store.access ELSE 0
    /\ req'[s].for = "logout" /\ ~req'[s].pressed =>
           req[s].for = "call" /\ req[s].at = "awaiting"

StartsToWait(s) ==
    /\ req[s].for = "call" /\ req[s].at = "401"
    /\ req'[s].for = req[s].for /\ req'[s].at = "awaiting"
    /\ req'[s].retried = req[s].retried /\ req'[s].pressed = req[s].pressed

IsAnswered(s) ==
    /\ req'[s].for = req[s].for /\ req'[s].at \in {"ok", "401", "error"}
    /\ req'[s].retried = req[s].retried /\ req'[s].pressed = req[s].pressed
    /\ req'[s].for = "login" /\ req'[s].at = "ok" => req'[s].token # 0
    /\ req'[s].for = "call" /\ req'[s].at = "401" =>
           req[s].at = "sent" /\ ~Valid(req[s].token)

Moves(s) ==
    \/ Stays(s) \/ req'[s] = Idle \/ IsSent(s) \/ StartsToWait(s) \/ IsAnswered(s)

(* Only calls wait for a refresh.                                          *)
AwaitingInv ==
    \A s \in Slots : req[s].at = "awaiting" => req[s].for = "call"

LEMMA RespondMoves ==
    ASSUME TypeOK, NEW s \in Slots, NEW at, NEW k, Respond(s, at, k)
    PROVE  /\ \A q \in Slots \ {s} : Stays(q)
           /\ \/ req'[s] = Idle
              \/ /\ req'[s].for = req[s].for /\ req'[s].at = at /\ req'[s].token = k
                 /\ req'[s].retried = req[s].retried /\ req'[s].pressed = req[s].pressed
<1>1. [req[s] EXCEPT !.at = at, !.token = k].for = req[s].for
  BY DEF TypeOK, Requests
<1>2. QED
  BY DEF Respond, TypeOK, Requests, Stays

LEMMA RequestMoves ==
    ASSUME TypeOK, SessionInv, AwaitingInv, [Next]_vars, NEW s \in Slots
    PROVE  Moves(s)
<1>1. ASSUME NEW q \in Slots, NEW t \in Tabs,
             NEW for \in {"call", "login", "logout", "change"},
             NEW pressed \in BOOLEAN, for = "logout" => pressed, Send(q, for, t, pressed)
      PROVE  Moves(s)
  <2> DEFINE x == Sent(for, t, FALSE, pressed)
  <2>1. req'[s] = IF s = q THEN x ELSE req[s]
    BY <1>1 DEF Send, TypeOK
  <2>2. /\ x.at = "sent" /\ x.token = IF store.access # 0 THEN store.access ELSE 0
        /\ x.for = for /\ x.pressed = pressed /\ x.retried = FALSE
    BY DEF Sent, Header, Access
  <2> HIDE DEF x
  <2>3. QED
    BY <1>1, <2>1, <2>2 DEF Moves, Stays, IsSent
<1>2. ASSUME NEW q \in Slots,
             \/ CallDone(q) \/ ProfileDone(q) \/ LoggedIn(q) \/ PasswordChanged(q)
             \/ LoggedOut(q)
      PROVE  Moves(s)
  <2>1. Finish(q)
    BY <1>2 DEF CallDone, ProfileDone, LoggedIn, PasswordChanged, LoggedOut
  <2>2. QED
    BY <2>1 DEF Finish, TypeOK, Moves, Stays
<1>3. ASSUME NEW q \in Slots, CallRefused(q)
      PROVE  Moves(s)
  <2>1. ~req[q].retried /\ req[q].for = "call" /\ req[q].at = "401"
    BY <1>3 DEF CallRefused, Refused, Answered, SessionInv
  <2>2. req' = [req EXCEPT ![q].at = "awaiting"]
    BY <1>3, <2>1 DEF CallRefused
  <2>3. QED
    BY <2>1, <2>2 DEF TypeOK, Requests, Moves, Stays, StartsToWait
<1>4. ASSUME NEW q \in Slots, Serve(q)
      PROVE  Moves(s)
  <2>1. ASSUME Effect(q), req[q].for = "login", Respond(q, "ok", issued')
        PROVE  Moves(s)
    <3>1. issued' # 0
      BY <2>1, EffectTypes
    <3>2. PICK k : k = issued'
      OBVIOUS
    <3>3. Respond(q, "ok", k)
      BY <2>1, <3>2
    <3>4. QED
      BY <2>1, <3>1, <3>2, <3>3, RespondMoves DEF Moves, IsAnswered
  <2>2. ASSUME req[q].for # "login",
               Respond(q, IF Valid(req[q].token) THEN "ok" ELSE "401", 0)
        PROVE  Moves(s)
    <3>1. PICK at \in {"ok", "401"} : /\ at = IF Valid(req[q].token) THEN "ok" ELSE "401"
                                     /\ Respond(q, at, 0)
      BY <2>2
    <3>2. req[q].at = "sent"
      BY <1>4 DEF Serve
    <3>3. QED
      BY <2>2, <3>1, <3>2, RespondMoves DEF Moves, IsAnswered
  <2>3. ASSUME req[q].for \in {"login", "change"}, Respond(q, "401", 0)
        PROVE  Moves(s)
    BY <2>3, RespondMoves DEF Moves, IsAnswered
  <2>4. QED
    BY <1>4, <2>1, <2>2, <2>3 DEF Serve
<1>5. ASSUME NEW q \in Slots, Fail(q) \/ AnswerLost(q)
      PROVE  Moves(s)
  <2>1. CASE Fail(q)
    BY <2>1, RespondMoves DEF Fail, Moves, IsAnswered
  <2>2. CASE AnswerLost(q)
    BY <2>2 DEF AnswerLost, Moves, Stays
  <2>3. QED
    BY <1>5, <2>1, <2>2
<1>6. ASSUME NEW t \in Tabs, RefreshEnds(t)
      PROVE  Moves(s)
  <2>1. refreshing[t].at # "ok"
    BY DEF SessionInv
  <2> DEFINE x == Sent("logout", t, FALSE, FALSE)
  <2>2. req'[s] = IF ~Awaits(s, t) THEN req[s] ELSE x
    BY <1>6, <2>1 DEF RefreshEnds
  <2>3. /\ x.at = "sent" /\ x.token = IF store.access # 0 THEN store.access ELSE 0
        /\ x.retried = FALSE
    BY DEF Sent, Header, Access
  <2> HIDE DEF x
  <2>4. QED
    BY <2>2, <2>3 DEF Moves, Stays, IsSent, Awaits, AwaitingInv
<1>7. ASSUME NEW t \in Tabs, Reload(t)
      PROVE  Moves(s)
  <2>1. req'[s] \in {req[s], [req[s] EXCEPT !.tab = NoTab], Idle}
    BY <1>7 DEF Reload
  <2>2. QED
    BY <2>1 DEF TypeOK, Requests, Moves, Stays
<1>8. CASE UNCHANGED req
  BY <1>8 DEF Moves, Stays
<1>9. QED
  BY <1>1, <1>2, <1>3, <1>4, <1>5, <1>6, <1>7, <1>8
     DEF Next, Handled, Call, PressLogout, ChangePassword, Login, ServeRefresh,
         RefreshFails, Expire, SetAccountStatus, vars

(* The writers of the storage and of clean.                                *)
LEMMA StoreMoves ==
    ASSUME TypeOK, SessionInv, [Next]_vars
    PROVE  /\ expired \subseteq expired'
           /\ \/ UNCHANGED <<store, isActive, clean>>
              \/ SetAccountStatus
              \/ \E s \in Slots : ProfileDone(s)
              \/ \E s \in Slots : LoggedIn(s)
              \/ \E s \in Slots : PasswordChanged(s)
              \/ \E s \in Slots : LoggedOut(s)
<1>1. ASSUME NEW s \in Slots, NEW t \in Tabs,
             Call(s, t) \/ PressLogout(s, t) \/ ChangePassword(s, t) \/ Login(s, t)
      PROVE  UNCHANGED <<store, isActive, clean, expired>>
  BY <1>1 DEF Call, PressLogout, ChangePassword, Login, Send
<1>2. ASSUME NEW s \in Slots,
             CallDone(s) \/ CallRefused(s) \/ Serve(s) \/ Fail(s) \/ AnswerLost(s)
      PROVE  UNCHANGED <<store, isActive, clean, expired>>
  BY <1>2 DEF CallDone, CallRefused, Serve, Fail, AnswerLost
<1>3. ASSUME NEW s \in Slots,
             ProfileDone(s) \/ LoggedIn(s) \/ PasswordChanged(s) \/ LoggedOut(s)
      PROVE  expired' = expired
  BY <1>3 DEF ProfileDone, LoggedIn, PasswordChanged, LoggedOut
<1>4. ASSUME NEW t \in Tabs, RefreshEnds(t)
      PROVE  UNCHANGED <<store, isActive, clean, expired>>
  BY <1>4 DEF RefreshEnds, SessionInv
<1>5. ASSUME NEW t \in Tabs, ServeRefresh(t) \/ RefreshFails(t) \/ Reload(t)
      PROVE  UNCHANGED <<store, isActive, clean, expired>>
  BY <1>5 DEF ServeRefresh, RefreshFails, Reload
<1>6. ASSUME NEW k \in Tokens, Expire(k)
      PROVE  UNCHANGED <<store, isActive, clean>> /\ expired \subseteq expired'
  BY <1>6 DEF Expire
<1>7. CASE SetAccountStatus
  BY <1>7 DEF SetAccountStatus
<1>8. CASE UNCHANGED vars
  BY <1>8 DEF vars
<1>9. QED
  BY <1>1, <1>2, <1>3, <1>4, <1>5, <1>6, <1>7, <1>8 DEF Next, Handled

LEMMA InitSessionInv == Init => SessionInv /\ AwaitingInv
  BY IdleFields, NoRefreshType DEF Init, SessionInv, TokensBelong, AwaitingInv, NoStore

LEMMA StepAwaitingInv ==
    TypeOK /\ SessionInv /\ AwaitingInv /\ [Next]_vars => AwaitingInv'
<1> SUFFICES ASSUME TypeOK, SessionInv, AwaitingInv, [Next]_vars, NEW s \in Slots,
                    req'[s].at = "awaiting"
             PROVE  req'[s].for = "call"
  BY DEF AwaitingInv
<1>1. Moves(s)
  BY RequestMoves
<1>2. QED
  BY <1>1, IdleFields DEF Moves, Stays, IsSent, StartsToWait, IsAnswered, AwaitingInv

(* A refresh starts with the stored access token in its header, for there  *)
(* is one whenever there is a refresh token.                               *)
LEMMA RefreshStarts ==
    ASSUME TypeOK, SessionInv, NEW s \in Slots, CallRefused(s), NEW t \in Tabs
    PROVE  \/ refreshing'[t] = refreshing[t]
           \/ refreshing'[t].at = "error"
           \/ refreshing'[t].at = "sent" /\ refreshing'[t].header.kind = "access"
<1> DEFINE x == [at |-> "sent", header |-> Header(RefreshOf(store.refresh)), got |-> 0]
           y == [refreshing[t] EXCEPT !.at = "error"]
<1>1. y.at = "error"
  BY DEF TypeOK, Refreshes
<1>2. ASSUME store.refresh # 0
      PROVE  x.header.kind = "access"
  <2>1. store.access # 0
    BY <1>2 DEF SessionInv, TokensBelong
  <2>2. QED
    BY <2>1 DEF Header, Access
<1>3. \/ refreshing' = refreshing
      \/ store.refresh # 0 /\ refreshing' = [refreshing EXCEPT ![req[s].tab] = x]
      \/ refreshing' = [refreshing EXCEPT ![req[s].tab] =
                           [refreshing[req[s].tab] EXCEPT !.at = "error"]]
  BY DEF CallRefused
<1>4. x.at = "sent"
  OBVIOUS
<1> HIDE DEF x
<1>5. \/ refreshing'[t] = refreshing[t] \/ (store.refresh # 0 /\ refreshing'[t] = x)
      \/ refreshing'[t] = y
  BY <1>3 DEF TypeOK
<1> HIDE DEF y
<1>6. QED
  BY <1>1, <1>2, <1>4, <1>5

LEMMA RefreshMoves ==
    ASSUME TypeOK, SessionInv, [Next]_vars, NEW t \in Tabs
    PROVE  \/ refreshing'[t] = refreshing[t]
           \/ refreshing'[t].at \in {"no", "401", "error"}
           \/ refreshing'[t].at = "sent" /\ refreshing'[t].header.kind = "access"
<1>1. ASSUME NEW u \in Tabs, RefreshEnds(u) \/ Reload(u)
      PROVE  refreshing'[t] = refreshing[t] \/ refreshing'[t].at = "no"
  BY <1>1, NoRefreshType DEF RefreshEnds, Reload, TypeOK
<1>2. ASSUME NEW u \in Tabs, ServeRefresh(u)
      PROVE  refreshing'[t] = refreshing[t] \/ refreshing'[t].at = "401"
  <2>1. refreshing[u].header.kind = "access"
    BY <1>2 DEF ServeRefresh, SessionInv
  <2>2. refreshing' = [refreshing EXCEPT ![u].at = "401"]
    BY <1>2, <2>1 DEF ServeRefresh
  <2>3. QED
    BY <2>2 DEF TypeOK, Refreshes
<1>3. ASSUME NEW u \in Tabs, RefreshFails(u)
      PROVE  refreshing'[t] = refreshing[t] \/ refreshing'[t].at = "error"
  BY <1>3 DEF RefreshFails, TypeOK, Refreshes
<1>4. ASSUME NEW s \in Slots, NEW u \in Tabs,
             Call(s, u) \/ PressLogout(s, u) \/ ChangePassword(s, u) \/ Login(s, u)
      PROVE  refreshing' = refreshing
  BY <1>4 DEF Call, PressLogout, ChangePassword, Login, Send
<1>5. ASSUME NEW s \in Slots, \/ CallDone(s) \/ ProfileDone(s) \/ LoggedIn(s)
                              \/ PasswordChanged(s) \/ LoggedOut(s) \/ Serve(s)
                              \/ Fail(s) \/ AnswerLost(s)
      PROVE  refreshing' = refreshing
  BY <1>5 DEF CallDone, ProfileDone, LoggedIn, PasswordChanged, LoggedOut, Serve, Fail, AnswerLost
<1>6. ASSUME NEW k \in Tokens, Expire(k)
      PROVE  refreshing' = refreshing
  BY <1>6 DEF Expire
<1>7. CASE SetAccountStatus
  BY <1>7 DEF SetAccountStatus
<1>8. CASE UNCHANGED vars
  BY <1>8 DEF vars
<1>9. QED
  BY RefreshStarts, <1>1, <1>2, <1>3, <1>4, <1>5, <1>6, <1>7, <1>8 DEF Next, Handled

LEMMA StepSessionInv ==
    TypeOK /\ SessionInv /\ AwaitingInv /\ [Next]_vars => SessionInv'
<1> SUFFICES ASSUME TypeOK, SessionInv, AwaitingInv, [Next]_vars
             PROVE  SessionInv'
  OBVIOUS
<1>1. TokensBelong'
  <2>1. ASSUME NEW s \in Slots, LoggedIn(s)
        PROVE  TokensBelong'
    BY <2>1 DEF LoggedIn, Answered, SessionInv, TokensBelong
  <2>2. ASSUME NEW s \in Slots, PasswordChanged(s)
        PROVE  TokensBelong'
    BY <2>2 DEF PasswordChanged, SessionInv, TokensBelong, TypeOK, Stores
  <2>3. ASSUME NEW s \in Slots, LoggedOut(s)
        PROVE  TokensBelong'
    BY <2>3 DEF LoggedOut, TokensBelong, NoStore
  <2>4. ASSUME NEW s \in Slots, ProfileDone(s)
        PROVE  TokensBelong'
    BY <2>4 DEF ProfileDone, SessionInv, TokensBelong, TypeOK, Stores
  <2>5. CASE store' = store
    BY <2>5 DEF SessionInv, TokensBelong
  <2>6. QED
    BY StoreMoves, <2>1, <2>2, <2>3, <2>4, <2>5 DEF SetAccountStatus
<1>2. ASSUME NEW t \in Tabs
      PROVE  /\ refreshing'[t].at # "ok"
             /\ refreshing'[t].at = "sent" => refreshing'[t].header.kind = "access"
  BY RefreshMoves DEF SessionInv
<1>3. ASSUME NEW s \in Slots
      PROVE  /\ req'[s].for = "login" /\ req'[s].at = "ok" => req'[s].token # 0
             /\ ~req'[s].retried
  <2>1. Moves(s)
    BY RequestMoves
  <2>2. CASE Stays(s)
    BY <2>2 DEF Stays, SessionInv
  <2>3. CASE req'[s] = Idle
    BY <2>3, IdleFields
  <2>4. CASE IsSent(s)
    BY <2>4 DEF IsSent
  <2>5. CASE StartsToWait(s)
    BY <2>5 DEF StartsToWait, SessionInv
  <2>6. CASE IsAnswered(s)
    BY <2>6 DEF IsAnswered, SessionInv
  <2>7. QED
    BY <2>1, <2>2, <2>3, <2>4, <2>5, <2>6 DEF Moves
<1>4. QED
  BY <1>1, <1>2, <1>3 DEF SessionInv

(* The stored tokens belong together and to a user, whichever answers come *)
(* late in whichever tab: a login leaves all three entries, a logout none, *)
(* a late profile only a user, and no refresh ever writes its two tokens.  *)
THEOREM TokensAlwaysBelong == Spec => []TokensBelong
<1>1. SessionInv => TokensBelong
  BY DEF SessionInv
<1>2. QED
  BY InitTypeOK, StepTypeOK, InitSessionInv, StepAwaitingInv, StepSessionInv, <1>1, PTL
     DEF Spec

(* A refresh that came back with new tokens has its answer at "ok".        *)
NoRefreshSucceeds == \A t \in Tabs : refreshing[t].at # "ok"

(* No refresh of the access token ever succeeds: authInterceptor replaces  *)
(* the refresh token that api.refresh put in the header by the expired     *)
(* access token, which the server's guard of auth/refresh turns down.      *)
THEOREM RefreshesFail == Spec => []NoRefreshSucceeds
<1>1. SessionInv => NoRefreshSucceeds
  BY DEF SessionInv, NoRefreshSucceeds
<1>2. QED
  BY InitTypeOK, StepTypeOK, InitSessionInv, StepAwaitingInv, StepSessionInv, <1>1, PTL
     DEF Spec

-----------------------------------------------------------------------------
(* How a login ends.  As long as the login last stored began with nothing  *)
(* in flight and the account stays active, the calls under way carry its   *)
(* token; one that was refused shows that the token is over, and so does a *)
(* logout nobody pressed.                                                  *)

LastsInv ==
    clean => /\ isActive
             /\ store.access # 0 =>
                  \A s \in Slots :
                    /\ req[s].for = "call" /\ req[s].at = "sent" => req[s].token = store.access
                    /\ req[s].for = "call" /\ req[s].at \in {"401", "awaiting"}
                           => store.access \in expired
                    /\ req[s].for = "logout" /\ ~req[s].pressed => store.access \in expired

(* Short of a new login, a step that leaves the session clean with a token *)
(* in the storage leaves that token there, and the account active.         *)
LEMMA CleanStep ==
    ASSUME TypeOK, SessionInv, LastsInv, [Next]_vars, clean',
           ~\E s \in Slots : LoggedIn(s)
    PROVE  /\ clean /\ isActive' /\ expired \subseteq expired'
           /\ store'.access # 0 => store'.access = store.access
<1>0. expired \subseteq expired'
  BY StoreMoves
<1>1. ASSUME NEW s \in Slots, PasswordChanged(s)
      PROVE  clean /\ isActive' /\ store'.access = store.access
  BY <1>1 DEF PasswordChanged, TypeOK, Stores, LastsInv
<1>2. ASSUME NEW s \in Slots, ProfileDone(s)
      PROVE  clean /\ isActive' /\ store'.access = store.access
  BY <1>2 DEF ProfileDone, TypeOK, Stores, LastsInv
<1>3. ASSUME NEW s \in Slots, LoggedOut(s)
      PROVE  clean /\ isActive' /\ store'.access = 0
  BY <1>3 DEF LoggedOut, NoStore, LastsInv
<1>4. CASE SetAccountStatus
  BY <1>0, <1>4 DEF SetAccountStatus, LastsInv
<1>5. CASE UNCHANGED <<store, isActive, clean>>
  BY <1>0, <1>5 DEF LastsInv
<1>6. QED
  BY StoreMoves, <1>0, <1>1, <1>2, <1>3, <1>4, <1>5

LEMMA StepLastsInv ==
    TypeOK /\ SessionInv /\ AwaitingInv /\ LastsInv /\ [Next]_vars => LastsInv'
<1> SUFFICES ASSUME TypeOK, SessionInv, AwaitingInv, LastsInv, [Next]_vars, clean'
             PROVE  /\ isActive'
                    /\ store'.access # 0 =>
                         \A s \in Slots :
                           /\ req'[s].for = "call" /\ req'[s].at = "sent"
                                  => req'[s].token = store'.access
                           /\ req'[s].for = "call" /\ req'[s].at \in {"401", "awaiting"}
                                  => store'.access \in expired'
                           /\ req'[s].for = "logout" /\ ~req'[s].pressed
                                  => store'.access \in expired'
  BY DEF LastsInv
<1>1. ASSUME NEW s \in Slots, LoggedIn(s)
      PROVE  isActive' /\ \A q \in Slots : req'[q].for = "none"
  <2>1. /\ isActive' /\ req' = [req EXCEPT ![s] = Idle]
        /\ \A q \in Slots \ {s} : req[q] = Idle
    BY <1>1 DEF LoggedIn, Finish
  <2>2. QED
    BY <2>1, IdleFields DEF TypeOK
<1>2. ASSUME ~\E s \in Slots : LoggedIn(s), store'.access # 0, NEW s \in Slots
      PROVE  /\ req'[s].for = "call" /\ req'[s].at = "sent" => req'[s].token = store.access
             /\ req'[s].for = "call" /\ req'[s].at \in {"401", "awaiting"}
                    => store.access \in expired
             /\ req'[s].for = "logout" /\ ~req'[s].pressed => store.access \in expired
  <2>0. /\ store.access # 0 /\ isActive
        /\ req[s].for = "call" /\ req[s].at = "sent" => req[s].token = store.access
        /\ req[s].for = "call" /\ req[s].at \in {"401", "awaiting"}
               => store.access \in expired
        /\ req[s].for = "logout" /\ ~req[s].pressed => store.access \in expired
    BY <1>2, CleanStep DEF LastsInv
  <2>1. Moves(s)
    BY RequestMoves
  <2>2. CASE Stays(s)
    BY <2>0, <2>2 DEF Stays
  <2>3. CASE req'[s] = Idle
    BY <2>3, IdleFields
  <2>4. CASE IsSent(s)
    BY <2>0, <2>4 DEF IsSent
  <2>5. CASE StartsToWait(s)
    BY <2>0, <2>5 DEF StartsToWait
  <2>6. CASE IsAnswered(s)
    BY <2>0, <2>6 DEF IsAnswered, Valid
  <2>7. QED
    BY <2>1, <2>2, <2>3, <2>4, <2>5, <2>6 DEF Moves
<1>3. CASE \E s \in Slots : LoggedIn(s)
  BY <1>1, <1>3
<1>4. CASE ~\E s \in Slots : LoggedIn(s)
  <2>1. /\ isActive' /\ expired \subseteq expired'
        /\ store'.access # 0 => store'.access = store.access
    BY <1>4, CleanStep
  <2>2. QED
    BY <1>2, <1>4, <2>1
<1>5. QED
  BY <1>3, <1>4

(* Only a logout that was pressed in some tab, the end of its access token *)
(* or a suspension ends a login that began with nothing in flight: for any *)
(* number of tabs and calls, errors, answers that were lost and asked for  *)
(* again, and profiles that come late.                                     *)
THEOREM LoginsLast == Spec => LoginLasts
<1>1. Init => LastsInv
  BY DEF Init, LastsInv, NoStore
<1> DEFINE Ends == \/ store.access \in expired
                   \/ \E s \in Slots : req[s].for = "logout" /\ req[s].pressed /\ req'[s] = Idle
                   \/ \E s \in Slots : req[s].for = "login" /\ req'[s] = Idle
<1>2. ASSUME TypeOK, SessionInv, AwaitingInv, LastsInv, [Next]_vars,
             store.access # 0, store'.access # store.access, clean
      PROVE  Ends
  <2>1. ASSUME NEW s \in Slots, LoggedIn(s)
        PROVE  Ends
    <3>1. req[s].for = "login" /\ req'[s] = Idle
      BY <1>2, <2>1 DEF LoggedIn, Answered, Finish, TypeOK
    <3>2. QED
      BY <3>1
  <2>2. ASSUME NEW s \in Slots, PasswordChanged(s) \/ ProfileDone(s)
        PROVE  FALSE
    BY <1>2, <2>2 DEF PasswordChanged, ProfileDone, TypeOK, Stores
  <2>3. ASSUME NEW s \in Slots, LoggedOut(s)
        PROVE  Ends
    <3>1. req[s].for = "logout" /\ req'[s] = Idle
      BY <1>2, <2>3 DEF LoggedOut, Finish, TypeOK
    <3>2. ~req[s].pressed => store.access \in expired
      BY <1>2, <3>1 DEF LastsInv
    <3>3. QED
      BY <3>1, <3>2
  <2>4. CASE SetAccountStatus
    BY <1>2, <2>4 DEF SetAccountStatus
  <2>5. QED
    BY <1>2, <2>1, <2>2, <2>3, <2>4, StoreMoves
<1>3. TypeOK /\ SessionInv /\ AwaitingInv /\ LastsInv /\ [Next]_vars =>
          [store.access # 0 /\ store'.access # store.access /\ clean => Ends]_vars
  BY <1>2
<1>4. QED
  BY InitTypeOK, StepTypeOK, InitSessionInv, StepAwaitingInv, StepSessionInv, StepLastsInv,
     <1>1, <1>3, PTL DEF Spec, LoginLasts

-----------------------------------------------------------------------------
(* The dashboard                                                           *)

(* What is needed of the types: how often the list has a request does not  *)
(* matter here.                                                            *)
Lists == [Dash!Jobs -> Int]

DashboardPages == [at : {"away", "entering", "open"}, online : BOOLEAN, list : Lists,
                   locating : BOOLEAN]

DashboardShapes ==
    /\ dashboard \in DashboardPages
    /\ wire \in Seq(BOOLEAN)
    /\ h \in [Handlers -> {{}} \cup {{b} : b \in BOOLEAN}]
    /\ late \in BOOLEAN /\ lost \in BOOLEAN /\ hasty \in BOOLEAN

(* The server will have the rider's availability as b once it has received *)
(* and written all that was sent.                                          *)
Coming(b) ==
    /\ wire # <<>> => wire[Len(wire)] = b
    /\ wire = <<>> => /\ \A p \in Handlers : h[p] \in {{}, {b}}
                      /\ (\A p \in Handlers : h[p] = {}) => isAvailable = b

(* A page has a socket; who does not hurry the page has it show him online *)
(* until it is entered; handlers take turns; and the last switch sent is   *)
(* the one that the page shows, be it on the wire, in a handler's hands or *)
(* in the row.                                                             *)
SwitchInv ==
    /\ dashboard.at = "away" <=> dashboardSock = "none"
    /\ late => hasty
    /\ dashboard.at = "entering" /\ ~hasty => dashboard.online
    /\ \A p, q \in Handlers : h[p] # {} /\ h[q] # {} => p = q
    /\ dashboard.at = "open" /\ ~lost /\ ~hasty => Coming(dashboard.online)

LEMMA EmptyList == Dash!Empty \in Lists
  BY DEF Dash!Empty, Lists

(* What leaves the page where it is and its switch alone.                  *)
LEMMA PageKept ==
    ASSUME dashboard \in DashboardPages, NEW l \in Lists,
           \/ dashboard' = dashboard
           \/ dashboard' = [dashboard EXCEPT !.locating = FALSE]
           \/ dashboard' = [dashboard EXCEPT !.list = l]
    PROVE  /\ dashboard' \in DashboardPages
           /\ dashboard'.at = dashboard.at /\ dashboard'.online = dashboard.online
<1>1. CASE dashboard' = [dashboard EXCEPT !.locating = FALSE]
  BY <1>1 DEF DashboardPages
<1>2. CASE dashboard' = [dashboard EXCEPT !.list = l]
  BY <1>2 DEF DashboardPages
<1>3. QED
  BY <1>1, <1>2

LEMMA AwayPage ==
    ASSUME NEW at \in {"away", "entering", "open"}
    PROVE  /\ Dash!Away \in DashboardPages /\ Dash!Away.at = "away"
           /\ [Dash!Away EXCEPT !.at = at] \in DashboardPages
           /\ [Dash!Away EXCEPT !.at = at].at = at /\ [Dash!Away EXCEPT !.at = at].online
  BY EmptyList DEF Dash!Away, DashboardPages

LEMMA InitSwitch == Dash!Init => DashboardShapes /\ SwitchInv
<1> SUFFICES ASSUME Dash!Init PROVE DashboardShapes /\ SwitchInv
  OBVIOUS
<1>1. dashboard \in DashboardPages /\ dashboard.at = "away"
  BY AwayPage DEF Dash!Init
<1>3. \A p \in Handlers : h[p] = {}
  BY DEF Dash!Init
<1>2. DashboardShapes
  <2>1. h \in [Handlers -> {{}} \cup {{b} : b \in BOOLEAN}]
    <3>1. {} \in {{}} \cup {{b} : b \in BOOLEAN}
      OBVIOUS
    <3>2. QED
      BY <3>1 DEF Dash!Init
  <2>2. wire \in Seq(BOOLEAN)
    <3>1. wire = <<>>
      BY DEF Dash!Init
    <3>2. QED
      BY <3>1
  <2>3. QED
    BY <1>1, <2>1, <2>2 DEF Dash!Init, DashboardShapes
<1>4. SwitchInv
  BY <1>1, <1>3 DEF Dash!Init, SwitchInv
<1>5. QED
  BY <1>2, <1>4

LEMMA EmitType ==
    ASSUME wire \in Seq(BOOLEAN), lost \in BOOLEAN, NEW b \in BOOLEAN, Dash!Emit(b)
    PROVE  /\ wire' \in Seq(BOOLEAN) /\ lost' \in BOOLEAN
           /\ dashboardSock # "none" => wire' # <<>> /\ wire'[Len(wire')] = b /\ ~lost'
<1>1. CASE dashboardSock = "none"
  BY <1>1 DEF Dash!Emit
<1>2. CASE dashboardSock # "none"
  <2>1. wire' = Append(wire, b) /\ lost' = FALSE
    BY <1>2 DEF Dash!Emit
  <2>2. wire' \in Seq(BOOLEAN) /\ Len(wire') = Len(wire) + 1 /\ Len(wire) \in Nat
    BY <2>1
  <2>3. wire'[Len(wire) + 1] = b
    BY <2>1
  <2>4. wire' # <<>>
    BY <2>2
  <2>5. QED
    BY <2>1, <2>2, <2>3, <2>4
<1>3. QED
  BY <1>1, <1>2

(* A step that leaves the switch alone.                                    *)
LEMMA SwitchLeftAlone ==
    ASSUME DashboardShapes, SwitchInv, dashboard' \in DashboardPages,
           dashboard'.at = dashboard.at, dashboard'.online = dashboard.online,
           \/ dashboardSock' = dashboardSock
           \/ dashboardSock # "none" /\ dashboardSock' # "none",
           UNCHANGED <<isAvailable, h, wire, late, lost, hasty>>
    PROVE  DashboardShapes' /\ SwitchInv'
<1>1. DashboardShapes'
  BY DEF DashboardShapes
<1>2. Coming(dashboard.online) => Coming(dashboard.online)'
  BY DEF Coming
<1>3. QED
  BY <1>1, <1>2 DEF SwitchInv

(* A step whose switch is the last one emitted.                            *)
LEMMA SwitchEmitted ==
    ASSUME DashboardShapes, SwitchInv, dashboard' \in DashboardPages,
           UNCHANGED <<isAvailable, h, dashboardSock>>,
           Dash!Emit(dashboard'.online), dashboardSock # "none", dashboard'.at # "away",
           late' \in BOOLEAN, hasty' \in BOOLEAN, late' => hasty',
           dashboard'.at = "entering" /\ ~hasty' => dashboard'.online
    PROVE  DashboardShapes' /\ SwitchInv'
<1>1. dashboard'.online \in BOOLEAN
  BY DEF DashboardPages
<1>2. wire' \in Seq(BOOLEAN) /\ wire' # <<>> /\ wire'[Len(wire')] = dashboard'.online
  BY <1>1, EmitType DEF DashboardShapes
<1>3. DashboardShapes'
  BY <1>2 DEF DashboardShapes, Dash!Emit
<1>4. Coming(dashboard.online)'
  BY <1>2 DEF Coming
<1>5. QED
  BY <1>3, <1>4 DEF SwitchInv

LEMMA StepSwitch ==
    ASSUME ~Overlap, DashboardShapes, SwitchInv, [Dash!Next]_Dash!vars
    PROVE  DashboardShapes' /\ SwitchInv'
<1> /\ dashboard \in DashboardPages /\ wire \in Seq(BOOLEAN)
    /\ late \in BOOLEAN /\ lost \in BOOLEAN /\ hasty \in BOOLEAN
  BY DEF DashboardShapes
<1>1. CASE Dash!Open
  <2>1. dashboard' \in DashboardPages /\ dashboard'.at = "entering" /\ dashboard'.online
    BY <1>1, AwayPage DEF Dash!Open
  <2>2. dashboardSock' = "connecting" /\ UNCHANGED <<isAvailable, h, wire, late, lost, hasty>>
    BY <1>1 DEF Dash!Open
  <2>3. QED
    BY <2>1, <2>2 DEF DashboardShapes, SwitchInv
<1>2. CASE Dash!Entered
  <2>1. dashboard' \in DashboardPages /\ dashboard'.at = "open" /\ dashboard'.online = dashboard.online
    <3>1. dashboard' = [dashboard EXCEPT !.at = "open", !.locating = TRUE]
      BY <1>2 DEF Dash!Entered
    <3>2. QED
      BY <3>1 DEF DashboardPages
  <2>2. /\ dashboard.at = "entering" /\ Dash!Emit(TRUE)
        /\ UNCHANGED <<isAvailable, h, dashboardSock, late, hasty>>
    BY <1>2 DEF Dash!Entered
  <2>3. CASE dashboard.online
    <3>1. dashboard'.online = TRUE
      BY <2>1, <2>3 DEF DashboardPages
    <3>2. QED
      BY <2>1, <2>2, <3>1, SwitchEmitted DEF SwitchInv
  <2>4. CASE ~dashboard.online
    <3>1. hasty /\ wire' \in Seq(BOOLEAN) /\ lost' \in BOOLEAN
      BY <2>2, <2>4, EmitType DEF SwitchInv
    <3>2. QED
      BY <2>1, <2>2, <3>1 DEF DashboardShapes, SwitchInv
  <2>5. QED
    BY <2>3, <2>4
<1>3. CASE Dash!ToggleOnline
  <2> DEFINE l == IF dashboard.online THEN Dash!Empty ELSE dashboard.list
             b == dashboard.locating \/ ~dashboard.online
             c == ~dashboard.online
  <2>1. l \in Lists /\ b \in BOOLEAN /\ c \in BOOLEAN
    BY EmptyList DEF DashboardPages
  <2>2. dashboard' = [dashboard EXCEPT !.online = c, !.list = l, !.locating = b]
    BY <1>3 DEF Dash!ToggleOnline
  <2> HIDE DEF l, b
  <2>3. dashboard' \in DashboardPages /\ dashboard'.at = dashboard.at /\ dashboard'.online = c
    BY <2>1, <2>2 DEF DashboardPages
  <2>4. /\ dashboard.at # "away" /\ Dash!Emit(c) /\ hasty' = (dashboard.at = "entering" \/ late)
        /\ UNCHANGED <<isAvailable, h, dashboardSock, late>>
    BY <1>3 DEF Dash!ToggleOnline
  <2>5. dashboardSock # "none"
    BY <2>4 DEF SwitchInv
  <2>6. Dash!Emit(dashboard'.online)
    BY <2>3, <2>4
  <2> HIDE DEF c
  <2>7. late' => hasty'
    BY <2>4
  <2>8. ~(dashboard'.at = "entering" /\ ~hasty')
    BY <2>3, <2>4
  <2>9. QED
    BY <2>3, <2>4, <2>5, <2>6, <2>7, <2>8, SwitchEmitted
<1>4. CASE Dash!Located \/ Dash!Denied \/ Dash!Poll
  <2>1. /\ dashboard' \in DashboardPages
        /\ dashboard'.at = dashboard.at /\ dashboard'.online = dashboard.online
    <3>1. dashboard' = [dashboard EXCEPT !.locating = FALSE] \/ dashboard' = dashboard
      BY <1>4 DEF Dash!Located, Dash!Denied, Dash!Poll
    <3>2. QED
      BY <3>1, EmptyList, PageKept
  <2>2. UNCHANGED <<isAvailable, h, wire, dashboardSock, late, lost, hasty>>
    BY <1>4 DEF Dash!Located, Dash!Denied, Dash!Poll
  <2>3. QED
    BY <2>1, <2>2, SwitchLeftAlone
<1>5. CASE Dash!Leave
  <2>1. dashboard' \in DashboardPages /\ dashboard'.at = "away" /\ dashboardSock' = "none"
    BY <1>5, AwayPage DEF Dash!Leave
  <2>2. /\ wire' = IF dashboardSock = "connected" THEN wire ELSE <<>>
        /\ late' = (late \/ dashboard.at = "entering")
        /\ hasty' = (hasty \/ dashboard.at = "entering")
        /\ UNCHANGED h
    BY <1>5 DEF Dash!Leave
  <2>3. wire' \in Seq(BOOLEAN)
    <3>1. <<>> \in Seq(BOOLEAN)
      OBVIOUS
    <3>2. QED
      BY <2>2, <3>1
  <2>4. late' \in BOOLEAN /\ hasty' \in BOOLEAN /\ lost' \in BOOLEAN
    BY <1>5 DEF Dash!Leave, DashboardShapes
  <2>5. QED
    BY <2>1, <2>2, <2>3, <2>4 DEF DashboardShapes, SwitchInv
<1>6. CASE Dash!LateEntered
  <2>1. /\ late /\ late' = FALSE /\ Dash!Emit(TRUE)
        /\ UNCHANGED <<isAvailable, h, dashboard, dashboardSock, hasty>>
    BY <1>6 DEF Dash!LateEntered
  <2>2. wire' \in Seq(BOOLEAN) /\ lost' \in BOOLEAN
    BY <2>1, EmitType
  <2>3. QED
    BY <2>1, <2>2 DEF DashboardShapes, SwitchInv
<1>7. ASSUME NEW i \in 1 .. MaxLoads,
              Dash!NearbyShown(i) \/ Dash!ServeNearby(i) \/ Dash!NearbyFails(i)
      PROVE  DashboardShapes' /\ SwitchInv'
  <2> DEFINE l == [j \in Dash!Jobs |-> IF j \in loads[i].found THEN 1 ELSE 0]
  <2>1. l \in Lists
    BY DEF Lists
  <2>2. /\ dashboard' \in DashboardPages
        /\ dashboard'.at = dashboard.at /\ dashboard'.online = dashboard.online
    <3>1. dashboard' = [dashboard EXCEPT !.list = l] \/ dashboard' = dashboard
      BY <1>7 DEF Dash!NearbyShown, Dash!ServeNearby, Dash!NearbyFails
    <3> HIDE DEF l
    <3>2. QED
      BY <2>1, <3>1, PageKept
  <2>3. UNCHANGED <<isAvailable, h, wire, dashboardSock, late, lost, hasty>>
    BY <1>7 DEF Dash!NearbyShown, Dash!ServeNearby, Dash!NearbyFails
  <2>4. QED
    BY <2>2, <2>3, SwitchLeftAlone
<1>8. CASE Dash!NewsArrives
  <2> DEFINE l == [dashboard.list EXCEPT ![Head(broadcasts)] = @ + 1]
  <2>1. l \in Lists
    <3>1. dashboard.list \in Lists
      BY DEF DashboardPages
    <3>2. CASE Head(broadcasts) \in Dash!Jobs
      BY <3>1, <3>2 DEF Lists
    <3>3. CASE Head(broadcasts) \notin Dash!Jobs
      BY <3>1, <3>3 DEF Lists
    <3>4. QED
      BY <3>2, <3>3
  <2>2. dashboard' = [dashboard EXCEPT !.list = l] \/ dashboard' = dashboard
    BY <1>8 DEF Dash!NewsArrives
  <2> HIDE DEF l
  <2>3. /\ dashboard' \in DashboardPages
        /\ dashboard'.at = dashboard.at /\ dashboard'.online = dashboard.online
    BY <2>1, <2>2, PageKept
  <2>4. UNCHANGED <<isAvailable, h, wire, dashboardSock, late, lost, hasty>>
    BY <1>8 DEF Dash!NewsArrives
  <2>5. QED
    BY <2>3, <2>4, SwitchLeftAlone
<1>9. CASE Dash!Connect
  BY <1>9, SwitchLeftAlone DEF Dash!Connect
<1>10. CASE Dash!Drop
  <2>1. /\ dashboardSock = "connected" /\ dashboardSock' = "connecting" /\ wire' = <<>>
        /\ lost' = (lost \/ wire # <<>>)
        /\ UNCHANGED <<isAvailable, h, dashboard, late, hasty>>
    BY <1>10 DEF Dash!Drop
  <2>2. CASE wire = <<>>
    <3>1. lost' = lost /\ wire' = wire
      BY <2>1, <2>2
    <3>2. QED
      BY <2>1, <3>1, SwitchLeftAlone
  <2>3. CASE wire # <<>>
    <3>1. lost' = TRUE
      BY <2>1, <2>3
    <3>2. wire' \in Seq(BOOLEAN)
      <4>1. <<>> \in Seq(BOOLEAN)
        OBVIOUS
      <4>2. QED
        BY <2>1, <4>1
    <3>3. QED
      BY <2>1, <3>1, <3>2 DEF DashboardShapes, SwitchInv
  <2>4. QED
    BY <2>2, <2>3
<1>11. ASSUME NEW j \in Dash!Jobs,
              Dash!Accept(j) \/ Dash!Accepted(j) \/ Dash!Create(j) \/ Dash!Gone(j)
              \/ Dash!ServeAccept(j)
       PROVE  DashboardShapes' /\ SwitchInv'
  <2> DEFINE l == [dashboard.list EXCEPT ![j] = 0]
  <2>1. l \in Lists
    BY DEF DashboardPages, Lists
  <2>2. dashboard' = [dashboard EXCEPT !.list = l] \/ dashboard' = dashboard
    BY <1>11 DEF Dash!Accept, Dash!Accepted, Dash!Create, Dash!Gone, Dash!ServeAccept
  <2> HIDE DEF l
  <2>3. /\ dashboard' \in DashboardPages
        /\ dashboard'.at = dashboard.at /\ dashboard'.online = dashboard.online
    BY <2>1, <2>2, PageKept
  <2>4. UNCHANGED <<isAvailable, h, wire, dashboardSock, late, lost, hasty>>
    BY <1>11 DEF Dash!Accept, Dash!Accepted, Dash!Create, Dash!Gone, Dash!ServeAccept
  <2>5. QED
    BY <2>3, <2>4, SwitchLeftAlone
<1>12. ASSUME NEW p \in Handlers, Dash!StartToggle(p)
       PROVE  DashboardShapes' /\ SwitchInv'
  <2>1. /\ wire # <<>> /\ wire' = Tail(wire)
        /\ h' = [h EXCEPT ![p] = {Head(wire)}] /\ \A q \in Handlers : h[q] = {}
        /\ UNCHANGED <<isAvailable, dashboard, dashboardSock, late, lost, hasty>>
    BY <1>12 DEF Dash!StartToggle
  <2>2. /\ Head(wire) = wire[1] /\ wire[1] \in BOOLEAN /\ Len(wire) \in Nat \ {0}
        /\ wire' \in Seq(BOOLEAN)
        /\ Len(wire') = Len(wire) - 1
        /\ \A k \in 1 .. Len(wire) - 1 : wire'[k] = wire[k + 1]
    BY <2>1
  <2>3. /\ wire' = <<>> => Len(wire) = 1
        /\ wire' # <<>> => wire'[Len(wire')] = wire[Len(wire)]
    <3>1. wire' = <<>> <=> Len(wire') = 0
      BY <2>2
    <3>2. QED
      BY <2>2, <3>1
  <2>4. /\ h' \in [Handlers -> {{}} \cup {{b} : b \in BOOLEAN}]
        /\ h'[p] = {wire[1]} /\ \A q \in Handlers \ {p} : h'[q] = {}
    BY <2>1, <2>2 DEF DashboardShapes
  <2>5. ASSUME dashboard.at = "open", ~lost, ~hasty
        PROVE  Coming(dashboard.online)'
    <3>1. wire[Len(wire)] = dashboard.online
      BY <2>1, <2>5 DEF SwitchInv, Coming
    <3>2. QED
      BY <2>1, <2>2, <2>3, <2>4, <3>1 DEF Coming
  <2>6. QED
    BY <2>1, <2>2, <2>4, <2>5 DEF DashboardShapes, SwitchInv
<1>13. ASSUME NEW p \in Handlers, Dash!UpdateAvailability(p)
       PROVE  DashboardShapes' /\ SwitchInv'
  <2>1. /\ h[p] # {} /\ isAvailable' \in h[p] /\ h' = [h EXCEPT ![p] = {}]
        /\ UNCHANGED <<dashboard, dashboardSock, wire, late, lost, hasty>>
    BY <1>13 DEF Dash!UpdateAvailability
  <2>2. /\ h' \in [Handlers -> {{}} \cup {{b} : b \in BOOLEAN}]
        /\ h'[p] = {} /\ \A q \in Handlers \ {p} : h'[q] = h[q]
    BY <2>1 DEF DashboardShapes
  <2>3. Coming(dashboard.online) => Coming(dashboard.online)'
    BY <2>1, <2>2 DEF Coming
  <2>4. QED
    BY <2>1, <2>2, <2>3 DEF DashboardShapes, SwitchInv
<1>14. ASSUME NEW p \in Handlers, Dash!ToggleFails(p)
       PROVE  DashboardShapes' /\ SwitchInv'
  <2>1. /\ h' = [h EXCEPT ![p] = {}] /\ lost'
        /\ UNCHANGED <<dashboard, dashboardSock, wire, late, hasty>>
    BY <1>14 DEF Dash!ToggleFails
  <2>2. /\ h' \in [Handlers -> {{}} \cup {{b} : b \in BOOLEAN}]
        /\ h'[p] = {} /\ \A q \in Handlers \ {p} : h'[q] = h[q]
    BY <2>1 DEF DashboardShapes
  <2>3. QED
    BY <2>1, <2>2 DEF DashboardShapes, SwitchInv
<1>15. CASE UNCHANGED Dash!vars
  BY <1>15, SwitchLeftAlone DEF Dash!vars
<1>16. QED
  BY <1>1, <1>2, <1>3, <1>4, <1>5, <1>6, <1>7, <1>8, <1>9, <1>10, <1>11, <1>12, <1>13,
     <1>14, <1>15
     DEF Dash!Next

(* AvailabilityAgrees, when the server works on one switch of the rider at *)
(* a time: the page and the row agree once all switches got there, however *)
(* often the rider switched, left or was disconnected.  The gateway's      *)
(* handlers and the page's ngOnInit, toggleOnline and ngOnDestroy.         *)
THEOREM AvailabilityAlwaysAgrees ==
    ASSUME ~Overlap
    PROVE  AppSpec => []AvailabilityAgrees
<1>1. AppInit => DashboardShapes /\ SwitchInv
  BY InitSwitch DEF AppInit
<1>2. DashboardShapes /\ SwitchInv /\ [AppNext]_appVars => DashboardShapes' /\ SwitchInv'
  <2>1. [AppNext]_appVars => [Dash!Next]_Dash!vars
    BY DEF AppNext, OnDashboard, OnActive, appVars, dashboardVars,
           Dash!vars
  <2>2. QED
    BY <2>1, StepSwitch
<1>3. DashboardShapes /\ SwitchInv => AvailabilityAgrees
  BY DEF DashboardShapes, SwitchInv, Coming, AvailabilityAgrees,
         Dash!AvailabilityAgrees
<1>4. QED
  BY <1>1, <1>2, <1>3, PTL DEF AppSpec

-----------------------------------------------------------------------------
(* The page of active trips                                                *)

(* What ngOnDestroy leaves of the requests and of the uploads: no more     *)
(* than there were, and at most one when at most one stays.                *)
LEMMA LeftFacts ==
    ASSUME NEW S, NEW s \in Seq(S), NEW T, NEW E,
           \A x \in S : x \in T => [x EXCEPT !.mine = FALSE] \in E
    PROVE  /\ Active!Left(s, T) \in Seq(E) /\ Len(Active!Left(s, T)) <= Len(s)
           /\ (\A i, j \in DOMAIN s : s[i] \in T /\ s[j] \in T => i = j) => Len(Active!Left(s, T)) <= 1
<1> DEFINE e(i) == [s[i] EXCEPT !.mine = FALSE]
           Next1(f, i) == IF i = 0 THEN <<>>
                         ELSE IF s[i] \in T THEN Append(f[i - 1], e(i)) ELSE f[i - 1]
           IsKept(f, n) == f = [i \in 0 .. n |-> Next1(f, i)]
           Found(n) == \E f : IsKept(f, n)
<1>0. Len(s) \in Nat /\ DOMAIN s = 1 .. Len(s) /\ \A i \in 1 .. Len(s) : s[i] \in S
  OBVIOUS
<1>1. Found(0)
  <2> DEFINE f == [i \in 0 .. 0 |-> <<>>]
  <2>1. IsKept(f, 0)
    OBVIOUS
  <2>2. QED
    BY <2>1
<1>2. ASSUME NEW n \in Nat, Found(n)
      PROVE  Found(n + 1)
  <2>1. PICK f : IsKept(f, n)
    BY <1>2
  <2> DEFINE g == [i \in 0 .. n + 1 |-> IF i = n + 1 THEN Next1(f, n + 1) ELSE f[i]]
  <2>2. \A i \in 0 .. n : f[i] = Next1(f, i)
    BY <2>1
  <2>3. \A i \in 0 .. n : g[i] = f[i]
    OBVIOUS
  <2>4. \A i \in 0 .. n + 1 : g[i] = Next1(g, i)
    <3> TAKE i \in 0 .. n + 1
    <3>1. CASE i = 0
      <4>1. 0 \in 0 .. n /\ Next1(f, 0) = Next1(g, 0)
        OBVIOUS
      <4>2. g[0] = f[0] /\ f[0] = Next1(f, 0)
        BY <2>2, <2>3, <4>1
      <4>3. QED
        BY <3>1, <4>1, <4>2
    <3>2. CASE i # 0
      <4>1. i - 1 \in 0 .. n
        BY <3>2
      <4>2. g[i - 1] = f[i - 1]
        BY <2>3, <4>1
      <4>3. g[i] = Next1(f, i)
        <5>1. CASE i = n + 1
          BY <5>1
        <5>2. CASE i # n + 1
          <6>1. i \in 0 .. n
            BY <5>2
          <6>2. QED
            BY <2>2, <2>3, <6>1
        <5>3. QED
          BY <5>1, <5>2
      <4>4. QED
        BY <3>2, <4>2, <4>3
    <3>3. QED
      BY <3>1, <3>2
  <2>5. g = [i \in 0 .. n + 1 |-> g[i]]
    OBVIOUS
  <2> HIDE DEF g, Next1
  <2>6. IsKept(g, n + 1)
    BY <2>4, <2>5
  <2>7. QED
    BY <2>6
<1>3. \A n \in Nat : Found(n)
  <2> HIDE DEF Found
  <2> SUFFICES ASSUME NEW m \in Nat, ~Found(m) PROVE FALSE
    OBVIOUS
  <2>1. PICK l \in {n \in Nat : ~Found(n)} : \A n \in {n \in Nat : ~Found(n)} : l <= n
    BY LeastNatural
  <2>2. l # 0 /\ l - 1 \in Nat
    BY <1>1, <2>1
  <2>3. Found(l - 1)
    BY <2>1, <2>2
  <2>4. Found(l - 1 + 1)
    BY <1>2, <2>2, <2>3
  <2>5. l - 1 + 1 = l
    BY <2>2
  <2>6. QED
    BY <2>1, <2>4, <2>5
<1>4. PICK f : IsKept(f, Len(s)) /\ Active!Left(s, T) = f[Len(s)]
  <2> DEFINE f == CHOOSE f : IsKept(f, Len(s))
  <2>1. IsKept(f, Len(s))
    BY <1>0, <1>3
  <2>2. Active!Left(s, T) = f[Len(s)]
    BY DEF Active!Left
  <2> HIDE DEF f
  <2>3. QED
    BY <2>1, <2>2
<1>5. \A i \in 0 .. Len(s) : f[i] = Next1(f, i)
  BY <1>4
<1> DEFINE Some(n) == \E i \in 1 .. n : s[i] \in T
           Single == \A i, j \in DOMAIN s : s[i] \in T /\ s[j] \in T => i = j
           Good(n) == /\ f[n] \in Seq(E) /\ Len(f[n]) <= n
                      /\ ~Some(n) => Len(f[n]) = 0
                      /\ Single => Len(f[n]) <= 1
<1>6. Good(0)
  <2>1. f[0] = <<>>
    <3>1. 0 \in 0 .. Len(s)
      BY <1>0
    <3>2. f[0] = Next1(f, 0)
      BY <1>5, <3>1
    <3>3. QED
      BY <3>2
  <2>2. <<>> \in Seq(E) /\ Len(<<>>) = 0
    OBVIOUS
  <2>3. QED
    BY <2>1, <2>2
<1>7. ASSUME NEW n \in 0 .. Len(s) - 1, Good(n)
      PROVE  Good(n + 1)
  <2>1. /\ n + 1 \in 1 .. Len(s) /\ n + 1 # 0 /\ n + 1 - 1 = n /\ n \in Nat
        /\ f[n] \in Seq(E) /\ Len(f[n]) \in Nat /\ Len(f[n]) <= n
    BY <1>0, <1>7
  <2>2. f[n + 1] = Next1(f, n + 1)
    BY <1>0, <1>5, <2>1
  <2>3. CASE s[n + 1] \in T
    <3>1. e(n + 1) \in E
      BY <1>0, <2>1, <2>3
    <3>2. f[n + 1] = Append(f[n], e(n + 1))
      BY <2>1, <2>2, <2>3
    <3> HIDE DEF e
    <3>3. f[n + 1] \in Seq(E) /\ Len(f[n + 1]) = Len(f[n]) + 1
      BY <2>1, <3>1, <3>2
    <3>4. Some(n + 1)
      BY <2>1, <2>3
    <3>5. Single => ~Some(n)
      BY <1>0, <2>1, <2>3
    <3>6. QED
      BY <1>7, <2>1, <3>3, <3>4, <3>5
  <2>4. CASE s[n + 1] \notin T
    <3>1. f[n + 1] = f[n]
      BY <2>1, <2>2, <2>4
    <3>2. Some(n) => Some(n + 1)
      BY <2>1
    <3>3. QED
      BY <1>7, <2>1, <3>1, <3>2
  <2>5. QED
    BY <2>3, <2>4
<1>8. \A n \in 0 .. Len(s) : Good(n)
  <2> HIDE DEF Good
  <2> SUFFICES ASSUME NEW m \in 0 .. Len(s), ~Good(m) PROVE FALSE
    OBVIOUS
  <2> DEFINE Bad == {n \in 0 .. Len(s) : ~Good(n)}
  <2>0. Bad \subseteq Nat /\ Bad # {}
    OBVIOUS
  <2>1. PICK l \in Bad : \A n \in Bad : l <= n
    BY <2>0, LeastNatural
  <2>2. l # 0 /\ l - 1 \in 0 .. Len(s) - 1 /\ l - 1 \in 0 .. Len(s) /\ l - 1 + 1 = l
    BY <1>0, <1>6, <2>1
  <2>3. Good(l - 1)
    BY <1>0, <2>1, <2>2
  <2>4. QED
    BY <1>7, <2>1, <2>2, <2>3
<1>9. Good(Len(s))
  BY <1>0, <1>8
<1>10. QED
  BY <1>4, <1>9

-----------------------------------------------------------------------------
(* A parcel is held from its pick-up to its delivery.                      *)
Held == {"PICKED_UP", "IN_TRANSIT"}
Before == [PICKED_UP |-> "ACCEPTED", IN_TRANSIT |-> "PICKED_UP", DELIVERED |-> "IN_TRANSIT"]

CardsOf(kind) == [id : kind \cup {NoTrip}, st : Active!Statuses, paid : BOOLEAN]

ActivePages == [at : {"away", "entering", "open"}, loaded : BOOLEAN, loading : BOOLEAN,
                updating : BOOLEAN, proofUploaded : BOOLEAN,
                ride : CardsOf(TripRides), parcel : CardsOf(TripParcels)]

ActiveRequests == [for : {"refresh", "silent", "advance"}, at : {"sent", "ok", "error"},
                   mine : BOOLEAN, id : Active!Trips \cup {NoTrip}, to : Active!Statuses,
                   ride : CardsOf(TripRides), parcel : CardsOf(TripParcels)]

(* A request that takes the parcel forward.                                *)
Takes(r) == r.for = "advance" /\ r.id \in TripParcels

ActiveShapes ==
    /\ trip \in [Active!Trips -> Active!Rows]
    /\ page \in ActivePages
    /\ reqs \in Seq(ActiveRequests)
    /\ uploads \in Seq(Active!Uploads)
    /\ \A i \in DOMAIN reqs : /\ reqs[i].for = "advance" => reqs[i].id \in Active!Trips
                              /\ Takes(reqs[i]) => reqs[i].to \in DOMAIN Before

(* The rider has one parcel under way at most.                             *)
OneActive ==
    \A t, u \in TripParcels : {trip[t].st, trip[u].st} \subseteq Active!Underway => t = u

(* The server works the queue off from its head; one button press at most  *)
(* is in flight, and the page that pressed it waits, unless it was left:   *)
(* then its request is the first.                                          *)
InOrder ==
    /\ \A i, j \in DOMAIN reqs : i < j /\ reqs[i].at = "sent" => reqs[j].at = "sent"
    /\ \A i, j \in DOMAIN reqs : reqs[i].for = "advance" /\ reqs[j].for = "advance" => i = j
    /\ \A i \in DOMAIN reqs :
          IF reqs[i].mine
          THEN reqs[i].for = "advance" => page.updating
          ELSE i = 1 /\ reqs[i].at = "sent" /\ reqs[i].for = "advance" /\ ~page.loaded

(* A page that has loaded nothing yet shows nothing and does nothing.      *)
LoadedFirst ==
    \/ page.loaded /\ page.at # "away"
    \/ /\ ~page.loaded /\ ~page.updating /\ ~page.proofUploaded
       /\ page.ride.id = NoTrip /\ page.parcel.id = NoTrip

IsHeld(c) == c.id \in TripParcels /\ c.st \in Held

(* A card that tells the truth of which parcel is held, and how far it is. *)
Agrees(c, rows) == \A t \in TripParcels, s \in Held : rows[t].st = s <=> c.id = t /\ c.st = s

(* A card as it must look before the answer r to a new status is used.     *)
Fits(c, r) == IF Before[r.to] \in Held THEN c.id = r.id /\ c.st = Before[r.to] ELSE ~IsHeld(c)

IsView(r) == r.at = "ok" /\ (r.for # "advance" \/ r.id \in TripParcels)
(* The parcel card that the page has once it used r.                       *)
Shown(r) == IF r.for # "advance" THEN r.parcel
            ELSE IF r.to \in Active!Ended THEN Active!NoCard
            ELSE [id |-> r.id, st |-> r.to, paid |-> FALSE]

Moved(r) == r.at = "ok" /\ Takes(r)

(* The card c, shown when the first i of the replies q are used, is up to  *)
(* date unless an answer to a new status comes later: then it is what that *)
(* answer goes on from.                                                    *)
View(c, i, q, rows) ==
    /\ (\A k \in DOMAIN q : k > i => ~Moved(q[k])) => Agrees(c, rows)
    /\ \A k \in DOMAIN q : k > i /\ Moved(q[k]) => Fits(c, q[k])

(* The page, and what each reply will have it show, is such a view.        *)
InSync ==
    /\ page.loaded => View(page.parcel, 0, reqs, trip)
    /\ \A i \in DOMAIN reqs : IsView(reqs[i]) => View(Shown(reqs[i]), i, reqs, trip)

(* A delivery that was asked for has its proof on the row, whatever        *)
(* happened to the page since; until the answer is used the card keeps     *)
(* still, and no upload can end.                                           *)
UnderWay ==
    \A i \in DOMAIN reqs : Takes(reqs[i]) =>
        /\ reqs[i].to = "DELIVERED" => trip[reqs[i].id].proof
        /\ reqs[i].mine =>
              /\ Fits(page.parcel, reqs[i])
              /\ page.proofUploaded <=> reqs[i].to = "DELIVERED"
              /\ \A k \in DOMAIN uploads : ~uploads[k].mine

(* proofUploaded is about the parcel that is shown.                        *)
FlagIsRight ==
    page.proofUploaded => \/ page.parcel.id = NoTrip
                          \/ page.parcel.st = "IN_TRANSIT" /\ trip[page.parcel.id].proof

(* An upload in flight is of the parcel that is shown, and the only one.   *)
UploadsAreRight ==
    /\ \A k \in DOMAIN uploads : uploads[k].mine =>
          /\ page.parcel.id = uploads[k].id /\ page.parcel.st = "IN_TRANSIT"
          /\ ~page.proofUploaded
          /\ uploads[k].at = "ok" => trip[uploads[k].id].proof
    /\ \A k, l \in DOMAIN uploads : uploads[k].mine /\ uploads[l].mine => k = l

(* The inductive invariant.                                                *)
ProofInv ==
    /\ OneActive /\ InOrder /\ LoadedFirst /\ InSync /\ UnderWay /\ FlagIsRight /\ UploadsAreRight
    /\ Active!ProofBeforeDelivery

-----------------------------------------------------------------------------
(* A request or an upload whose reply has come is taken out.               *)
LEMMA ActiveRemoved ==
    ASSUME NEW S, NEW s \in Seq(S), NEW i \in DOMAIN s, NEW z, z = Active!RemoveAt(s, i)
    PROVE  /\ z \in Seq(S) /\ DOMAIN z = 1 .. Len(s) - 1
           /\ \A k \in DOMAIN z : /\ k \in DOMAIN s /\ k + 1 \in DOMAIN s
                                  /\ z[k] = IF k < i THEN s[k] ELSE s[k + 1]
<1>1. z = Cut(s, i)
  BY DEF Cut, Active!RemoveAt
<1>2. QED
  BY <1>1, WithoutOne

LEMMA NoCards ==
    /\ Active!NoCard \in CardsOf(TripRides) /\ Active!NoCard \in CardsOf(TripParcels)
    /\ Active!NoCard.id = NoTrip
  BY DEF Active!NoCard, CardsOf, Active!Statuses

LEMMA RequestShape ==
    ASSUME NEW for \in {"refresh", "silent", "advance"},
           NEW t \in Active!Trips \cup {NoTrip},
           NEW st \in Active!Statuses
    PROVE  /\ Active!Request(for, t, st) \in ActiveRequests
           /\ Active!Request(for, t, st).for = for /\ Active!Request(for, t, st).at = "sent"
           /\ Active!Request(for, t, st).mine /\ Active!Request(for, t, st).id = t
           /\ Active!Request(for, t, st).to = st
  BY NoCards DEF Active!Request, ActiveRequests

IsBlank(p) ==
    /\ p \in ActivePages /\ p.loaded = FALSE /\ p.updating = FALSE /\ p.proofUploaded = FALSE
    /\ p.ride.id = NoTrip /\ p.parcel.id = NoTrip

LEMMA AwayShape ==
    /\ IsBlank(Active!Away) /\ Active!Away.at = "away"
    /\ IsBlank([Active!Away EXCEPT !.at = "entering", !.loading = TRUE])
<1>1. IsBlank(Active!Away) /\ Active!Away.at = "away"
  BY NoCards DEF Active!Away, ActivePages, IsBlank
<1>2. IsBlank([Active!Away EXCEPT !.at = "entering", !.loading = TRUE])
  BY <1>1 DEF ActivePages, IsBlank
<1>3. QED
  BY <1>1, <1>2

(* A request that was answered, or used, without more.                     *)
LEMMA AnswerShape ==
    ASSUME NEW r \in ActiveRequests, NEW how \in {"ok", "error"}
    PROVE  LET x == [r EXCEPT !.at = how] IN
           /\ x \in ActiveRequests /\ x.at = how
           /\ x.for = r.for /\ x.mine = r.mine /\ x.id = r.id /\ x.to = r.to
           /\ x.ride = r.ride /\ x.parcel = r.parcel
           /\ Takes(x) <=> Takes(r)
  BY DEF ActiveRequests, Takes

LEMMA UploadShape ==
    ASSUME NEW u \in Active!Uploads, NEW how \in {"ok", "error"}
    PROVE  LET x == [u EXCEPT !.at = how] IN
           x \in Active!Uploads /\ x.at = how /\ x.id = u.id /\ x.mine = u.mine
  BY DEF Active!Uploads

(* The first request that is not its page's is the only one of its kind.   *)
LEMMA Unserved ==
    ASSUME ActiveShapes, InOrder, NEW i \in DOMAIN reqs, ~reqs[i].mine
    PROVE  i = 1 /\ ~page.loaded /\ \A k \in DOMAIN reqs : reqs[k].at = "sent"
<1>1. i = 1 /\ reqs[1].at = "sent" /\ ~page.loaded
  BY DEF InOrder
<1>2. ASSUME NEW k \in DOMAIN reqs PROVE reqs[k].at = "sent"
  <2>1. k = 1 \/ 1 < k
    BY PlacesOf DEF ActiveShapes
  <2>2. QED
    BY <1>1, <2>1 DEF InOrder
<1>3. QED
  BY <1>1, <1>2

(* Where nobody answered a request that moves a parcel, two views of the   *)
(* parcels agree.                                                          *)
LEMMA SameFits ==
    ASSUME NEW c, NEW d, NEW rows, Agrees(c, rows), Agrees(d, rows), NEW r, Takes(r),
           Fits(c, r)
    PROVE  Fits(d, r)
  BY DEF Agrees, Fits, IsHeld, Takes

LEMMA AlikeHeld ==
    ASSUME NEW c, NEW d, NEW rows, Agrees(c, rows), Agrees(d, rows), IsHeld(d)
    PROVE  IsHeld(c) /\ c.id = d.id /\ c.st = d.st
  BY DEF Agrees, IsHeld

-----------------------------------------------------------------------------
(* The views in z are those in q from position d + 1 on.                   *)
Shifted(q, z, d) ==
    /\ \A i \in DOMAIN z : IsView(z[i]) => i + d \in DOMAIN q /\ z[i] = q[i + d]
    /\ \A k \in DOMAIN q : k > d /\ Moved(q[k]) => k - d \in DOMAIN z /\ z[k - d] = q[k]

(* The same parcels are held, and as far.                                  *)
HeldKept(rows, after) == \A t \in TripParcels, s \in Held : after[t].st = s <=> rows[t].st = s

LEMMA ViewShifted ==
    ASSUME NEW q \in Seq(ActiveRequests), NEW z \in Seq(ActiveRequests), NEW d \in {0, 1},
           NEW rows, NEW after, Shifted(q, z, d), HeldKept(rows, after),
           NEW c, NEW i \in Nat, View(c, i + d, q, rows)
    PROVE  View(c, i, z, after)
<1>0. DOMAIN q \subseteq Nat /\ DOMAIN z \subseteq Nat
  BY PlacesOf
<1>1. Agrees(c, rows) => Agrees(c, after)
  BY DEF Agrees, HeldKept
<1>2. ASSUME \A k \in DOMAIN z : k > i => ~Moved(z[k])
      PROVE  Agrees(c, after)
  <2>1. ASSUME NEW k \in DOMAIN q, k > i + d, Moved(q[k])
        PROVE  FALSE
    <3>1. k \in Nat /\ k > d /\ k - d > i
      BY <1>0, <2>1
    <3>2. k - d \in DOMAIN z /\ z[k - d] = q[k]
      BY <2>1, <3>1 DEF Shifted
    <3>3. QED
      BY <1>2, <2>1, <3>1, <3>2
  <2>2. QED
    BY <1>1, <2>1 DEF View
<1>3. ASSUME NEW k \in DOMAIN z, k > i, Moved(z[k])
      PROVE  Fits(c, z[k])
  <2>1. k + d \in DOMAIN q /\ z[k] = q[k + d]
    BY <1>3 DEF Shifted, Moved, IsView, Takes
  <2>2. k + d > i + d
    BY <1>0, <1>3
  <2>3. QED
    BY <1>3, <2>1, <2>2 DEF View
<1>4. QED
  BY <1>2, <1>3 DEF View

(* A step after which the answers in flight, and the page's parcel, are    *)
(* views as they were before.                                              *)
LEMMA SyncKept ==
    ASSUME ActiveShapes, ActiveShapes', InSync, NEW d \in {0, 1}, Shifted(reqs, reqs', d),
           HeldKept(trip, trip'), page'.loaded => View(page'.parcel, d, reqs, trip)
    PROVE  InSync'
<1>0. reqs \in Seq(ActiveRequests) /\ reqs' \in Seq(ActiveRequests) /\ 0 + d = d
  BY DEF ActiveShapes
<1>1. ASSUME page'.loaded PROVE View(page'.parcel, 0, reqs', trip')
  BY <1>0, <1>1, ViewShifted
<1>2. ASSUME NEW i \in DOMAIN reqs', IsView(reqs'[i])
      PROVE  View(Shown(reqs'[i]), i, reqs', trip')
  <2>1. i + d \in DOMAIN reqs /\ reqs'[i] = reqs[i + d] /\ i \in Nat
    BY <1>0, <1>2, PlacesOf DEF Shifted
  <2>2. View(Shown(reqs'[i]), i + d, reqs, trip)
    BY <1>2, <2>1 DEF InSync
  <2>3. QED
    BY <1>0, <2>1, <2>2, ViewShifted
<1>3. QED
  BY <1>1, <1>2 DEF InSync

(* The answer that is used next: what the page shows is a view without it. *)
LEMMA ViewDrops ==
    ASSUME ActiveShapes, NEW c, View(c, 0, reqs, trip), 1 \in DOMAIN reqs, ~Moved(reqs[1])
    PROVE  View(c, 1, reqs, trip)
<1>1. \A k \in DOMAIN reqs : k > 0 /\ (k > 1 \/ k = 1)
  BY PlacesOf DEF ActiveShapes
<1>2. QED
  BY <1>1 DEF View

(* No answer to a new status of a parcel is on its way.                    *)
Unmoved == \A k \in DOMAIN reqs : ~Moved(reqs[k])

LEMMA ReadAgrees ==
    ASSUME ActiveShapes, InSync, Unmoved
    PROVE  /\ page.loaded => Agrees(page.parcel, trip)
           /\ \A i \in DOMAIN reqs : IsView(reqs[i]) => Agrees(Shown(reqs[i]), trip)
  BY DEF Unmoved, InSync, View

-----------------------------------------------------------------------------
(* The order of the requests                                               *)

LEMMA OrderAsked ==
    ASSUME ActiveShapes, InOrder, NEW r \in ActiveRequests, r.at = "sent", r.mine,
           reqs' = Append(reqs, r), page.updating => page'.updating,
           page'.loaded = page.loaded,
           r.for = "advance" =>
               page'.updating /\ \A k \in DOMAIN reqs : reqs[k].for # "advance"
    PROVE  InOrder'
<1>1. /\ reqs' \in Seq(ActiveRequests) /\ Len(reqs') = Len(reqs) + 1 /\ reqs'[Len(reqs) + 1] = r
      /\ \A k \in DOMAIN reqs : reqs'[k] = reqs[k]
      /\ Len(reqs) \in Nat /\ DOMAIN reqs = 1 .. Len(reqs)
      /\ DOMAIN reqs' = 1 .. Len(reqs) + 1
  BY Appended, PlacesOf DEF ActiveShapes
<1>2. \A i, j \in DOMAIN reqs' : i < j /\ reqs'[i].at = "sent" => reqs'[j].at = "sent"
  BY <1>1 DEF InOrder
<1>3. \A i, j \in DOMAIN reqs' :
          reqs'[i].for = "advance" /\ reqs'[j].for = "advance" => i = j
  BY <1>1 DEF InOrder
<1>4. ASSUME NEW i \in DOMAIN reqs'
      PROVE  IF reqs'[i].mine
             THEN reqs'[i].for = "advance" => page'.updating
             ELSE i = 1 /\ reqs'[i].at = "sent" /\ reqs'[i].for = "advance" /\ ~page'.loaded
  BY <1>1 DEF InOrder
<1>5. QED
  BY <1>2, <1>3, <1>4 DEF InOrder

LEMMA OrderUsed ==
    ASSUME ActiveShapes, InOrder, 1 \in DOMAIN reqs, reqs' = Active!RemoveAt(reqs, 1),
           page.updating /\ reqs[1].for # "advance" => page'.updating
    PROVE  InOrder'
<1>1. /\ Len(reqs) \in Nat /\ DOMAIN reqs = 1 .. Len(reqs)
      /\ DOMAIN reqs' = 1 .. Len(reqs) - 1
      /\ \A k \in DOMAIN reqs' : k + 1 \in DOMAIN reqs /\ reqs'[k] = reqs[k + 1]
  <2>1. /\ DOMAIN reqs' = 1 .. Len(reqs) - 1 /\ Len(reqs) \in Nat /\ DOMAIN reqs = 1 .. Len(reqs)
        /\ \A k \in DOMAIN reqs' : k + 1 \in DOMAIN reqs
                 /\ reqs'[k] = IF k < 1 THEN reqs[k] ELSE reqs[k + 1]
    BY ActiveRemoved, PlacesOf DEF ActiveShapes
  <2>2. \A k \in DOMAIN reqs' : ~(k < 1)
    BY <2>1
  <2>3. QED
    BY <2>1, <2>2
<1>2. ASSUME NEW i \in DOMAIN reqs', NEW j \in DOMAIN reqs', i < j, reqs'[i].at = "sent"
      PROVE  reqs'[j].at = "sent"
  <2>1. i + 1 \in DOMAIN reqs /\ j + 1 \in DOMAIN reqs /\ i + 1 < j + 1
    BY <1>1, <1>2
  <2>2. reqs[i + 1].at = "sent"
    BY <1>1, <1>2
  <2>3. reqs[j + 1].at = "sent"
    BY <2>1, <2>2 DEF InOrder
  <2>4. QED
    BY <1>1, <2>3
<1>3. \A i, j \in DOMAIN reqs' :
          reqs'[i].for = "advance" /\ reqs'[j].for = "advance" => i = j
  BY <1>1 DEF InOrder
<1>4. ASSUME NEW i \in DOMAIN reqs'
      PROVE  reqs'[i].mine /\ (reqs'[i].for = "advance" => page'.updating)
  <2>1. i + 1 \in DOMAIN reqs /\ reqs'[i] = reqs[i + 1] /\ i + 1 # 1
    BY <1>1
  <2>2. reqs[i + 1].mine
    BY <2>1 DEF InOrder
  <2>3. reqs[i + 1].for = "advance" => page.updating /\ reqs[1].for # "advance"
    BY <1>1, <2>1, <2>2 DEF InOrder
  <2>4. QED
    BY <2>1, <2>2, <2>3
<1>5. QED
  BY <1>2, <1>3, <1>4 DEF InOrder

LEMMA OrderAnswered ==
    ASSUME ~Overtake, ActiveShapes, InOrder, NEW i \in DOMAIN reqs, Active!Arrived(i),
           NEW x \in ActiveRequests,
           reqs[i].mine, x.mine, x.for = reqs[i].for, x.at # "sent",
           reqs' = [reqs EXCEPT ![i] = x], page' = page
    PROVE  InOrder'
<1>1. /\ Len(reqs) \in Nat /\ DOMAIN reqs = 1 .. Len(reqs) /\ DOMAIN reqs' = DOMAIN reqs
      /\ reqs'[i] = x /\ \A k \in DOMAIN reqs : k # i => reqs'[k] = reqs[k]
  BY Written, PlacesOf DEF ActiveShapes
<1>2. ASSUME NEW j \in DOMAIN reqs', NEW k \in DOMAIN reqs', j < k, reqs'[j].at = "sent"
      PROVE  reqs'[k].at = "sent"
  <2>1. j # i /\ reqs[j].at = "sent"
    BY <1>1, <1>2
  <2>2. ~(j < i)
    BY <1>1, <2>1 DEF Active!Arrived
  <2>3. k # i
    BY <1>1, <1>2, <2>1, <2>2
  <2>4. QED
    BY <1>1, <1>2, <2>1, <2>3 DEF InOrder
<1>3. \A j, k \in DOMAIN reqs' :
          reqs'[j].for = "advance" /\ reqs'[k].for = "advance" => j = k
  BY <1>1 DEF InOrder
<1>4. ASSUME NEW k \in DOMAIN reqs'
      PROVE  IF reqs'[k].mine
             THEN reqs'[k].for = "advance" => page'.updating
             ELSE k = 1 /\ reqs'[k].at = "sent" /\ reqs'[k].for = "advance" /\ ~page'.loaded
  <2>1. CASE k = i
    BY <1>1, <2>1 DEF InOrder
  <2>2. CASE k # i
    BY <1>1, <2>2 DEF InOrder
  <2>3. QED
    BY <2>1, <2>2
<1>5. QED
  BY <1>2, <1>3, <1>4 DEF InOrder

-----------------------------------------------------------------------------
(* Steps that leave the parcel on the page and its flag as they are        *)

(* No proof is taken off a row.                                            *)
Proven == \A t \in TripParcels : trip[t].proof => trip'[t].proof

LEMMA ParcelKept ==
    ASSUME ActiveShapes, ProofInv, ActiveShapes', NEW d \in {0, 1},
           Shifted(reqs, reqs', d),
           d = 1 => 1 \in DOMAIN reqs /\ ~Moved(reqs[1]),
           page'.parcel = page.parcel, page'.proofUploaded = page.proofUploaded,
           page'.loaded => page.loaded,
           HeldKept(trip, trip'), Proven,
           OneActive', Active!ProofBeforeDelivery', InOrder', LoadedFirst', UploadsAreRight',
           \A i \in DOMAIN reqs' : Takes(reqs'[i]) =>
               \E j \in DOMAIN reqs : /\ Takes(reqs[j]) /\ reqs'[i].id = reqs[j].id
                                      /\ reqs'[i].to = reqs[j].to
                                      /\ reqs'[i].mine = reqs[j].mine,
           \A k \in DOMAIN uploads' : uploads'[k].mine =>
               \E l \in DOMAIN uploads : uploads[l].mine
    PROVE  ProofInv'
<1>1. InSync'
  <2>1. page'.loaded => View(page.parcel, 0, reqs, trip)
    BY DEF ProofInv, InSync
  <2>2. page'.loaded => View(page'.parcel, d, reqs, trip)
    BY <2>1, ViewDrops
  <2>3. QED
    BY <2>2, SyncKept DEF ProofInv
<1>2. UnderWay'
  <2> SUFFICES ASSUME NEW i \in DOMAIN reqs', Takes(reqs'[i])
               PROVE  /\ reqs'[i].to = "DELIVERED" => trip'[reqs'[i].id].proof
                      /\ reqs'[i].mine =>
                            /\ Fits(page'.parcel, reqs'[i])
                            /\ page'.proofUploaded <=> reqs'[i].to = "DELIVERED"
                            /\ \A k \in DOMAIN uploads' : ~uploads'[k].mine
    BY DEF UnderWay, Takes, Fits, IsHeld
  <2>1. PICK j \in DOMAIN reqs : /\ Takes(reqs[j]) /\ reqs'[i].id = reqs[j].id
                                 /\ reqs'[i].to = reqs[j].to
                                 /\ reqs'[i].mine = reqs[j].mine
    OBVIOUS
  <2>2. reqs[j].to = "DELIVERED" => trip'[reqs[j].id].proof
    BY <2>1 DEF ProofInv, UnderWay, Proven, Takes
  <2>3. reqs[j].mine => /\ Fits(page.parcel, reqs[j])
                        /\ page.proofUploaded <=> reqs[j].to = "DELIVERED"
                        /\ \A k \in DOMAIN uploads' : ~uploads'[k].mine
    BY <2>1 DEF ProofInv, UnderWay
  <2>4. Fits(page.parcel, reqs[j]) => Fits(page.parcel, reqs'[i])
    BY <2>1 DEF Fits
  <2>5. QED
    BY <2>1, <2>2, <2>3, <2>4
<1>3. FlagIsRight'
  <2>1. page.parcel.id \in TripParcels \cup {NoTrip}
    BY DEF ActiveShapes, ActivePages, CardsOf
  <2>2. QED
    BY <2>1 DEF ProofInv, FlagIsRight, Proven
<1>4. QED
  BY <1>1, <1>2, <1>3 DEF ProofInv

LEMMA RowsStay ==
    ASSUME ProofInv, trip' = trip
    PROVE  HeldKept(trip, trip') /\ Proven /\ OneActive' /\ Active!ProofBeforeDelivery'
  BY DEF ProofInv, HeldKept, Proven, OneActive, Active!ProofBeforeDelivery

LEMMA UploadsStay ==
    ASSUME ActiveShapes, ProofInv, page'.parcel = page.parcel,
           page'.proofUploaded = page.proofUploaded, Proven, uploads' = uploads
    PROVE  /\ UploadsAreRight'
           /\ \A k \in DOMAIN uploads' : uploads'[k].mine =>
                  \E l \in DOMAIN uploads : uploads[l].mine
<1>1. \A k \in DOMAIN uploads : uploads[k].id \in TripParcels
  <2>1. \A k \in DOMAIN uploads : uploads[k] \in Active!Uploads
    BY PlacesOf DEF ActiveShapes
  <2>2. QED
    BY <2>1 DEF Active!Uploads
<1>2. QED
  BY <1>1 DEF ProofInv, UploadsAreRight, Proven

(* Rows change, and neither the page nor anything in flight.               *)
LEMMA RowsOnly ==
    ASSUME ActiveShapes, ProofInv, UNCHANGED <<page, reqs, uploads>>,
           trip' \in [Active!Trips -> Active!Rows],
           HeldKept(trip, trip'), Proven, OneActive', Active!ProofBeforeDelivery'
    PROVE  ActiveShapes' /\ ProofInv'
<1>1. ActiveShapes'
  BY DEF ActiveShapes
<1>2. Shifted(reqs, reqs', 0)
  BY PlacesOf DEF Shifted, ActiveShapes
<1>3. InOrder' /\ LoadedFirst'
  BY DEF ProofInv, InOrder, LoadedFirst
<1>4. QED
  BY <1>1, <1>2, <1>3, UploadsStay, ParcelKept

(* The page asks for the active trips once more.                           *)
LEMMA ReadAsked ==
    ASSUME ActiveShapes, ProofInv, NEW for \in {"refresh", "silent"},
           Active!Ask(Active!Read(for)),
           page' \in ActivePages, page'.at = page.at, page'.parcel = page.parcel,
           page'.ride = page.ride, page'.proofUploaded = page.proofUploaded,
           page'.loaded = page.loaded, page'.updating = page.updating,
           UNCHANGED <<trip, uploads>>
    PROVE  ActiveShapes' /\ ProofInv'
<1> DEFINE r == Active!Read(for)
<1>1. r \in ActiveRequests /\ r.for = for /\ r.at = "sent" /\ r.mine
  BY RequestShape DEF Active!Read, Active!Statuses
<1>2. reqs' = Append(reqs, r)
  BY DEF Active!Ask
<1> HIDE DEF r
<1>3. /\ reqs' \in Seq(ActiveRequests) /\ Len(reqs') = Len(reqs) + 1 /\ reqs'[Len(reqs) + 1] = r
      /\ \A k \in DOMAIN reqs : reqs'[k] = reqs[k]
      /\ Len(reqs) \in Nat /\ DOMAIN reqs = 1 .. Len(reqs)
      /\ DOMAIN reqs' = 1 .. Len(reqs) + 1
  BY <1>1, <1>2, Appended, PlacesOf DEF ActiveShapes
<1>4. \A k \in DOMAIN reqs' : k \in DOMAIN reqs \/ reqs'[k] = r
  BY <1>3
<1>5. ~Takes(r)
  BY <1>1 DEF Takes
<1>6. ActiveShapes'
  BY <1>1, <1>3, <1>4, <1>5 DEF ActiveShapes
<1>7. Shifted(reqs, reqs', 0)
  BY <1>1, <1>3, <1>4 DEF Shifted, IsView, Moved
<1>8. InOrder'
  BY <1>1, <1>2, OrderAsked DEF ProofInv
<1>9. LoadedFirst'
  BY DEF ProofInv, LoadedFirst
<1>10. \A i \in DOMAIN reqs' : Takes(reqs'[i]) =>
               \E j \in DOMAIN reqs : /\ Takes(reqs[j]) /\ reqs'[i].id = reqs[j].id
                                      /\ reqs'[i].to = reqs[j].to
                                      /\ reqs'[i].mine = reqs[j].mine
  BY <1>3, <1>4, <1>5
<1>11. QED
  BY <1>6, <1>7, <1>8, <1>9, <1>10, RowsStay, UploadsStay, ParcelKept

(* A reply is used that says nothing of the parcel.                        *)
LEMMA ReplyUsed ==
    ASSUME ActiveShapes, ProofInv, 1 \in DOMAIN reqs, reqs' = Active!RemoveAt(reqs, 1),
           ~Moved(reqs[1]),
           page' \in ActivePages, page'.parcel = page.parcel,
           page'.proofUploaded = page.proofUploaded, page'.loaded = page.loaded,
           page.updating /\ reqs[1].for # "advance" => page'.updating,
           LoadedFirst', UNCHANGED <<trip, uploads>>
    PROVE  ActiveShapes' /\ ProofInv'
<1>1. /\ reqs' \in Seq(ActiveRequests) /\ DOMAIN reqs' \subseteq Nat \ {0}
      /\ \A k \in DOMAIN reqs' : k + 1 \in DOMAIN reqs /\ reqs'[k] = reqs[k + 1]
  <2>1. /\ reqs' \in Seq(ActiveRequests) /\ Len(reqs) \in Nat /\ DOMAIN reqs' = 1 .. Len(reqs) - 1
        /\ \A k \in DOMAIN reqs' : k + 1 \in DOMAIN reqs
                 /\ reqs'[k] = IF k < 1 THEN reqs[k] ELSE reqs[k + 1]
    BY ActiveRemoved, PlacesOf DEF ActiveShapes
  <2>2. \A k \in DOMAIN reqs' : ~(k < 1)
    BY <2>1
  <2>3. QED
    BY <2>1, <2>2
<1>2. ActiveShapes'
  BY <1>1 DEF ActiveShapes
<1>3. Shifted(reqs, reqs', 1)
  <2>1. ASSUME NEW k \in DOMAIN reqs, k > 1
        PROVE  k - 1 \in DOMAIN reqs' /\ reqs'[k - 1] = reqs[k]
    <3>1. k - 1 \in DOMAIN reqs' /\ k - 1 + 1 = k
      BY <2>1, ActiveRemoved, PlacesOf DEF ActiveShapes
    <3>2. QED
      BY <1>1, <3>1
  <2>2. QED
    BY <1>1, <2>1 DEF Shifted
<1>4. InOrder'
  BY OrderUsed DEF ProofInv
<1>5. \A i \in DOMAIN reqs' : Takes(reqs'[i]) =>
               \E j \in DOMAIN reqs : /\ Takes(reqs[j]) /\ reqs'[i].id = reqs[j].id
                                      /\ reqs'[i].to = reqs[j].to
                                      /\ reqs'[i].mine = reqs[j].mine
  BY <1>1
<1>6. QED
  BY <1>2, <1>3, <1>4, <1>5, RowsStay, UploadsStay, ParcelKept

(* A request is answered, or done with, and the answer is no view of the   *)
(* parcels.                                                                *)
LEMMA OtherAnswered ==
    ASSUME ~Overtake, ActiveShapes, ProofInv, NEW i \in Nat, Active!Arrived(i),
           NEW how \in {"ok", "error"},
           how = "ok" => reqs[i].for = "advance" /\ reqs[i].id \notin TripParcels,
           reqs' = Active!Answer(reqs, i, how), UNCHANGED <<page, uploads>>,
           trip' \in [Active!Trips -> Active!Rows],
           HeldKept(trip, trip'), Proven, OneActive', Active!ProofBeforeDelivery'
    PROVE  ActiveShapes' /\ ProofInv'
<1>0. i \in DOMAIN reqs /\ reqs[i].at = "sent" /\ reqs[i] \in ActiveRequests
  BY PlacesOf DEF Active!Arrived, ActiveShapes
<1>1. CASE reqs[i].mine
  <2> DEFINE x == [reqs[i] EXCEPT !.at = how]
  <2>1. /\ x \in ActiveRequests /\ x.at = how
        /\ x.for = reqs[i].for /\ x.mine = reqs[i].mine /\ x.id = reqs[i].id
        /\ x.to = reqs[i].to
        /\ Takes(x) <=> Takes(reqs[i])
    BY <1>0, AnswerShape
  <2>2. reqs' = [reqs EXCEPT ![i] = x]
    BY <1>1 DEF Active!Answer
  <2> HIDE DEF x
  <2>3. /\ reqs' \in Seq(ActiveRequests) /\ DOMAIN reqs' = DOMAIN reqs /\ reqs'[i] = x
        /\ \A k \in DOMAIN reqs : k # i => reqs'[k] = reqs[k]
    BY <1>0, <2>1, <2>2, Written DEF ActiveShapes
  <2>4. ActiveShapes'
    BY <1>0, <2>1, <2>3 DEF ActiveShapes
  <2>5. InOrder'
    BY <1>0, <1>1, <2>1, <2>2, OrderAnswered DEF ProofInv
  <2>6. ~IsView(x) /\ ~Moved(reqs[i])
    BY <1>0, <2>1 DEF IsView, Moved
  <2>7. Shifted(reqs, reqs', 0)
    BY <2>3, <2>6, PlacesOf DEF Shifted, ActiveShapes
  <2>8. \A k \in DOMAIN reqs' :
            /\ Takes(reqs'[k]) <=> Takes(reqs[k])
            /\ reqs'[k].id = reqs[k].id /\ reqs'[k].to = reqs[k].to
            /\ reqs'[k].mine = reqs[k].mine
    BY <2>1, <2>3
  <2>9. LoadedFirst'
    BY DEF ProofInv, LoadedFirst
  <2>10. QED
    BY <2>3, <2>4, <2>5, <2>7, <2>8, <2>9, UploadsStay, ParcelKept
<1>2. CASE ~reqs[i].mine
  <2>1. i = 1 /\ ~page.loaded /\ \A k \in DOMAIN reqs : reqs[k].at = "sent"
    BY <1>0, <1>2, Unserved DEF ProofInv
  <2>2. reqs' = Active!RemoveAt(reqs, 1)
    BY <1>2, <2>1 DEF Active!Answer
  <2>3. /\ reqs' \in Seq(ActiveRequests)
        /\ \A k \in DOMAIN reqs' : \E j \in DOMAIN reqs : reqs'[k] = reqs[j]
    BY <1>0, <2>1, <2>2, ActiveRemoved DEF ActiveShapes
  <2>4. ActiveShapes'
    BY <2>3 DEF ActiveShapes
  <2>5. InOrder'
    BY <1>0, <2>1, <2>2, OrderUsed DEF ProofInv
  <2>6. Shifted(reqs, reqs', 0)
    BY <2>1, <2>3 DEF Shifted, IsView, Moved
  <2>7. LoadedFirst'
    BY DEF ProofInv, LoadedFirst
  <2>8. QED
    BY <2>3, <2>4, <2>5, <2>6, <2>7, UploadsStay, ParcelKept
<1>3. QED
  BY <1>1, <1>2

-----------------------------------------------------------------------------
(* Uploads                                                                 *)

LEMMA UploadAnswered ==
    ASSUME ActiveShapes, ProofInv, NEW i \in DOMAIN uploads, NEW how \in {"ok", "error"},
           uploads[i].at = "sent", uploads' = Active!Answer(uploads, i, how),
           how = "ok" => trip'[uploads[i].id].proof,
           UNCHANGED <<page, reqs>>, trip' \in [Active!Trips -> Active!Rows],
           HeldKept(trip, trip'), Proven, OneActive', Active!ProofBeforeDelivery'
    PROVE  ActiveShapes' /\ ProofInv'
<1>0. uploads[i] \in Active!Uploads /\ \A k \in DOMAIN uploads : uploads[k].id \in TripParcels
  <2>1. \A k \in DOMAIN uploads : uploads[k] \in Active!Uploads
    BY PlacesOf DEF ActiveShapes
  <2>2. QED
    BY <2>1 DEF Active!Uploads
<1>1. /\ uploads' \in Seq(Active!Uploads)
      /\ \E f \in [DOMAIN uploads' -> DOMAIN uploads] :
            /\ \A k, l \in DOMAIN uploads' : f[k] = f[l] => k = l
            /\ \A k \in DOMAIN uploads' :
                  /\ uploads'[k].id = uploads[f[k]].id /\ uploads'[k].mine = uploads[f[k]].mine
                  /\ uploads'[k].at = "ok" => uploads[f[k]].at = "ok" \/ trip'[uploads'[k].id].proof
  <2>1. CASE uploads[i].mine
    <3> DEFINE x == [uploads[i] EXCEPT !.at = how]
    <3>1. x \in Active!Uploads /\ x.at = how /\ x.id = uploads[i].id /\ x.mine = uploads[i].mine
      BY <1>0, UploadShape
    <3>2. uploads' = [uploads EXCEPT ![i] = x]
      BY <2>1 DEF Active!Answer
    <3> HIDE DEF x
    <3>3. /\ uploads' \in Seq(Active!Uploads) /\ DOMAIN uploads' = DOMAIN uploads /\ uploads'[i] = x
          /\ \A k \in DOMAIN uploads : k # i => uploads'[k] = uploads[k]
      BY <3>1, <3>2, Written DEF ActiveShapes
    <3> DEFINE f == [k \in DOMAIN uploads' |-> k]
    <3>4. f \in [DOMAIN uploads' -> DOMAIN uploads] /\ \A k \in DOMAIN uploads' : f[k] = k
      BY <3>3
    <3> HIDE DEF f
    <3>5. \A k \in DOMAIN uploads' :
             /\ uploads'[k].id = uploads[k].id /\ uploads'[k].mine = uploads[k].mine
             /\ uploads'[k].at = "ok" => uploads[k].at = "ok" \/ trip'[uploads'[k].id].proof
      BY <3>1, <3>3
    <3>6. QED
      BY <3>3, <3>4, <3>5
  <2>2. CASE ~uploads[i].mine
    <3>1. uploads' = Active!RemoveAt(uploads, i)
      BY <2>2 DEF Active!Answer
    <3>2. /\ uploads' \in Seq(Active!Uploads) /\ DOMAIN uploads' \subseteq Nat
          /\ \A k \in DOMAIN uploads' :
                /\ k \in DOMAIN uploads /\ k + 1 \in DOMAIN uploads
                /\ uploads'[k] = IF k < i THEN uploads[k] ELSE uploads[k + 1]
      BY <3>1, ActiveRemoved, PlacesOf DEF ActiveShapes
    <3> DEFINE f == [k \in DOMAIN uploads' |-> IF k < i THEN k ELSE k + 1]
    <3>3. /\ f \in [DOMAIN uploads' -> DOMAIN uploads]
          /\ \A k \in DOMAIN uploads' : f[k] = IF k < i THEN k ELSE k + 1
      BY <3>2
    <3> HIDE DEF f
    <3>4. \A k, l \in DOMAIN uploads' : f[k] = f[l] => k = l
      BY <3>2, <3>3, PlacesOf DEF ActiveShapes
    <3>5. \A k \in DOMAIN uploads' : uploads'[k] = uploads[f[k]]
      BY <3>2, <3>3
    <3>6. QED
      BY <3>2, <3>3, <3>4, <3>5
  <2>3. QED
    BY <2>1, <2>2
<1>2. PICK f \in [DOMAIN uploads' -> DOMAIN uploads] :
            /\ \A k, l \in DOMAIN uploads' : f[k] = f[l] => k = l
            /\ \A k \in DOMAIN uploads' :
                  /\ uploads'[k].id = uploads[f[k]].id /\ uploads'[k].mine = uploads[f[k]].mine
                  /\ uploads'[k].at = "ok" => uploads[f[k]].at = "ok" \/ trip'[uploads'[k].id].proof
  BY <1>1
<1>3. UploadsAreRight'
  <2>1. ASSUME NEW k \in DOMAIN uploads', uploads'[k].mine
        PROVE  /\ page.parcel.id = uploads'[k].id /\ page.parcel.st = "IN_TRANSIT"
               /\ ~page.proofUploaded
               /\ uploads'[k].at = "ok" => trip'[uploads'[k].id].proof
    <3>1. f[k] \in DOMAIN uploads /\ uploads[f[k]].mine
      BY <1>2, <2>1
    <3>2. uploads[f[k]].at = "ok" => trip'[uploads[f[k]].id].proof
      BY <1>0, <3>1 DEF ProofInv, UploadsAreRight, Proven
    <3>3. QED
      BY <1>2, <2>1, <3>1, <3>2 DEF ProofInv, UploadsAreRight
  <2>2. ASSUME NEW k \in DOMAIN uploads', NEW l \in DOMAIN uploads',
               uploads'[k].mine, uploads'[l].mine
        PROVE  k = l
    <3>1. f[k] \in DOMAIN uploads /\ f[l] \in DOMAIN uploads
      OBVIOUS
    <3>2. f[k] = f[l]
      BY <1>2, <2>2, <3>1 DEF ProofInv, UploadsAreRight
    <3>3. QED
      BY <1>2, <3>2
  <2>3. QED
    BY <2>1, <2>2 DEF UploadsAreRight
<1>4. ActiveShapes'
  BY <1>1 DEF ActiveShapes
<1>5. Shifted(reqs, reqs', 0)
  BY PlacesOf DEF Shifted, ActiveShapes
<1>6. InOrder' /\ LoadedFirst'
  BY DEF ProofInv, InOrder, LoadedFirst
<1>7. \A k \in DOMAIN uploads' : uploads'[k].mine => \E l \in DOMAIN uploads : uploads[l].mine
  BY <1>2
<1>8. QED
  BY <1>3, <1>4, <1>5, <1>6, <1>7, ParcelKept

(* Steps in which only the uploads and the page's flag change.             *)
LEMMA UploadStep ==
    ASSUME ActiveShapes, ProofInv, UNCHANGED <<trip, reqs>>,
           uploads' \in Seq(Active!Uploads),
           page' \in ActivePages, page'.at = page.at, page'.loaded = page.loaded,
           page'.updating = page.updating, page'.ride = page.ride,
           page'.parcel = page.parcel,
           page.loaded, FlagIsRight', UploadsAreRight',
           \A i \in DOMAIN reqs : ~(Takes(reqs[i]) /\ reqs[i].mine)
    PROVE  ActiveShapes' /\ ProofInv'
<1>1. ActiveShapes'
  BY DEF ActiveShapes
<1>2. InSync'
  BY DEF ProofInv, InSync
<1>3. UnderWay'
  BY DEF ProofInv, UnderWay, Takes
<1>4. InOrder' /\ LoadedFirst'
  BY DEF ProofInv, InOrder, LoadedFirst
<1>5. QED
  BY <1>1, <1>2, <1>3, <1>4, RowsStay DEF ProofInv

LEMMA StepSelectProof ==
    ASSUME OneUpload, ActiveShapes, ProofInv, Active!SelectProof
    PROVE  ActiveShapes' /\ ProofInv'
<1> DEFINE u == [id |-> page.parcel.id, at |-> "sent", mine |-> TRUE]
<1>1. /\ page.parcel.id # NoTrip /\ page.parcel.st = "IN_TRANSIT" /\ ~page.proofUploaded
      /\ \A k \in DOMAIN uploads : ~uploads[k].mine
      /\ uploads' = Append(uploads, u) /\ UNCHANGED <<trip, page, reqs>>
  BY DEF Active!SelectProof
<1>2. page.parcel.id \in TripParcels
  BY <1>1 DEF ActiveShapes, ActivePages, CardsOf
<1>3. u \in Active!Uploads /\ u.id = page.parcel.id /\ u.at = "sent"
  BY <1>2 DEF Active!Uploads
<1> HIDE DEF u
<1>4. /\ uploads' \in Seq(Active!Uploads)
      /\ \A k \in DOMAIN uploads' : \/ k \in DOMAIN uploads /\ uploads'[k] = uploads[k]
                                    \/ k = Len(uploads) + 1 /\ uploads'[k] = u
  <2>1. /\ uploads' \in Seq(Active!Uploads) /\ Len(uploads') = Len(uploads) + 1
        /\ uploads'[Len(uploads) + 1] = u
        /\ \A k \in DOMAIN uploads : uploads'[k] = uploads[k]
    BY <1>1, <1>3, Appended DEF ActiveShapes
  <2>2. Len(uploads) \in Nat /\ DOMAIN uploads = 1 .. Len(uploads)
    BY PlacesOf DEF ActiveShapes
  <2>3. DOMAIN uploads' = 1 .. Len(uploads) + 1
    BY <2>1, PlacesOf
  <2>4. QED
    BY <2>1, <2>2, <2>3
<1>5. UploadsAreRight'
  BY <1>1, <1>3, <1>4 DEF UploadsAreRight
<1>6. FlagIsRight'
  BY <1>1 DEF FlagIsRight
<1>7. page.loaded
  BY <1>1 DEF ProofInv, LoadedFirst
<1>8. ASSUME NEW i \in DOMAIN reqs, Takes(reqs[i]), reqs[i].mine
      PROVE  FALSE
  <2>1. reqs[i].to \in DOMAIN Before /\ reqs[i].to # "DELIVERED"
    BY <1>1, <1>8 DEF ActiveShapes, ProofInv, UnderWay
  <2>2. Fits(page.parcel, reqs[i])
    BY <1>8 DEF ProofInv, UnderWay
  <2>3. reqs[i].to \in {"PICKED_UP", "IN_TRANSIT"}
    BY <2>1 DEF Before
  <2>4. QED
    BY <1>1, <1>2, <2>2, <2>3 DEF Fits, Before, IsHeld, Held
<1>9. page' \in ActivePages
  BY <1>1 DEF ActiveShapes
<1>10. QED
  BY <1>1, <1>4, <1>5, <1>6, <1>7, <1>8, <1>9, UploadStep

LEMMA StepProofSelected ==
    ASSUME Active!RiderTripAssumption, ActiveShapes, ProofInv, NEW i \in Nat,
           Active!ProofSelected(i)
    PROVE  ActiveShapes' /\ ProofInv'
<1>1. /\ i \in DOMAIN uploads /\ uploads[i].mine
      /\ page' = [page EXCEPT !.proofUploaded = page.proofUploaded \/ uploads[i].at = "ok"]
      /\ uploads' = Active!RemoveAt(uploads, i) /\ UNCHANGED <<trip, reqs>>
  BY DEF Active!ProofSelected
<1>2. /\ page' \in ActivePages /\ page'.at = page.at /\ page'.loaded = page.loaded
      /\ page'.updating = page.updating /\ page'.ride = page.ride /\ page'.parcel = page.parcel
      /\ page'.proofUploaded <=> page.proofUploaded \/ uploads[i].at = "ok"
  <2> DEFINE b == page.proofUploaded \/ uploads[i].at = "ok"
  <2>1. b \in BOOLEAN /\ page' = [page EXCEPT !.proofUploaded = b]
    BY <1>1
  <2> HIDE DEF b
  <2>2. /\ page' \in ActivePages /\ page'.at = page.at /\ page'.loaded = page.loaded
        /\ page'.updating = page.updating /\ page'.ride = page.ride
        /\ page'.parcel = page.parcel /\ page'.proofUploaded = b
    BY <2>1 DEF ActiveShapes, ActivePages
  <2>3. QED
    BY <2>2 DEF b
<1>3. /\ uploads' \in Seq(Active!Uploads)
      /\ \A k \in DOMAIN uploads' : ~uploads'[k].mine
  <2>1. /\ uploads' \in Seq(Active!Uploads) /\ DOMAIN uploads' \subseteq Nat
        /\ \A k \in DOMAIN uploads' :
              /\ k \in DOMAIN uploads /\ k + 1 \in DOMAIN uploads
              /\ uploads'[k] = IF k < i THEN uploads[k] ELSE uploads[k + 1]
    BY <1>1, ActiveRemoved, PlacesOf DEF ActiveShapes
  <2>2. \A k \in DOMAIN uploads : k # i => ~uploads[k].mine
    BY <1>1 DEF ProofInv, UploadsAreRight
  <2>3. QED
    BY <2>1, <2>2, PlacesOf DEF ActiveShapes
<1>4. /\ page.parcel.id = uploads[i].id /\ page.parcel.st = "IN_TRANSIT"
      /\ uploads[i].at = "ok" => trip[uploads[i].id].proof
  BY <1>1 DEF ProofInv, UploadsAreRight
<1>5. page.parcel.id # NoTrip /\ page.loaded
  <2>1. uploads[i] \in Active!Uploads
    BY <1>1, PlacesOf DEF ActiveShapes
  <2>2. QED
    BY <1>4, <2>1 DEF Active!RiderTripAssumption, Active!Uploads, Active!Trips, ProofInv,
       LoadedFirst
<1>6. UploadsAreRight' /\ FlagIsRight'
  BY <1>1, <1>2, <1>3, <1>4 DEF ProofInv, UploadsAreRight, FlagIsRight
<1>7. \A k \in DOMAIN reqs : ~(Takes(reqs[k]) /\ reqs[k].mine)
  BY <1>1 DEF ProofInv, UnderWay
<1>8. QED
  BY <1>1, <1>2, <1>3, <1>5, <1>6, <1>7, UploadStep

-----------------------------------------------------------------------------
(* A page is opened or left                                                *)

(* After it nobody waits for a new status or an upload.                    *)
LEMMA PageBlank ==
    ASSUME ProofInv, ActiveShapes', IsBlank(page'), trip' = trip, InOrder',
           InSync',
           \A i \in DOMAIN reqs' : Takes(reqs'[i]) =>
               /\ ~reqs'[i].mine
               /\ reqs'[i].to = "DELIVERED" => trip[reqs'[i].id].proof,
           \A k \in DOMAIN uploads' : ~uploads'[k].mine
    PROVE  ProofInv'
<1>2. UnderWay'
  BY DEF UnderWay, Takes
<1>3. LoadedFirst' /\ FlagIsRight' /\ UploadsAreRight'
  BY DEF IsBlank, LoadedFirst, FlagIsRight, UploadsAreRight
<1>4. QED
  BY <1>2, <1>3, RowsStay DEF ProofInv

LEMMA StepOpen ==
    ASSUME Active!RiderTripAssumption, ActiveShapes, ProofInv, Active!Open
    PROVE  ActiveShapes' /\ ProofInv'
<1> DEFINE r == Active!Read("refresh")
           p == [Active!Away EXCEPT !.at = "entering", !.loading = TRUE]
<1>1. /\ page.at = "away" /\ page' = p /\ reqs' = Append(reqs, r)
      /\ UNCHANGED <<trip, uploads>>
  BY DEF Active!Open, Active!Ask
<1>2. r \in ActiveRequests /\ r.for = "refresh" /\ r.at = "sent" /\ r.mine
  BY RequestShape DEF Active!Read, Active!Statuses
<1>3. IsBlank(p)
  BY AwayShape
<1> HIDE DEF r, p
<1>4. /\ reqs' \in Seq(ActiveRequests)
      /\ \A k \in DOMAIN reqs' : (k \in DOMAIN reqs /\ reqs'[k] = reqs[k]) \/ reqs'[k] = r
  <2>1. /\ reqs' \in Seq(ActiveRequests) /\ Len(reqs') = Len(reqs) + 1
        /\ reqs'[Len(reqs) + 1] = r /\ \A k \in DOMAIN reqs : reqs'[k] = reqs[k]
    BY <1>1, <1>2, Appended DEF ActiveShapes
  <2>2. Len(reqs) \in Nat /\ DOMAIN reqs = 1 .. Len(reqs) /\ DOMAIN reqs' = 1 .. Len(reqs) + 1
    BY <2>1, PlacesOf DEF ActiveShapes
  <2>3. QED
    BY <2>1, <2>2
<1>5. ~page.loaded /\ ~page.updating /\ page.parcel.id = NoTrip
  BY <1>1 DEF ProofInv, LoadedFirst
<1>6. ~Takes(r)
  BY <1>2 DEF Takes
<1>7. ActiveShapes'
  BY <1>1, <1>2, <1>3, <1>4, <1>6 DEF ActiveShapes, IsBlank
<1>8. InOrder'
  <2>1. page'.loaded = page.loaded
    BY <1>1, <1>3, <1>5 DEF IsBlank, ActiveShapes, ActivePages
  <2>2. QED
    BY <1>1, <1>2, <1>5, <2>1, OrderAsked DEF ProofInv
<1>9. \A k \in DOMAIN uploads : ~uploads[k].mine
  <2>1. \A k \in DOMAIN uploads : uploads[k].id # NoTrip
    <3>1. \A k \in DOMAIN uploads : uploads[k] \in Active!Uploads
      BY PlacesOf DEF ActiveShapes
    <3>2. QED
      BY <3>1 DEF Active!Uploads, Active!RiderTripAssumption, Active!Trips
  <2>2. QED
    BY <1>5, <2>1 DEF ProofInv, UploadsAreRight
<1>10. \A k \in DOMAIN reqs : Takes(reqs[k]) => ~reqs[k].mine
  BY <1>5 DEF ProofInv, InOrder, Takes
<1>11. InSync'
  <2>1. Shifted(reqs, reqs', 0)
    <3>1. \A k \in DOMAIN reqs : k \in DOMAIN reqs' /\ reqs'[k] = reqs[k]
      BY <1>1, <1>2, Appended, PlacesOf DEF ActiveShapes
    <3>2. ~IsView(r)
      BY <1>2 DEF IsView
    <3>3. DOMAIN reqs \subseteq Nat /\ DOMAIN reqs' \subseteq Nat
      BY <1>4, PlacesOf DEF ActiveShapes
    <3>4. QED
      BY <1>4, <3>1, <3>2, <3>3 DEF Shifted
  <2>2. page'.loaded = FALSE
    BY <1>1, <1>3 DEF IsBlank
  <2>3. QED
    BY <1>1, <1>7, <2>1, <2>2, RowsStay, SyncKept DEF ProofInv
<1>12. QED
  BY <1>1, <1>2, <1>3, <1>4, <1>6, <1>7, <1>8, <1>9, <1>10, <1>11, PageBlank
     DEF ProofInv, UnderWay

(* What Leave leaves in flight: at most one new status, and uploads that   *)
(* nobody waits for.                                                       *)
LEMMA StepLeave ==
    ASSUME ActiveShapes, ProofInv, Active!Leave
    PROVE  ActiveShapes' /\ ProofInv'
<1> DEFINE S == {r \in ActiveRequests : /\ r.for = "advance" => r.id \in Active!Trips
                                        /\ Takes(r) => r.to \in DOMAIN Before
                                        /\ Takes(r) /\ r.to = "DELIVERED" => trip[r.id].proof}
           E == {r \in S : r.for = "advance" /\ r.at = "sent" /\ r.mine = FALSE}
           T == {x \in Active!Requests : x.at = "sent" /\ x.for = "advance"}
           U == {x \in Active!Uploads : x.at = "sent"}
           V == {x \in Active!Uploads : x.at = "sent" /\ x.mine = FALSE}
<1>1. /\ page' = Active!Away /\ reqs' = Active!Left(reqs, T) /\ uploads' = Active!Left(uploads, U) /\ trip' = trip
  BY DEF Active!Leave
<1>2. reqs \in Seq(S)
  <2>1. \A k \in DOMAIN reqs : reqs[k] \in S
    BY PlacesOf DEF ActiveShapes, ProofInv, UnderWay
  <2> HIDE DEF S
  <2>2. Len(reqs) \in Nat /\ reqs = [k \in 1 .. Len(reqs) |-> reqs[k]]
    BY DEF ActiveShapes
  <2>3. QED
    BY <2>1, <2>2, PlacesOf DEF ActiveShapes
<1>3. /\ reqs' \in Seq(E) /\ Len(reqs') <= 1
  <2>1. ASSUME NEW x \in S, x \in T PROVE [x EXCEPT !.mine = FALSE] \in E
    <3> DEFINE y == [x EXCEPT !.mine = FALSE]
    <3>1. /\ y \in ActiveRequests /\ y.for = x.for /\ y.at = x.at /\ y.id = x.id /\ y.to = x.to
          /\ y.mine = FALSE
      BY DEF ActiveRequests
    <3> HIDE DEF y
    <3>2. Takes(y) <=> Takes(x)
      BY <3>1 DEF Takes
    <3>3. y \in E
      BY <2>1, <3>1, <3>2
    <3>4. QED
      BY <3>3 DEF y
  <2>2. \A i, j \in DOMAIN reqs : reqs[i] \in T /\ reqs[j] \in T => i = j
    BY DEF ProofInv, InOrder
  <2> HIDE DEF S, T, E
  <2>3. QED
    BY <1>1, <1>2, <2>1, <2>2, LeftFacts
<1>4. uploads' \in Seq(V)
  <2>1. \A x \in Active!Uploads : x \in U => [x EXCEPT !.mine = FALSE] \in V
    BY DEF Active!Uploads
  <2> HIDE DEF U, V
  <2>2. QED
    BY <1>1, <2>1, LeftFacts DEF ActiveShapes
<1>5. /\ Len(reqs') \in Nat /\ DOMAIN reqs' \subseteq {1}
      /\ \A k \in DOMAIN reqs' :
            /\ reqs'[k] \in S /\ reqs'[k].for = "advance" /\ reqs'[k].at = "sent"
            /\ ~reqs'[k].mine
  <2>1. Len(reqs') \in Nat /\ DOMAIN reqs' = 1 .. Len(reqs')
        /\ \A k \in DOMAIN reqs' : reqs'[k] \in E
    BY <1>3, PlacesOf
  <2>2. QED
    BY <1>3, <2>1
<1>6. \A k \in DOMAIN uploads' : uploads'[k] \in Active!Uploads /\ ~uploads'[k].mine
  <2>1. \A k \in DOMAIN uploads' : uploads'[k] \in V
    BY <1>4, PlacesOf
  <2>2. QED
    BY <2>1
<1>7. reqs' \in Seq(ActiveRequests) /\ uploads' \in Seq(Active!Uploads)
  <2>1. \A A, B : A \subseteq B => Seq(A) \subseteq Seq(B)
    OBVIOUS
  <2>2. E \subseteq ActiveRequests /\ V \subseteq Active!Uploads
    OBVIOUS
  <2> HIDE DEF E, V
  <2>3. QED
    BY <1>3, <1>4, <2>1, <2>2
<1>8. IsBlank(page')
  BY <1>1, AwayShape
<1>9. ActiveShapes'
  BY <1>1, <1>5, <1>7, <1>8 DEF ActiveShapes, IsBlank
<1>10. InOrder'
  BY <1>5, <1>8 DEF InOrder, IsBlank
<1>11. InSync'
  BY <1>5, <1>8 DEF InSync, IsBlank, IsView
<1>12. QED
  BY <1>1, <1>5, <1>6, <1>8, <1>9, <1>10, <1>11, PageBlank

-----------------------------------------------------------------------------
(* The server answers                                                      *)

LEMMA CardsAgree ==
    ASSUME Active!RiderTripAssumption, trip \in [Active!Trips -> Active!Rows],
           NEW c \in Active!FirstActive(TripRides), NEW d \in Active!FirstActive(TripParcels), OneActive
    PROVE  c \in CardsOf(TripRides) /\ d \in CardsOf(TripParcels) /\ Agrees(d, trip)
<1>1. \A t \in Active!Trips : trip[t] \in Active!Rows /\ trip[t].st \in Active!Statuses /\ trip[t].paid \in BOOLEAN
  BY DEF Active!Rows
<1>2. c \in CardsOf(TripRides)
  BY <1>1, NoCards DEF Active!FirstActive, Active!Card, Active!Active, CardsOf,
     Active!Trips
<1>3. d \in CardsOf(TripParcels)
  BY <1>1, NoCards DEF Active!FirstActive, Active!Card, Active!Active, CardsOf,
     Active!Trips
<1>4. Agrees(d, trip)
  <2>0. \A t \in TripParcels : t \in Active!Trips /\ t # NoTrip
    BY DEF Active!RiderTripAssumption, Active!Trips
  <2>1. \A s \in Held : s \in Active!Underway
    BY DEF Held, Active!Underway, Active!ParcelNext
  <2>2. CASE Active!Active(TripParcels) = {}
    <3>1. d.id = NoTrip
      BY <2>2, NoCards DEF Active!FirstActive
    <3>2. \A t \in TripParcels : trip[t].st \notin Active!Underway
      BY <2>2 DEF Active!Active
    <3>3. QED
      BY <2>0, <2>1, <3>1, <3>2 DEF Agrees
  <2>3. CASE Active!Active(TripParcels) # {}
    <3>1. PICK u \in TripParcels : d = Active!Card(u) /\ trip[u].st \in Active!Underway
      BY <2>3 DEF Active!FirstActive, Active!Active
    <3>2. d.id = u /\ d.st = trip[u].st
      BY <3>1 DEF Active!Card
    <3>3. ASSUME NEW t \in TripParcels, NEW s \in Held
          PROVE  trip[t].st = s <=> d.id = t /\ d.st = s
      <4>1. CASE t = u
        BY <3>2, <4>1
      <4>2. CASE t # u
        BY <2>1, <3>1, <3>2, <4>2 DEF OneActive
      <4>3. QED
        BY <4>1, <4>2
    <3>4. QED
      BY <3>3 DEF Agrees
  <2>4. QED
    BY <2>2, <2>3
<1>5. QED
  BY <1>2, <1>3, <1>4

LEMMA StepServeRead ==
    ASSUME Active!RiderTripAssumption, ~Overtake, ActiveShapes, ProofInv, NEW i \in Nat,
           Active!ServeRead(i)
    PROVE  ActiveShapes' /\ ProofInv'
<1>0. /\ Active!Arrived(i) /\ i \in DOMAIN reqs /\ reqs[i].at = "sent"
      /\ reqs[i].for \in {"refresh", "silent"} /\ reqs[i] \in ActiveRequests
      /\ UNCHANGED <<trip, page, uploads>>
  BY PlacesOf DEF Active!ServeRead, Active!Arrived, ActiveShapes
<1>1. PICK c \in Active!FirstActive(TripRides), d \in Active!FirstActive(TripParcels) :
          reqs' = [reqs EXCEPT ![i].at = "ok", ![i].ride = c, ![i].parcel = d]
  BY DEF Active!ServeRead
<1>2. c \in CardsOf(TripRides) /\ d \in CardsOf(TripParcels) /\ Agrees(d, trip)
  BY CardsAgree DEF ActiveShapes, ProofInv
<1> DEFINE x == [reqs[i] EXCEPT !.at = "ok", !.ride = c, !.parcel = d]
<1>3. /\ x \in ActiveRequests /\ x.at = "ok" /\ x.for = reqs[i].for /\ x.mine = reqs[i].mine
      /\ x.id = reqs[i].id /\ x.to = reqs[i].to /\ x.parcel = d
  BY <1>0, <1>2 DEF ActiveRequests
<1>4. reqs' = [reqs EXCEPT ![i] = x]
  BY <1>0, <1>1 DEF ActiveShapes
<1> HIDE DEF x
<1>5. /\ reqs' \in Seq(ActiveRequests) /\ DOMAIN reqs' = DOMAIN reqs /\ reqs'[i] = x
      /\ \A k \in DOMAIN reqs : k # i => reqs'[k] = reqs[k]
  BY <1>0, <1>3, <1>4, Written DEF ActiveShapes
<1>6. reqs[i].mine
  BY <1>0 DEF ProofInv, InOrder
<1>7. InOrder'
  BY <1>0, <1>3, <1>4, <1>6, OrderAnswered DEF ProofInv
<1>8. ~Takes(x) /\ ~Takes(reqs[i])
  BY <1>0, <1>3 DEF Takes
<1>9. ActiveShapes'
  BY <1>0, <1>3, <1>5, <1>8 DEF ActiveShapes
<1>10. \A k \in DOMAIN reqs : Moved(reqs'[k]) => Moved(reqs[k]) /\ reqs'[k] = reqs[k]
  BY <1>5, <1>8 DEF Moved
<1>11. \A k \in DOMAIN reqs : Moved(reqs[k]) => Moved(reqs'[k])
  BY <1>5, <1>8 DEF Moved
<1>12. ASSUME NEW e, NEW j, View(e, j, reqs, trip)
       PROVE  View(e, j, reqs', trip')
  BY <1>0, <1>5, <1>10, <1>11, <1>12 DEF View
<1>13. View(Shown(x), i, reqs', trip')
  <2>1. Shown(x) = d
    BY <1>0, <1>3 DEF Shown
  <2>2. ASSUME NEW k \in DOMAIN reqs, k > i, Moved(reqs[k]) PROVE FALSE
    <3>1. reqs[k].at = "sent"
      BY <1>0, <2>2, PlacesOf DEF ProofInv, InOrder, ActiveShapes
    <3>2. QED
      BY <2>2, <3>1 DEF Moved
  <2>3. QED
    BY <1>0, <1>2, <1>5, <1>10, <2>1, <2>2 DEF View
<1>14. InSync'
  <2>1. page'.loaded => View(page'.parcel, 0, reqs', trip')
    BY <1>0, <1>12 DEF ProofInv, InSync
  <2>2. ASSUME NEW k \in DOMAIN reqs', IsView(reqs'[k])
        PROVE  View(Shown(reqs'[k]), k, reqs', trip')
    <3>1. CASE k = i
      BY <1>5, <1>13, <3>1
    <3>2. CASE k # i
      BY <1>5, <1>12, <2>2, <3>2 DEF ProofInv, InSync
    <3>3. QED
      BY <3>1, <3>2
  <2>3. QED
    BY <2>1, <2>2 DEF InSync
<1>15. UnderWay'
  BY <1>0, <1>3, <1>5, <1>8 DEF ProofInv, UnderWay
<1>16. QED
  BY <1>0, <1>7, <1>9, <1>14, <1>15, RowsStay
     DEF ProofInv, LoadedFirst, FlagIsRight, UploadsAreRight

(* A trip is taken forward.                                                *)
LEMMA RowMoved ==
    ASSUME trip \in [Active!Trips -> Active!Rows], ProofInv, NEW t \in Active!Trips,
           NEW to \in Active!Statuses,
           trip' = [trip EXCEPT ![t].st = to, ![t].paid = @ \/ to \in Active!Ended],
           t \in TripParcels =>
               /\ trip[t].st \in Active!Underway /\ to \in Active!Underway \cup {"DELIVERED"}
               /\ to = "DELIVERED" => trip[t].proof
    PROVE  /\ trip' \in [Active!Trips -> Active!Rows] /\ trip'[t].st = to
           /\ \A u \in Active!Trips \ {t} : trip'[u] = trip[u]
           /\ Proven /\ OneActive' /\ Active!ProofBeforeDelivery'
           /\ t \in TripParcels => \A u \in TripParcels \ {t} : trip[u].st \notin Active!Underway
<1>1. /\ trip' \in [Active!Trips -> Active!Rows] /\ trip'[t].st = to
      /\ \A u \in Active!Trips \ {t} : trip'[u] = trip[u]
      /\ trip'[t].proof = trip[t].proof
  <2> DEFINE b == trip[t].paid \/ to \in Active!Ended
             y == [trip[t] EXCEPT !.st = to, !.paid = b]
  <2>1. trip[t] \in Active!Rows /\ b \in BOOLEAN
    OBVIOUS
  <2>2. trip' = [trip EXCEPT ![t] = y]
    BY <2>1
  <2> HIDE DEF b
  <2>3. y \in Active!Rows /\ y.st = to /\ y.proof = trip[t].proof
    BY <2>1 DEF Active!Rows
  <2> HIDE DEF y
  <2>4. QED
    BY <2>1, <2>2, <2>3
<1>2. t \in TripParcels => \A u \in TripParcels \ {t} : trip[u].st \notin Active!Underway
  BY DEF ProofInv, OneActive
<1>3. Proven
  BY <1>1 DEF Proven, Active!Trips
<1>4. OneActive'
  <2>1. \A u \in TripParcels : u # t => trip'[u].st = trip[u].st
    BY <1>1 DEF Active!Trips
  <2>2. QED
    BY <1>2, <2>1 DEF ProofInv, OneActive
<1>5. Active!ProofBeforeDelivery'
  BY <1>1 DEF ProofInv, Active!ProofBeforeDelivery, Active!Trips
<1>6. QED
  BY <1>1, <1>2, <1>3, <1>4, <1>5

(* A new status of a parcel, which the page that asked for it waits for.   *)
LEMMA StepParcelServed ==
    ASSUME Active!RiderTripAssumption, ~Overtake, ActiveShapes, ProofInv, NEW i \in Nat,
           Active!ServeAdvance(i), reqs[i].id \in TripParcels, reqs[i].mine,
           Active!MayAdvance(reqs[i].id, reqs[i].to)
    PROVE  ActiveShapes' /\ ProofInv'
<1> DEFINE t == reqs[i].id
           to == reqs[i].to
           x == [reqs[i] EXCEPT !.at = "ok"]
<1>0. /\ Active!Arrived(i) /\ i \in DOMAIN reqs /\ reqs[i].at = "sent" /\ reqs[i].for = "advance"
      /\ reqs[i] \in ActiveRequests /\ Takes(reqs[i]) /\ to \in DOMAIN Before
      /\ t \in TripParcels /\ t \in Active!Trips /\ t \notin TripRides /\ t # NoTrip
      /\ UNCHANGED <<page, uploads>>
  BY PlacesOf DEF Active!ServeAdvance, Active!Arrived, ActiveShapes, Takes,
     Active!RiderTripAssumption, Active!Trips
<1>1. /\ trip[t].st \in DOMAIN Active!ParcelNext /\ Active!ParcelNext[trip[t].st] = to
      /\ trip[t].st = Before[to]
  BY <1>0 DEF Active!MayAdvance, Active!NextOf, Active!ParcelNext, Before
<1>2. trip[t].st \in Active!Underway /\ to \in Active!Statuses /\ (to \in Held \/ to = "DELIVERED")
  BY <1>0, <1>1 DEF Active!Underway, Before, Active!Statuses, Held, Active!ParcelNext,
     Active!Ended
<1>3. /\ trip' = [trip EXCEPT ![t].st = to, ![t].paid = @ \/ to \in Active!Ended]
      /\ reqs' = [reqs EXCEPT ![i] = x]
  BY <1>0 DEF Active!ServeAdvance, Active!Answer
<1>4. /\ x \in ActiveRequests /\ x.at = "ok" /\ x.for = "advance" /\ x.mine = reqs[i].mine
      /\ x.id = t /\ x.to = to /\ Takes(x)
  BY <1>0, AnswerShape
<1> HIDE DEF x
<1>5. /\ reqs' \in Seq(ActiveRequests) /\ DOMAIN reqs' = DOMAIN reqs /\ reqs'[i] = x
      /\ \A k \in DOMAIN reqs : k # i => reqs'[k] = reqs[k]
  BY <1>0, <1>3, <1>4, Written DEF ActiveShapes
<1>6. /\ trip' \in [Active!Trips -> Active!Rows] /\ trip'[t].st = to
      /\ \A u \in Active!Trips \ {t} : trip'[u] = trip[u]
      /\ Proven /\ OneActive' /\ Active!ProofBeforeDelivery'
      /\ \A u \in TripParcels \ {t} : trip[u].st \notin Active!Underway
  <2>1. to = "DELIVERED" => trip[t].proof
    BY <1>0 DEF ProofInv, UnderWay
  <2>2. to \in Active!Underway \cup {"DELIVERED"}
    BY <1>2 DEF Held, Active!Underway, Active!ParcelNext
  <2>3. QED
    BY <1>0, <1>2, <1>3, <2>1, <2>2, RowMoved DEF ActiveShapes
<1>7. \A k \in DOMAIN reqs : reqs[k].for = "advance" => k = i
  BY <1>0 DEF ProofInv, InOrder
<1>8. Unmoved /\ \A k \in DOMAIN reqs : Moved(reqs'[k]) <=> k = i
  BY <1>0, <1>4, <1>5, <1>7 DEF Unmoved, Moved, Takes
<1>9. ASSUME NEW c, Agrees(c, trip)
       PROVE  Fits(c, x)
  <2>1. CASE Before[to] \in Held
    BY <1>0, <1>1, <1>4, <1>9, <2>1 DEF Agrees, Fits
  <2>2. CASE Before[to] \notin Held
    <3>1. ~IsHeld(c)
      <4>1. ASSUME IsHeld(c) PROVE FALSE
        <5>1. c.id \in TripParcels /\ c.st \in Held /\ trip[c.id].st = c.st
          BY <1>9, <4>1 DEF Agrees, IsHeld
        <5>2. trip[c.id].st \in Active!Underway
          BY <5>1 DEF Held, Active!Underway, Active!ParcelNext
        <5>3. c.id = t
          BY <1>6, <5>1, <5>2
        <5>4. QED
          BY <1>1, <2>2, <5>1, <5>3
      <4>2. QED
        BY <4>1
    <3>2. QED
      BY <1>4, <2>2, <3>1 DEF Fits
  <2>3. QED
    BY <2>1, <2>2
<1>10. ASSUME NEW c, Agrees(c, trip), NEW j \in Nat, j < i
       PROVE  View(c, j, reqs', trip')
  BY <1>0, <1>5, <1>8, <1>9, <1>10 DEF View
<1>11. View(Shown(x), i, reqs', trip')
  <2>1. \A u \in TripParcels \ {t}, s \in Held : trip'[u].st # s
    <3>1. \A s \in Held : s \in Active!Underway
      BY DEF Held, Active!Underway, Active!ParcelNext
    <3>2. QED
      BY <1>6, <3>1 DEF Active!Trips
  <2>2. Agrees(Shown(x), trip')
    <3>1. CASE to = "DELIVERED"
      <4>1. Shown(x).id = NoTrip
        BY <1>4, <3>1, NoCards DEF Shown, Active!Ended
      <4>2. "DELIVERED" \notin Held /\ \A u \in TripParcels : u # NoTrip
        BY DEF Held, Active!RiderTripAssumption, Active!Trips
      <4>3. QED
        BY <1>6, <2>1, <3>1, <4>1, <4>2 DEF Agrees
    <3>2. CASE to \in Held
      <4>1. Shown(x).id = t /\ Shown(x).st = to
        BY <1>4, <3>2 DEF Shown, Active!Ended, Held
      <4>2. QED
        BY <1>6, <2>1, <4>1 DEF Agrees
    <3>3. QED
      BY <1>2, <3>1, <3>2
  <2>3. i \in Nat
    OBVIOUS
  <2>4. \A k \in DOMAIN reqs' : k > i => ~Moved(reqs'[k])
    BY <1>5, <1>8, PlacesOf DEF ActiveShapes
  <2>5. QED
    BY <2>2, <2>4 DEF View
<1>12. InSync'
  <2>1. /\ page.loaded => Agrees(page.parcel, trip)
        /\ \A k \in DOMAIN reqs : IsView(reqs[k]) => Agrees(Shown(reqs[k]), trip)
    BY <1>8, ReadAgrees DEF ProofInv
  <2>2. page'.loaded => View(page'.parcel, 0, reqs', trip')
    <3>1. 0 < i
      BY <1>0, PlacesOf DEF ActiveShapes
    <3>2. QED
      BY <1>0, <1>10, <2>1, <3>1
  <2>3. ASSUME NEW k \in DOMAIN reqs', IsView(reqs'[k])
        PROVE  View(Shown(reqs'[k]), k, reqs', trip')
    <3>1. CASE k = i
      BY <1>5, <1>11, <3>1
    <3>2. CASE k # i
      <4>1. k \in DOMAIN reqs /\ IsView(reqs[k]) /\ reqs'[k] = reqs[k] /\ k \in Nat
        BY <1>5, <2>3, <3>2, PlacesOf DEF ActiveShapes
      <4>2. ~(k > i)
        <5>1. ASSUME k > i PROVE reqs[k].at = "sent"
          BY <1>0, <4>1, <5>1 DEF ProofInv, InOrder
        <5>2. QED
          BY <4>1, <5>1 DEF IsView
      <4>3. k < i
        BY <3>2, <4>1, <4>2
      <4>4. QED
        BY <1>10, <2>1, <4>1, <4>3
    <3>3. QED
      BY <3>1, <3>2
  <2>4. QED
    BY <2>2, <2>3 DEF InSync
<1>13. InOrder' /\ LoadedFirst'
  <2>1. InOrder'
    BY <1>0, <1>3, <1>4, OrderAnswered DEF ProofInv
  <2>2. QED
    BY <1>0, <2>1 DEF ProofInv, LoadedFirst
<1>14. ActiveShapes'
  BY <1>0, <1>4, <1>5, <1>6 DEF ActiveShapes
<1>15. UnderWay'
  BY <1>0, <1>4, <1>5, <1>6, <1>7 DEF ProofInv, UnderWay, Takes, Fits, IsHeld, Proven
<1>16. FlagIsRight'
  <2>1. page.parcel.id \in TripParcels \cup {NoTrip}
    BY DEF ActiveShapes, ActivePages, CardsOf
  <2>2. QED
    BY <1>0, <1>6, <2>1 DEF ProofInv, FlagIsRight, Proven
<1>17. UploadsAreRight'
  BY <1>0, <1>6, UploadsStay DEF ActiveShapes
<1>18. QED
  BY <1>6, <1>12, <1>13, <1>14, <1>15, <1>16, <1>17 DEF ProofInv

(* The same when the page that asked is gone.                              *)
LEMMA StepParcelLeft ==
    ASSUME Active!RiderTripAssumption, ActiveShapes, ProofInv, NEW i \in Nat,
           Active!ServeAdvance(i), reqs[i].id \in TripParcels, ~reqs[i].mine,
           Active!MayAdvance(reqs[i].id, reqs[i].to)
    PROVE  ActiveShapes' /\ ProofInv'
<1> DEFINE t == reqs[i].id
           to == reqs[i].to
<1>0. /\ i \in DOMAIN reqs /\ reqs[i].at = "sent" /\ reqs[i].for = "advance"
      /\ Takes(reqs[i]) /\ to \in DOMAIN Before
      /\ t \in TripParcels /\ t \in Active!Trips /\ t \notin TripRides
      /\ UNCHANGED <<page, uploads>>
  BY DEF Active!ServeAdvance, Active!Arrived, ActiveShapes, Takes,
     Active!RiderTripAssumption, Active!Trips
<1>1. i = 1 /\ ~page.loaded /\ \A k \in DOMAIN reqs : reqs[k].at = "sent"
  BY <1>0, Unserved DEF ProofInv
<1>2. /\ trip' = [trip EXCEPT ![t].st = to, ![t].paid = @ \/ to \in Active!Ended]
      /\ reqs' = Active!RemoveAt(reqs, 1)
  BY <1>0, <1>1 DEF Active!ServeAdvance, Active!Answer
<1>3. trip' \in [Active!Trips -> Active!Rows] /\ Proven /\ OneActive' /\ Active!ProofBeforeDelivery'
  <2>1. trip[t].st \in DOMAIN Active!ParcelNext
    BY <1>0 DEF Active!MayAdvance, Active!NextOf
  <2>2. /\ trip[t].st \in Active!Underway /\ to \in Active!Statuses /\ to \in Active!Underway \cup {"DELIVERED"}
    BY <1>0, <2>1 DEF Active!Underway, Before, Active!Statuses, Active!ParcelNext,
       Active!Ended
  <2>3. to = "DELIVERED" => trip[t].proof
    BY <1>0 DEF ProofInv, UnderWay
  <2>4. QED
    BY <1>0, <1>2, <2>2, <2>3, RowMoved DEF ActiveShapes
<1>4. /\ reqs' \in Seq(ActiveRequests)
      /\ \A k \in DOMAIN reqs' : /\ reqs'[k].at = "sent" /\ ~Takes(reqs'[k])
                                 /\ reqs'[k].for # "advance"
  <2>1. /\ reqs' \in Seq(ActiveRequests) /\ DOMAIN reqs' = 1 .. Len(reqs) - 1
        /\ \A k \in DOMAIN reqs' : k + 1 \in DOMAIN reqs
                 /\ reqs'[k] = IF k < 1 THEN reqs[k] ELSE reqs[k + 1]
    BY <1>0, <1>1, <1>2, ActiveRemoved DEF ActiveShapes
  <2>2. \A k \in DOMAIN reqs' : ~(k < 1) /\ k + 1 # 1
    BY <2>1, PlacesOf DEF ActiveShapes
  <2>3. \A k \in DOMAIN reqs : k # 1 => reqs[k].for # "advance"
    BY <1>0, <1>1 DEF ProofInv, InOrder
  <2>4. QED
    BY <1>1, <2>1, <2>2, <2>3 DEF Takes
<1>5. ActiveShapes'
  BY <1>0, <1>3, <1>4 DEF ActiveShapes
<1>6. InOrder' /\ LoadedFirst'
  BY <1>0, <1>1, <1>2, OrderUsed DEF ProofInv, LoadedFirst
<1>7. InSync'
  BY <1>0, <1>1, <1>4 DEF InSync, IsView
<1>8. UnderWay'
  BY <1>4 DEF UnderWay, Takes
<1>9. FlagIsRight' /\ UploadsAreRight'
  BY <1>0, <1>1, <1>3, UploadsStay DEF ProofInv, LoadedFirst, FlagIsRight
<1>10. QED
  BY <1>3, <1>5, <1>6, <1>7, <1>8, <1>9 DEF ProofInv

LEMMA StepServeAdvance ==
    ASSUME Active!RiderTripAssumption, ~Overtake, ActiveShapes, ProofInv, NEW i \in Nat,
           Active!ServeAdvance(i)
    PROVE  ActiveShapes' /\ ProofInv'
<1> DEFINE t == reqs[i].id
           to == reqs[i].to
<1>0. /\ Active!Arrived(i) /\ i \in DOMAIN reqs /\ reqs[i].for = "advance" /\ t \in Active!Trips
      /\ to \in Active!Statuses /\ UNCHANGED <<page, uploads>>
  <2>1. i \in DOMAIN reqs /\ reqs[i] \in ActiveRequests
    BY PlacesOf DEF Active!ServeAdvance, Active!Arrived, ActiveShapes
  <2>2. QED
    BY <2>1 DEF Active!ServeAdvance, ActiveShapes, ActiveRequests
<1>1. CASE ~Active!MayAdvance(t, to)
  BY <1>0, <1>1, RowsStay, OtherAnswered DEF Active!ServeAdvance, ActiveShapes
<1>2. CASE Active!MayAdvance(t, to) /\ t \notin TripParcels
  <2>1. /\ trip' = [trip EXCEPT ![t].st = to, ![t].paid = @ \/ to \in Active!Ended]
        /\ reqs' = Active!Answer(reqs, i, "ok")
    BY <1>2 DEF Active!ServeAdvance
  <2>2. /\ trip' \in [Active!Trips -> Active!Rows] /\ \A u \in Active!Trips \ {t} : trip'[u] = trip[u]
        /\ Proven /\ OneActive' /\ Active!ProofBeforeDelivery'
    BY <1>0, <1>2, <2>1, RowMoved DEF ActiveShapes
  <2>3. HeldKept(trip, trip')
    BY <1>2, <2>2 DEF HeldKept, Active!Trips
  <2>4. QED
    BY <1>0, <1>2, <2>1, <2>2, <2>3, OtherAnswered
<1>3. CASE Active!MayAdvance(t, to) /\ t \in TripParcels
  BY <1>3, StepParcelServed, StepParcelLeft
<1>4. QED
  BY <1>1, <1>2, <1>3

-----------------------------------------------------------------------------
(* The page asks for a new status, and goes on with a reply                *)

LEMMA StepAdvance ==
    ASSUME Active!RiderTripAssumption, ActiveShapes, ProofInv,
           NEW card \in {page.ride, page.parcel},
           Active!Advance(card)
    PROVE  ActiveShapes' /\ ProofInv'
<1> DEFINE to == Active!NextOf(card.id)[card.st]
           r == Active!Request("advance", card.id, to)
<1>0. /\ page \in ActivePages /\ card.id \in Active!Trips /\ card.id # NoTrip
      /\ card.st \in DOMAIN Active!NextOf(card.id)
      /\ card.id \in TripParcels => card = page.parcel /\ card.id \notin TripRides
  BY DEF Active!Advance, ActiveShapes, ActivePages, CardsOf, Active!Trips,
     Active!RiderTripAssumption
<1>1. /\ page' = [page EXCEPT !.updating = TRUE] /\ ~page.updating
      /\ to = "DELIVERED" => page.proofUploaded
      /\ reqs' = Append(reqs, r) /\ UNCHANGED <<trip, uploads>>
  BY DEF Active!Advance, Active!Ask
<1>2. to \in Active!Statuses /\ (card.id \in TripParcels => to \in DOMAIN Before /\ Before[to] = card.st)
  <2>1. CASE card.id \in TripRides
    BY <1>0, <2>1 DEF Active!NextOf, Active!RideNext, Active!Statuses, Active!Ended,
       Active!Underway
  <2>2. CASE card.id \notin TripRides
    BY <1>0, <2>2 DEF Active!NextOf, Active!ParcelNext, Before, Active!Statuses,
       Active!Ended, Active!Underway
  <2>3. QED
    BY <2>1, <2>2
<1>3. /\ r \in ActiveRequests /\ r.for = "advance" /\ r.at = "sent" /\ r.mine
      /\ r.id = card.id /\ r.to = to
  BY <1>0, <1>2, RequestShape
<1> HIDE DEF r, to
<1>4. /\ page' \in ActivePages /\ page'.at = page.at /\ page'.loaded = page.loaded
      /\ page'.updating = TRUE /\ page'.ride = page.ride /\ page'.parcel = page.parcel
      /\ page'.proofUploaded = page.proofUploaded
  BY <1>0, <1>1 DEF ActivePages
<1>5. page.loaded /\ page.at # "away"
  BY <1>0 DEF ProofInv, LoadedFirst
<1>6. \A k \in DOMAIN reqs : reqs[k].for # "advance"
  BY <1>1, <1>5 DEF ProofInv, InOrder
<1>7. /\ reqs' \in Seq(ActiveRequests)
      /\ \A k \in DOMAIN reqs : k \in DOMAIN reqs' /\ reqs'[k] = reqs[k]
      /\ \A k \in DOMAIN reqs' : (k \in DOMAIN reqs /\ reqs'[k] = reqs[k]) \/ reqs'[k] = r
      /\ DOMAIN reqs' \subseteq Nat
  <2>1. /\ reqs' \in Seq(ActiveRequests) /\ Len(reqs') = Len(reqs) + 1
        /\ reqs'[Len(reqs) + 1] = r /\ \A k \in DOMAIN reqs : reqs'[k] = reqs[k]
    BY <1>1, <1>3, Appended DEF ActiveShapes
  <2>2. Len(reqs) \in Nat /\ DOMAIN reqs = 1 .. Len(reqs) /\ DOMAIN reqs' = 1 .. Len(reqs) + 1
    BY <2>1, PlacesOf DEF ActiveShapes
  <2>3. QED
    BY <2>1, <2>2
<1>8. ActiveShapes'
  BY <1>0, <1>1, <1>2, <1>3, <1>4, <1>7 DEF ActiveShapes, Takes
<1>9. InOrder' /\ LoadedFirst'
  BY <1>1, <1>3, <1>4, <1>5, <1>6, OrderAsked DEF ProofInv, LoadedFirst
<1>10. InSync'
  <2>1. ~IsView(r)
    BY <1>3 DEF IsView
  <2>2. Shifted(reqs, reqs', 0)
    BY <1>7, <2>1 DEF Shifted
  <2>3. page'.loaded => View(page'.parcel, 0, reqs, trip)
    BY <1>4 DEF ProofInv, InSync
  <2>4. QED
    BY <1>1, <1>8, <2>2, <2>3, RowsStay, SyncKept DEF ProofInv
<1>11. UnderWay'
  <2> SUFFICES ASSUME NEW k \in DOMAIN reqs', Takes(reqs'[k])
               PROVE  /\ reqs'[k].to = "DELIVERED" => trip'[reqs'[k].id].proof
                      /\ reqs'[k].mine =>
                            /\ Fits(page'.parcel, reqs'[k])
                            /\ page'.proofUploaded <=> reqs'[k].to = "DELIVERED"
                            /\ \A l \in DOMAIN uploads' : ~uploads'[l].mine
    BY DEF UnderWay
  <2>1. reqs'[k] = r /\ card.id \in TripParcels
    BY <1>3, <1>6, <1>7 DEF Takes
  <2>2. card = page.parcel /\ Before[to] = page.parcel.st /\ to \in DOMAIN Before
    BY <1>0, <1>2, <2>1
  <2>3. to = "DELIVERED" => trip[card.id].proof
    BY <1>0, <1>1, <2>2 DEF ProofInv, FlagIsRight
  <2>4. Fits(page.parcel, r)
    BY <1>3, <2>1, <2>2 DEF Fits, IsHeld
  <2>5. page.proofUploaded => to = "DELIVERED"
    BY <1>0, <2>2 DEF ProofInv, FlagIsRight, Before
  <2>6. \A l \in DOMAIN uploads : ~uploads[l].mine
    <3>1. page.parcel.st = "IN_TRANSIT" => page.proofUploaded
      BY <1>1, <2>2 DEF Before
    <3>2. QED
      BY <3>1 DEF ProofInv, UploadsAreRight
  <2>7. QED
    BY <1>1, <1>3, <1>4, <2>1, <2>3, <2>4, <2>5, <2>6
<1>12. FlagIsRight' /\ UploadsAreRight'
  BY <1>1, <1>4 DEF ProofInv, FlagIsRight, UploadsAreRight
<1>13. QED
  BY <1>1, <1>8, <1>9, <1>10, <1>11, <1>12, RowsStay DEF ProofInv

(* The requests when the first one is used.                                *)
LEMMA FirstUsed ==
    ASSUME ActiveShapes, 1 \in DOMAIN reqs, reqs' = Active!RemoveAt(reqs, 1)
    PROVE  /\ reqs' \in Seq(ActiveRequests)
           /\ \A k \in DOMAIN reqs' :
                 k + 1 \in DOMAIN reqs /\ k + 1 > 1 /\ reqs'[k] = reqs[k + 1]
           /\ Shifted(reqs, reqs', 1)
<1>1. /\ reqs' \in Seq(ActiveRequests)
      /\ \A k \in DOMAIN reqs' :
            k + 1 \in DOMAIN reqs /\ k + 1 > 1 /\ reqs'[k] = reqs[k + 1]
  <2>1. /\ reqs' \in Seq(ActiveRequests) /\ Len(reqs) \in Nat /\ DOMAIN reqs' = 1 .. Len(reqs) - 1
        /\ \A k \in DOMAIN reqs' : k + 1 \in DOMAIN reqs
                 /\ reqs'[k] = IF k < 1 THEN reqs[k] ELSE reqs[k + 1]
    BY ActiveRemoved, PlacesOf DEF ActiveShapes
  <2>2. \A k \in DOMAIN reqs' : ~(k < 1) /\ k + 1 > 1
    BY <2>1
  <2>3. QED
    BY <2>1, <2>2
<1>2. ASSUME NEW k \in DOMAIN reqs, k > 1
      PROVE  k - 1 \in DOMAIN reqs' /\ reqs'[k - 1] = reqs[k]
  <2>1. k - 1 \in DOMAIN reqs' /\ k - 1 + 1 = k
    BY <1>2, ActiveRemoved, PlacesOf DEF ActiveShapes
  <2>2. QED
    BY <1>1, <2>1
<1>3. QED
  BY <1>1, <1>2 DEF Shifted

(* What was read agrees with what the page shows of the parcels he has,    *)
(* as far as what is asked for and what the flag and the uploads are about *)
(* goes.                                                                   *)
LEMMA NextView ==
    ASSUME ActiveShapes, ProofInv, page.loaded, 1 \in DOMAIN reqs, reqs[1].at = "ok",
           reqs[1].for \in {"refresh", "silent"}
    PROVE  /\ View(reqs[1].parcel, 1, reqs, trip)
           /\ \A k \in DOMAIN reqs :
                 k > 1 /\ Takes(reqs[k]) /\ reqs[k].mine => Fits(reqs[1].parcel, reqs[k])
           /\ (\A k \in DOMAIN reqs : Takes(reqs[k]) => ~reqs[k].mine) =>
                 Agrees(page.parcel, trip) /\ Agrees(reqs[1].parcel, trip)
           /\ Unmoved => Agrees(page.parcel, trip) /\ Agrees(reqs[1].parcel, trip)
<1>1. IsView(reqs[1]) /\ Shown(reqs[1]) = reqs[1].parcel /\ ~Moved(reqs[1])
  BY DEF IsView, Shown, Moved, Takes
<1>2. View(reqs[1].parcel, 1, reqs, trip)
  BY <1>1 DEF ProofInv, InSync
<1>3. Unmoved => Agrees(page.parcel, trip) /\ Agrees(reqs[1].parcel, trip)
  BY <1>1, ReadAgrees DEF ProofInv
<1>4. \A k \in DOMAIN reqs : Moved(reqs[k]) => Takes(reqs[k]) /\ reqs[k].mine
  BY DEF Moved, ProofInv, InOrder
<1>5. ASSUME NEW k \in DOMAIN reqs, k > 1, Takes(reqs[k]), reqs[k].mine
      PROVE  Fits(reqs[1].parcel, reqs[k])
  <2>1. CASE Moved(reqs[k])
    BY <1>2, <1>5, <2>1 DEF View
  <2>2. CASE ~Moved(reqs[k])
    <3>1. Unmoved
      BY <1>5, <2>2 DEF Unmoved, Moved, Takes, ProofInv, InOrder
    <3>2. Fits(page.parcel, reqs[k])
      BY <1>5 DEF ProofInv, UnderWay
    <3>3. QED
      BY <1>3, <1>5, <3>1, <3>2, SameFits
  <2>3. QED
    BY <2>1, <2>2
<1>6. QED
  BY <1>2, <1>3, <1>4, <1>5 DEF Unmoved

LEMMA StepShowActive ==
    ASSUME Active!RiderTripAssumption, ~Overtake, ActiveShapes, ProofInv, NEW i \in Nat,
           Active!ShowActive(i)
    PROVE  ActiveShapes' /\ ProofInv'
<1> DEFINE c == reqs[1].parcel
           b == page.proofUploaded /\ c.st = "IN_TRANSIT"
           l == page.loading /\ reqs[1].for = "silent"
<1>0. /\ i = 1 /\ 1 \in DOMAIN reqs /\ reqs[1].mine /\ reqs[1].at = "ok"
      /\ reqs[1].for \in {"refresh", "silent"} /\ reqs[1] \in ActiveRequests
      /\ c \in CardsOf(TripParcels)
      /\ reqs' = Active!RemoveAt(reqs, 1) /\ UNCHANGED <<trip, uploads>>
  <2>1. 1 \in DOMAIN reqs => reqs[1] \in ActiveRequests
    BY PlacesOf DEF ActiveShapes
  <2>2. QED
    BY <2>1 DEF Active!ShowActive, Active!Due, Active!Using, ActiveRequests
<1>1. /\ page' \in ActivePages /\ page'.at = "open" /\ page'.loaded = TRUE
      /\ page'.updating = page.updating
      /\ page'.parcel = c /\ page'.proofUploaded = b
  <2>1. /\ page' = [page EXCEPT !.ride = reqs[1].ride, !.parcel = c, !.proofUploaded = b,
                                !.loaded = TRUE, !.loading = l, !.at = "open"]
        /\ b \in BOOLEAN /\ l \in BOOLEAN /\ reqs[1].ride \in CardsOf(TripRides)
        /\ page \in ActivePages
    BY <1>0 DEF Active!ShowActive, Active!ProofStays, ActiveShapes, ActiveRequests
  <2> HIDE DEF b, l, c
  <2>2. QED
    BY <1>0, <2>1 DEF ActivePages
<1>2. /\ reqs' \in Seq(ActiveRequests)
      /\ \A k \in DOMAIN reqs' :
            k + 1 \in DOMAIN reqs /\ k + 1 > 1 /\ reqs'[k] = reqs[k + 1]
      /\ Shifted(reqs, reqs', 1)
  BY <1>0, FirstUsed
<1>3. ActiveShapes'
  BY <1>0, <1>1, <1>2 DEF ActiveShapes
<1>4. InOrder' /\ LoadedFirst'
  BY <1>0, <1>1, OrderUsed DEF ProofInv, LoadedFirst
<1>5. View(c, 1, reqs, trip)
  <2>1. IsView(reqs[1]) /\ Shown(reqs[1]) = c
    BY <1>0 DEF IsView, Shown
  <2>2. QED
    BY <1>0, <2>1 DEF ProofInv, InSync
<1>6. InSync'
  BY <1>0, <1>1, <1>2, <1>3, <1>5, RowsStay, SyncKept DEF ProofInv
<1>7. CASE ~page.loaded
  <2>1. ~page.updating /\ ~page.proofUploaded /\ page.parcel.id = NoTrip
    BY <1>7 DEF ProofInv, LoadedFirst
  <2>2. \A k \in DOMAIN reqs : Takes(reqs[k]) => ~reqs[k].mine
    BY <2>1 DEF ProofInv, InOrder, Takes
  <2>3. UnderWay'
    BY <1>0, <1>2, <2>2 DEF ProofInv, UnderWay
  <2>4. \A k \in DOMAIN uploads : ~uploads[k].mine
    <3>1. \A k \in DOMAIN uploads : uploads[k] \in Active!Uploads
      BY PlacesOf DEF ActiveShapes
    <3>2. \A k \in DOMAIN uploads : uploads[k].id # NoTrip
      BY <3>1 DEF Active!Uploads, Active!RiderTripAssumption, Active!Trips
    <3>3. QED
      BY <2>1, <3>2 DEF ProofInv, UploadsAreRight
  <2>5. FlagIsRight' /\ UploadsAreRight'
    BY <1>0, <1>1, <2>1, <2>4 DEF FlagIsRight, UploadsAreRight
  <2>6. QED
    BY <1>0, <1>3, <1>4, <1>6, <2>3, <2>5, RowsStay DEF ProofInv
<1>8. CASE page.loaded
  <2>1. /\ \A k \in DOMAIN reqs :
              k > 1 /\ Takes(reqs[k]) /\ reqs[k].mine => Fits(c, reqs[k])
        /\ (\A k \in DOMAIN reqs : Takes(reqs[k]) => ~reqs[k].mine) =>
              Agrees(page.parcel, trip) /\ Agrees(c, trip)
        /\ Unmoved => Agrees(page.parcel, trip) /\ Agrees(c, trip)
    BY <1>0, <1>8, NextView
  <2>2. UnderWay'
    <3> SUFFICES ASSUME NEW k \in DOMAIN reqs', Takes(reqs'[k])
                 PROVE  /\ reqs'[k].to = "DELIVERED" => trip'[reqs'[k].id].proof
                        /\ reqs'[k].mine =>
                              /\ Fits(page'.parcel, reqs'[k])
                              /\ page'.proofUploaded <=> reqs'[k].to = "DELIVERED"
                              /\ \A m \in DOMAIN uploads' : ~uploads'[m].mine
      BY DEF UnderWay
    <3> DEFINE r == reqs[k + 1]
    <3>1. k + 1 \in DOMAIN reqs /\ k + 1 > 1 /\ reqs'[k] = r /\ Takes(r)
      BY <1>2
    <3>2. /\ r.to = "DELIVERED" => trip[r.id].proof
          /\ r.mine => /\ page.proofUploaded <=> r.to = "DELIVERED"
                       /\ \A m \in DOMAIN uploads : ~uploads[m].mine
      BY <3>1 DEF ProofInv, UnderWay
    <3>3. r.mine => Fits(c, r)
      BY <2>1, <3>1
    <3>4. r.mine /\ r.to = "DELIVERED" => c.st = "IN_TRANSIT"
      BY <3>3 DEF Fits, Before, Held
    <3>5. QED
      BY <1>0, <1>1, <3>1, <3>2, <3>3, <3>4
  <2>3. FlagIsRight'
    <3>1. SUFFICES ASSUME page.proofUploaded, c.st = "IN_TRANSIT", c.id # NoTrip
                   PROVE  trip[c.id].proof
      BY <1>0, <1>1 DEF FlagIsRight
    <3>2. IsHeld(c)
      BY <1>0, <3>1 DEF IsHeld, Held, CardsOf
    <3>3. CASE Unmoved
      <4>1. IsHeld(page.parcel) /\ page.parcel.id = c.id
        BY <2>1, <3>2, <3>3, AlikeHeld
      <4>2. page.parcel.id # NoTrip
        BY <3>1, <4>1
      <4>3. QED
        BY <3>1, <4>1, <4>2 DEF ProofInv, FlagIsRight
    <3>4. CASE ~Unmoved
      <4>1. PICK k \in DOMAIN reqs : Moved(reqs[k])
        BY <3>4 DEF Unmoved
      <4>2. reqs[k].mine /\ Takes(reqs[k]) /\ k > 1
        <5>1. k = 1 \/ k > 1
          BY PlacesOf DEF ActiveShapes
        <5>2. k # 1
          BY <1>0, <4>1 DEF Moved, Takes
        <5>3. QED
          BY <4>1, <5>1, <5>2 DEF Moved, ProofInv, InOrder
      <4>3. reqs[k].to = "DELIVERED" /\ trip[reqs[k].id].proof
        BY <3>1, <4>2 DEF ProofInv, UnderWay
      <4>4. c.id = reqs[k].id
        BY <2>1, <4>2, <4>3 DEF Fits, Before, Held
      <4>5. QED
        BY <4>3, <4>4
    <3>5. QED
      BY <3>3, <3>4
  <2>4. UploadsAreRight'
    <3>1. ASSUME NEW m \in DOMAIN uploads, uploads[m].mine
          PROVE  /\ c.id = uploads[m].id /\ c.st = "IN_TRANSIT"
                 /\ ~page.proofUploaded
                 /\ uploads[m].at = "ok" => trip[uploads[m].id].proof
      <4>1. /\ page.parcel.id = uploads[m].id /\ page.parcel.st = "IN_TRANSIT"
            /\ ~page.proofUploaded
            /\ uploads[m].at = "ok" => trip[uploads[m].id].proof
        BY <3>1 DEF ProofInv, UploadsAreRight
      <4>2. \A k \in DOMAIN reqs : Takes(reqs[k]) => ~reqs[k].mine
        BY <3>1 DEF ProofInv, UnderWay
      <4>3. uploads[m].id \in TripParcels
        <5>1. uploads[m] \in Active!Uploads
          BY PlacesOf DEF ActiveShapes
        <5>2. QED
          BY <5>1 DEF Active!Uploads
      <4>4. IsHeld(page.parcel)
        BY <4>1, <4>3 DEF IsHeld, Held
      <4>5. c.id = page.parcel.id /\ c.st = page.parcel.st
        BY <2>1, <4>2, <4>4, AlikeHeld
      <4>6. QED
        BY <4>1, <4>5
    <3>2. QED
      BY <1>0, <1>1, <3>1 DEF ProofInv, UploadsAreRight
  <2>5. QED
    BY <1>0, <1>3, <1>4, <1>6, <2>2, <2>3, <2>4, RowsStay DEF ProofInv
<1>9. QED
  BY <1>7, <1>8

LEMMA StepAdvanced ==
    ASSUME Active!RiderTripAssumption, ~Overtake, ActiveShapes, ProofInv, NEW i \in Nat,
           Active!Advanced(i)
    PROVE  ActiveShapes' /\ ProofInv'
<1> DEFINE r == reqs[1]
           card == IF r.to \in Active!Ended THEN Active!NoCard ELSE [id |-> r.id, st |-> r.to, paid |-> FALSE]
<1>0. /\ 1 \in DOMAIN reqs /\ r.mine /\ r.at = "ok" /\ r.for = "advance"
      /\ r \in ActiveRequests /\ r.id \in Active!Trips /\ r.to \in Active!Statuses
      /\ page' = IF r.id \in TripRides THEN [page EXCEPT !.ride = card, !.updating = FALSE]
                 ELSE [page EXCEPT !.parcel = card, !.updating = FALSE]
      /\ reqs' = Active!RemoveAt(reqs, 1) /\ UNCHANGED <<trip, uploads>>
      /\ page \in ActivePages
  <2>1. i = 1 /\ 1 \in DOMAIN reqs
    BY DEF Active!Advanced, Active!Due
  <2>2. r \in ActiveRequests
    BY <2>1, PlacesOf DEF ActiveShapes
  <2>3. QED
    BY <2>1, <2>2 DEF Active!Advanced, Active!Due, Active!Using, ActiveShapes,
       ActiveRequests
<1>1. page.loaded /\ page.at # "away"
  BY <1>0 DEF ProofInv, InOrder, LoadedFirst
<1>2. CASE r.id \in TripRides
  <2>1. card \in CardsOf(TripRides)
    BY <1>0, <1>2, NoCards DEF CardsOf
  <2> HIDE DEF card
  <2>2. /\ page' \in ActivePages /\ page'.at = page.at /\ page'.loaded = page.loaded
        /\ page'.parcel = page.parcel /\ page'.proofUploaded = page.proofUploaded
    BY <1>0, <1>2, <2>1 DEF ActivePages
  <2>3. ~Moved(reqs[1])
    BY <1>2 DEF Active!RiderTripAssumption, Moved, Takes
  <2>4. LoadedFirst'
    BY <1>1, <2>2 DEF LoadedFirst
  <2>5. QED
    BY <1>0, <2>2, <2>3, <2>4, ReplyUsed
<1>3. CASE r.id \notin TripRides
  <2>1. r.id \in TripParcels /\ Takes(r) /\ IsView(r) /\ Shown(r) = card
    BY <1>0, <1>3 DEF Active!Trips, Takes, IsView, Shown
  <2>2. card \in CardsOf(TripParcels)
    BY <1>0, <2>1, NoCards DEF CardsOf
  <2>3. r.to \in Active!Ended => card.id = NoTrip
    BY NoCards
  <2> HIDE DEF card
  <2>4. /\ page' \in ActivePages /\ page'.at = page.at /\ page'.loaded = page.loaded
        /\ page'.parcel = card /\ page'.proofUploaded = page.proofUploaded
    BY <1>0, <1>3, <2>2 DEF ActivePages
  <2>5. /\ reqs' \in Seq(ActiveRequests)
        /\ \A k \in DOMAIN reqs' :
              k + 1 \in DOMAIN reqs /\ k + 1 > 1 /\ reqs'[k] = reqs[k + 1]
        /\ Shifted(reqs, reqs', 1)
    BY <1>0, FirstUsed
  <2>6. ActiveShapes'
    BY <1>0, <2>4, <2>5 DEF ActiveShapes
  <2>7. InOrder' /\ LoadedFirst'
    BY <1>0, <1>1, <2>4, OrderUsed DEF ProofInv, LoadedFirst
  <2>8. View(card, 1, reqs, trip)
    BY <1>0, <2>1 DEF ProofInv, InSync
  <2>9. InSync'
    BY <1>0, <2>4, <2>5, <2>6, <2>8, RowsStay, SyncKept DEF ProofInv
  <2>10. \A k \in DOMAIN reqs' : ~Takes(reqs'[k])
    <3>1. \A k \in DOMAIN reqs : k > 1 => reqs[k].for # "advance"
      BY <1>0 DEF ProofInv, InOrder
    <3>2. QED
      BY <2>5, <3>1 DEF Takes
  <2>11. UnderWay'
    BY <2>10 DEF UnderWay, Takes
  <2>12. /\ page.proofUploaded <=> r.to = "DELIVERED"
         /\ \A m \in DOMAIN uploads : ~uploads[m].mine
    BY <1>0, <2>1 DEF ProofInv, UnderWay
  <2>13. FlagIsRight' /\ UploadsAreRight'
    BY <1>0, <2>3, <2>4, <2>12 DEF FlagIsRight, UploadsAreRight, Active!Ended
  <2>14. QED
    BY <1>0, <2>6, <2>7, <2>9, <2>11, <2>13, RowsStay DEF ProofInv
<1>4. QED
  BY <1>2, <1>3

LEMMA StepFailed ==
    ASSUME ~Overtake, ActiveShapes, ProofInv, NEW i \in Nat,
           Active!ReadFailed(i) \/ Active!AdvanceFailed(i)
    PROVE  ActiveShapes' /\ ProofInv'
<1>0. /\ 1 \in DOMAIN reqs /\ reqs[1].mine /\ reqs[1].at = "error"
      /\ reqs' = Active!RemoveAt(reqs, 1) /\ UNCHANGED <<trip, uploads>> /\ page \in ActivePages
  BY DEF Active!ReadFailed, Active!AdvanceFailed, Active!Due, Active!Using, ActiveShapes
<1>1. ~Moved(reqs[1])
  BY <1>0 DEF Moved
<1>2. CASE Active!ReadFailed(i)
  <2> DEFINE l == page.loading /\ reqs[1].for = "silent"
  <2>1. page' = [page EXCEPT !.loading = l, !.at = "open"] /\ l \in BOOLEAN
    BY <1>2 DEF Active!ReadFailed, Active!Due
  <2> HIDE DEF l
  <2>2. /\ page' \in ActivePages /\ page'.at = "open" /\ page'.loaded = page.loaded
        /\ page'.updating = page.updating /\ page'.ride = page.ride
        /\ page'.parcel = page.parcel /\ page'.proofUploaded = page.proofUploaded
    BY <1>0, <2>1 DEF ActivePages
  <2>3. LoadedFirst'
    BY <2>2 DEF ProofInv, LoadedFirst
  <2>4. QED
    BY <1>0, <1>1, <2>2, <2>3, ReplyUsed
<1>3. CASE Active!AdvanceFailed(i)
  <2>1. page' = [page EXCEPT !.updating = FALSE] /\ reqs[1].for = "advance"
    BY <1>3 DEF Active!AdvanceFailed, Active!Due
  <2>2. /\ page' \in ActivePages /\ page'.at = page.at /\ page'.loaded = page.loaded
        /\ page'.updating = FALSE /\ page'.ride = page.ride
        /\ page'.parcel = page.parcel /\ page'.proofUploaded = page.proofUploaded
    BY <1>0, <2>1 DEF ActivePages
  <2>3. LoadedFirst'
    BY <2>2 DEF ProofInv, LoadedFirst
  <2>4. QED
    BY <1>0, <1>1, <2>1, <2>2, <2>3, ReplyUsed
<1>4. QED
  BY <1>2, <1>3

-----------------------------------------------------------------------------
LEMMA InitProven ==
    ASSUME Active!Init
    PROVE  ActiveShapes /\ ProofInv
<1>1. /\ page = Active!Away /\ reqs = <<>> /\ uploads = <<>>
      /\ trip \in [Active!Trips -> [st : {"PENDING"}, method : {"MPESA", "CASH"},
                                    paid : {FALSE}, proof : {FALSE}]]
  BY DEF Active!Init
<1>2. DOMAIN reqs = {} /\ DOMAIN uploads = {} /\ reqs \in Seq(ActiveRequests) /\ uploads \in Seq(Active!Uploads)
  BY <1>1
<1>3. IsBlank(page)
  BY <1>1, AwayShape
<1>4. \A t \in TripParcels : trip[t].st = "PENDING"
  BY <1>1 DEF Active!Trips
<1>5. trip \in [Active!Trips -> Active!Rows]
  BY <1>1 DEF Active!Rows, Active!Statuses
<1>6. "PENDING" \notin Active!Underway
  BY DEF Active!Underway, Active!RideNext, Active!ParcelNext
<1>7. ActiveShapes
  BY <1>2, <1>3, <1>5 DEF ActiveShapes, IsBlank
<1>8. OneActive /\ Active!ProofBeforeDelivery
  BY <1>4, <1>6 DEF OneActive, Active!ProofBeforeDelivery
<1>9. InOrder /\ UnderWay /\ UploadsAreRight /\ LoadedFirst /\ FlagIsRight /\ InSync
  BY <1>2, <1>3 DEF InOrder, UnderWay, UploadsAreRight, IsBlank, LoadedFirst,
                    FlagIsRight, InSync
<1>10. QED
  BY <1>7, <1>8, <1>9 DEF ProofInv

(* A trip is accepted or called off: neither is under the page's eyes yet. *)
LEMMA StatusOnly ==
    ASSUME ActiveShapes, ProofInv, NEW t \in Active!Trips, NEW st,
           st \in Active!Statuses \ (Held \cup {"DELIVERED"}),
           trip[t].st \notin Held, trip' = [trip EXCEPT ![t].st = st], OneActive',
           UNCHANGED <<page, reqs, uploads>>
    PROVE  ActiveShapes' /\ ProofInv'
<1> DEFINE y == [trip[t] EXCEPT !.st = st]
<1>1. y \in Active!Rows /\ y.st = st /\ y.proof = trip[t].proof
  BY DEF ActiveShapes, Active!Rows
<1>2. trip' = [trip EXCEPT ![t] = y]
  BY DEF ActiveShapes
<1> HIDE DEF y
<1>3. /\ trip' \in [Active!Trips -> Active!Rows] /\ trip'[t].st = st /\ trip'[t].proof = trip[t].proof
      /\ \A u \in Active!Trips \ {t} : trip'[u] = trip[u]
  BY <1>1, <1>2 DEF ActiveShapes
<1>4. HeldKept(trip, trip')
  BY <1>3 DEF HeldKept, Active!Trips
<1>5. Proven /\ Active!ProofBeforeDelivery'
  BY <1>3 DEF Proven, ProofInv, Active!ProofBeforeDelivery, Active!Trips
<1>6. QED
  BY <1>3, <1>4, <1>5, RowsOnly

(* The dashboard, passenger or sender, and payments: Accept, Cancel and    *)
(* PromptEnds.                                                             *)
LEMMA StepWorld ==
    ASSUME OneParcel, ActiveShapes, ProofInv, NEW t \in Active!Trips,
           Active!Accept(t) \/ Active!Cancel(t) \/ Active!PromptEnds(t)
    PROVE  ActiveShapes' /\ ProofInv'
<1>1. CASE Active!Accept(t)
  <2>1. /\ trip[t].st = "PENDING" /\ trip' = [trip EXCEPT ![t].st = "ACCEPTED"]
        /\ t \in TripParcels => \A u \in TripParcels : trip[u].st \notin Active!Underway
        /\ UNCHANGED <<page, reqs, uploads>>
    BY <1>1 DEF Active!Accept, Active!Active
  <2>2. "ACCEPTED" \in Active!Statuses \ (Held \cup {"DELIVERED"}) /\ "PENDING" \notin Held
    BY DEF Active!Statuses, Held, Active!Underway, Active!RideNext
  <2>3. OneActive'
    <3>1. \A u \in TripParcels : u # t => trip'[u].st = trip[u].st
      BY <2>1 DEF ActiveShapes, Active!Trips
    <3>2. QED
      BY <2>1, <3>1 DEF ProofInv, OneActive
  <2>4. QED
    BY <2>1, <2>2, <2>3, StatusOnly
<1>2. CASE Active!Cancel(t)
  <2>1. /\ trip[t].st = "ACCEPTED" /\ trip' = [trip EXCEPT ![t].st = "CANCELLED"]
        /\ UNCHANGED <<page, reqs, uploads>>
    BY <1>2 DEF Active!Cancel
  <2>2. /\ "CANCELLED" \in Active!Statuses \ (Held \cup {"DELIVERED"}) /\ "ACCEPTED" \notin Held
        /\ "CANCELLED" \notin Active!Underway
    BY DEF Active!Statuses, Held, Active!Underway, Active!RideNext, Active!ParcelNext
  <2>3. OneActive'
    <3>1. \A u \in TripParcels : trip'[u].st = trip[u].st \/ trip'[u].st = "CANCELLED"
      BY <2>1 DEF ActiveShapes, Active!Trips, Active!Rows
    <3>2. QED
      BY <2>2, <3>1 DEF ProofInv, OneActive
  <2>4. QED
    BY <2>1, <2>2, <2>3, StatusOnly
<1>3. CASE Active!PromptEnds(t)
  <2>1. PICK b \in BOOLEAN : trip' = [trip EXCEPT ![t].paid = b]
    BY <1>3 DEF Active!PromptEnds
  <2> DEFINE y == [trip[t] EXCEPT !.paid = b]
  <2>2. y \in Active!Rows /\ y.st = trip[t].st /\ y.proof = trip[t].proof
    BY DEF ActiveShapes, Active!Rows
  <2>3. trip' = [trip EXCEPT ![t] = y]
    BY <2>1 DEF ActiveShapes
  <2> HIDE DEF y
  <2>4. /\ trip' \in [Active!Trips -> Active!Rows]
        /\ \A u \in Active!Trips : trip'[u].st = trip[u].st /\ trip'[u].proof = trip[u].proof
    BY <2>2, <2>3 DEF ActiveShapes
  <2>5. HeldKept(trip, trip') /\ Proven /\ OneActive' /\ Active!ProofBeforeDelivery'
    BY <2>4 DEF HeldKept, Proven, ProofInv, OneActive, Active!ProofBeforeDelivery,
       Active!Trips
  <2>6. QED
    BY <1>3, <2>4, <2>5, RowsOnly DEF Active!PromptEnds
<1>4. QED
  BY <1>1, <1>2, <1>3

LEMMA StepAsks ==
    ASSUME ActiveShapes, ProofInv,
           Active!Refresh \/ Active!Poll \/ (\E t \in Active!Trips : Active!NewsArrives(t))
    PROVE  ActiveShapes' /\ ProofInv'
<1>1. CASE Active!Refresh
  <2>1. page' = [page EXCEPT !.loading = TRUE] /\ page \in ActivePages
    BY <1>1 DEF Active!Refresh, ActiveShapes
  <2>2. /\ page' \in ActivePages /\ page'.at = page.at /\ page'.loaded = page.loaded
        /\ page'.updating = page.updating /\ page'.ride = page.ride
        /\ page'.parcel = page.parcel /\ page'.proofUploaded = page.proofUploaded
    BY <2>1 DEF ActivePages
  <2>3. QED
    BY <1>1, <2>2, ReadAsked DEF Active!Refresh
<1>2. CASE UNCHANGED <<trip, page, uploads>> /\ Active!SilentRefresh
  <2>1. CASE Active!Ask(Active!Read("silent"))
    BY <1>2, <2>1, ReadAsked DEF ActiveShapes
  <2>2. CASE reqs' = reqs
    BY <1>2, <2>2, RowsStay, RowsOnly DEF ActiveShapes
  <2>3. QED
    BY <1>2, <2>1, <2>2 DEF Active!SilentRefresh
<1>3. CASE UNCHANGED <<trip, page, uploads, reqs>>
  BY <1>3, RowsStay, RowsOnly DEF ActiveShapes
<1>4. QED
  BY <1>1, <1>2, <1>3 DEF Active!Poll, Active!NewsArrives

LEMMA StepUploads ==
    ASSUME Active!RiderTripAssumption, ActiveShapes, ProofInv, NEW i \in Nat,
           Active!ProofSelected(i) \/ Active!ServeProof(i) \/ Active!UploadFails(i)
    PROVE  ActiveShapes' /\ ProofInv'
<1>1. CASE Active!ProofSelected(i)
  BY <1>1, StepProofSelected
<1>2. CASE Active!ServeProof(i)
  <2> DEFINE t == uploads[i].id
             y == [trip[t] EXCEPT !.proof = TRUE]
  <2>1. /\ i \in DOMAIN uploads /\ uploads[i].at = "sent" /\ trip' = [trip EXCEPT ![t].proof = TRUE]
        /\ uploads' = Active!Answer(uploads, i, "ok") /\ UNCHANGED <<page, reqs>>
    BY <1>2 DEF Active!ServeProof
  <2>2. t \in Active!Trips
    <3>1. uploads[i] \in Active!Uploads
      BY <2>1, PlacesOf DEF ActiveShapes
    <3>2. QED
      BY <3>1 DEF Active!Uploads, Active!Trips
  <2>3. y \in Active!Rows /\ y.st = trip[t].st /\ y.proof = TRUE
    BY <2>2 DEF ActiveShapes, Active!Rows
  <2>4. trip' = [trip EXCEPT ![t] = y]
    BY <2>1, <2>2 DEF ActiveShapes
  <2> HIDE DEF y
  <2>5. /\ trip' \in [Active!Trips -> Active!Rows] /\ trip'[t].proof
        /\ \A u \in Active!Trips : trip'[u].st = trip[u].st /\ (trip[u].proof => trip'[u].proof)
    BY <2>2, <2>3, <2>4 DEF ActiveShapes
  <2>6. HeldKept(trip, trip') /\ Proven /\ OneActive' /\ Active!ProofBeforeDelivery'
    BY <2>5 DEF HeldKept, Proven, ProofInv, OneActive, Active!ProofBeforeDelivery,
       Active!Trips
  <2>7. QED
    BY <2>1, <2>5, <2>6, UploadAnswered
<1>3. CASE Active!UploadFails(i)
  BY <1>3, RowsStay, UploadAnswered DEF Active!UploadFails, ActiveShapes
<1>4. QED
  BY <1>1, <1>2, <1>3

LEMMA StepRequests ==
    ASSUME Active!RiderTripAssumption, ~Overtake, ActiveShapes, ProofInv, NEW i \in Nat,
           \/ Active!ShowActive(i) \/ Active!ReadFailed(i) \/ Active!Advanced(i)
           \/ Active!AdvanceFailed(i) \/ Active!ServeRead(i) \/ Active!ServeAdvance(i)
           \/ Active!RequestFails(i)
    PROVE  ActiveShapes' /\ ProofInv'
<1>1. CASE Active!RequestFails(i)
  BY <1>1, RowsStay, OtherAnswered DEF Active!RequestFails, ActiveShapes
<1>2. QED
  BY <1>1, StepShowActive, StepFailed, StepAdvanced, StepServeRead, StepServeAdvance

LEMMA StepProven ==
    ASSUME Active!RiderTripAssumption, OneParcel, OneUpload, ~Overtake, ActiveShapes,
           ProofInv, [Active!Next]_Active!vars
    PROVE  ActiveShapes' /\ ProofInv'
<1>1. CASE UNCHANGED <<trip, page, reqs, uploads>>
  BY <1>1, RowsStay, RowsOnly DEF ActiveShapes
<1>2. ASSUME NEW i \in 1 .. MaxRequests,
             \/ Active!ShowActive(i) \/ Active!ReadFailed(i) \/ Active!Advanced(i)
             \/ Active!AdvanceFailed(i) \/ Active!ServeRead(i) \/ Active!ServeAdvance(i)
             \/ Active!RequestFails(i)
      PROVE  ActiveShapes' /\ ProofInv'
  BY <1>2, StepRequests DEF Active!RiderTripAssumption
<1>3. ASSUME NEW i \in 1 .. MaxUploads,
             Active!ProofSelected(i) \/ Active!ServeProof(i) \/ Active!UploadFails(i)
      PROVE  ActiveShapes' /\ ProofInv'
  BY <1>3, StepUploads DEF Active!RiderTripAssumption
<1>4. CASE Active!Connect \/ Active!Drop \/ UNCHANGED Active!vars
  BY <1>1, <1>4 DEF Active!Connect, Active!Drop, Active!vars
<1>5. QED
  BY <1>2, <1>3, <1>4, StepOpen, StepAsks, StepLeave, StepSelectProof, StepAdvance,
     StepWorld
     DEF Active!Next

(* ProofBeforeDelivery, for a rider who has one parcel at a time and       *)
(* uploads a proof only while the page has none, when requests get to the  *)
(* server, and their answers to the page, in the order in which they were  *)
(* sent: a parcel is DELIVERED only with its own proof on the row, for any *)
(* number of trips, reloads, polls, failed requests and uploads, and pages *)
(* left with a request in flight.  uploadProof and updateParcelStatus on   *)
(* the server, onProofSelected, advanceParcel, refresh and silentRefresh   *)
(* on the page; the server itself asks for no proof.                       *)
THEOREM ProvenBeforeDelivery ==
    ASSUME OneParcel, OneUpload, ~Overtake
    PROVE  AppSpec => []ProofBeforeDelivery
<1>1. AppInit => ActiveShapes /\ ProofInv
  BY InitProven DEF AppInit
<1>2. ActiveShapes /\ ProofInv /\ [AppNext]_appVars => ActiveShapes' /\ ProofInv'
  <2>1. [AppNext]_appVars => [Active!Next]_Active!vars
    BY DEF AppNext, OnDashboard, OnActive, appVars, activeVars,
           Active!vars
  <2>2. QED
    BY <2>1, StepProven, RiderAppAssumption
<1>3. ProofInv => ProofBeforeDelivery
  BY DEF ProofInv, ProofBeforeDelivery
<1>4. QED
  BY <1>1, <1>2, <1>3, PTL DEF AppSpec

-----------------------------------------------------------------------------
(* The chat page                                                           *)

(* An element is taken out, wherever it stands.                            *)
LEMMA Removed ==
    ASSUME NEW S, NEW s \in Seq(S), NEW i \in DOMAIN s, NEW z, z = RemoveAt(s, i)
    PROVE  /\ z \in Seq(S) /\ DOMAIN z = 1 .. Len(s) - 1
           /\ \A k \in DOMAIN z : /\ k \in DOMAIN s /\ k + 1 \in DOMAIN s
                                  /\ z[k] = IF k < i THEN s[k] ELSE s[k + 1]
<1>1. z = Cut(s, i)
  BY DEF Cut, RemoveAt
<1>2. QED
  BY <1>1, WithoutOne

(* What a sequence has of a set: any of it, at most one, one before one of *)
(* another set.                                                            *)
Has(s, T) == \E i \in DOMAIN s : s[i] \in T
Single(s, T) == \A i, j \in DOMAIN s : s[i] \in T /\ s[j] \in T => i = j
Ahead(s, A, B) == \E i, j \in DOMAIN s : i < j /\ s[i] \in A /\ s[j] \in B

(* The empty sequence has nothing.                                         *)
LEMMA HasNothing ==
    ASSUME NEW s, s = <<>>, NEW T, NEW B
    PROVE  ~Has(s, T) /\ Single(s, T) /\ ~Ahead(s, T, B)
  BY DEF Has, Single, Ahead

(* An element is put at the end.                                           *)
LEMMA HasMore ==
    ASSUME NEW S, NEW s \in Seq(S), NEW x \in S, NEW z, z = Append(s, x), NEW T, NEW B
    PROVE  /\ Has(z, T) <=> Has(s, T) \/ x \in T
           /\ Single(s, T) /\ ~(Has(s, T) /\ x \in T) => Single(z, T)
           /\ Ahead(s, T, B) \/ (Has(s, T) /\ x \in B) => Ahead(z, T, B)
<1>1. /\ z \in Seq(S) /\ Len(z) = Len(s) + 1 /\ z[Len(s) + 1] = x
      /\ \A k \in DOMAIN s : z[k] = s[k]
  BY Appended
<1>2. /\ DOMAIN s = 1 .. Len(s) /\ DOMAIN z = 1 .. Len(s) + 1 /\ Len(s) \in Nat
  BY <1>1, PlacesOf
<1>3. /\ \A k \in DOMAIN z : k \in DOMAIN s \/ k = Len(s) + 1
      /\ \A k \in DOMAIN s : k \in DOMAIN z /\ k < Len(s) + 1
      /\ Len(s) + 1 \in DOMAIN z
  BY <1>2
<1>4. Has(z, T) <=> Has(s, T) \/ x \in T
  BY <1>1, <1>3 DEF Has
<1>5. Single(s, T) /\ ~(Has(s, T) /\ x \in T) => Single(z, T)
  BY <1>1, <1>3 DEF Has, Single
<1>6. Ahead(s, T, B) \/ (Has(s, T) /\ x \in B) => Ahead(z, T, B)
  BY <1>1, <1>3 DEF Has, Ahead
<1>7. QED
  BY <1>4, <1>5, <1>6

(* The i-th element is taken out.                                          *)
LEMMA HasLess ==
    ASSUME NEW S, NEW s \in Seq(S), NEW i \in DOMAIN s, NEW z, z = RemoveAt(s, i), NEW T
    PROVE  /\ Has(z, T) => Has(s, T)
           /\ Has(s, T) /\ s[i] \notin T => Has(z, T)
           /\ Single(s, T) => Single(z, T)
           /\ Single(s, T) /\ s[i] \in T => ~Has(z, T)
<1>1. /\ DOMAIN z = 1 .. Len(s) - 1
      /\ \A k \in DOMAIN z : /\ k \in DOMAIN s /\ k + 1 \in DOMAIN s
                             /\ z[k] = IF k < i THEN s[k] ELSE s[k + 1]
  BY Removed
<1>2. DOMAIN s = 1 .. Len(s) /\ Len(s) \in Nat
  BY PlacesOf
<1> DEFINE Old(k) == IF k < i THEN k ELSE k + 1
<1>3. /\ \A k \in DOMAIN z : Old(k) \in DOMAIN s /\ Old(k) # i /\ z[k] = s[Old(k)]
      /\ \A k, l \in DOMAIN z : Old(k) = Old(l) => k = l
      /\ \A l \in DOMAIN s : l # i => \E k \in DOMAIN z : Old(k) = l
  <2>1. \A k \in DOMAIN z : k \in Int /\ Old(k) \in DOMAIN s /\ Old(k) # i /\ z[k] = s[Old(k)]
    BY <1>1, <1>2
  <2>2. \A k, l \in DOMAIN z : Old(k) = Old(l) => k = l
    BY <1>1, <1>2
  <2>3. ASSUME NEW l \in DOMAIN s, l # i PROVE \E k \in DOMAIN z : Old(k) = l
    <3>1. CASE l < i
      <4>1. l \in DOMAIN z /\ Old(l) = l
        BY <1>1, <1>2, <3>1
      <4>2. QED
        BY <4>1
    <3>2. CASE ~(l < i)
      <4>1. l - 1 \in DOMAIN z /\ Old(l - 1) = l
        BY <1>1, <1>2, <2>3, <3>2
      <4>2. QED
        BY <4>1
    <3>3. QED
      BY <3>1, <3>2
  <2>4. QED
    BY <2>1, <2>2, <2>3
<1> HIDE DEF Old
<1>4. Has(z, T) => Has(s, T)
  BY <1>3 DEF Has
<1>5. Has(s, T) /\ s[i] \notin T => Has(z, T)
  BY <1>3 DEF Has
<1>6. Single(s, T) => Single(z, T)
  BY <1>3 DEF Single
<1>7. Single(s, T) /\ s[i] \in T => ~Has(z, T)
  BY <1>3 DEF Has, Single
<1>8. QED
  BY <1>4, <1>5, <1>6, <1>7

(* The first element is taken away, as a message that is handled is.       *)
LEMMA HasRest ==
    ASSUME NEW S, NEW s \in Seq(S), s # <<>>, NEW T, NEW B
    PROVE  /\ Tail(s) \in Seq(S) /\ Head(s) \in S
           /\ Head(s) \in T => Has(s, T)
           /\ Has(Tail(s), T) => Has(s, T)
           /\ Has(s, T) => Head(s) \in T \/ Has(Tail(s), T)
           /\ Single(s, T) => Single(Tail(s), T)
           /\ Single(s, T) /\ Head(s) \in T => ~Has(Tail(s), T)
           /\ Ahead(s, T, B) /\ Head(s) \notin T => Ahead(Tail(s), T, B)
           /\ Ahead(s, T, B) => Has(Tail(s), B)
           /\ Ahead(s, T, B) => Has(s, T)
<1> DEFINE z == Tail(s)
<1>1. /\ z \in Seq(S) /\ DOMAIN z = 1 .. Len(s) - 1 /\ Head(s) = s[1] /\ Head(s) \in S
      /\ \A k \in DOMAIN z : z[k] = s[k + 1]
      /\ DOMAIN s = 1 .. Len(s) /\ Len(s) \in Nat /\ Len(s) # 0
  OBVIOUS
<1>2. /\ \A k \in DOMAIN z : k \in Int /\ k + 1 \in DOMAIN s /\ k + 1 # 1
      /\ \A k \in DOMAIN s : k = 1 \/ (k - 1 \in DOMAIN z /\ k - 1 + 1 = k)
      /\ \A k \in DOMAIN s : k \in Int /\ 1 <= k
      /\ 1 \in DOMAIN s
  BY <1>1
<1> HIDE DEF z
<1>3. /\ Has(z, T) => Has(s, T)
      /\ Head(s) \in T => Has(s, T)
  BY <1>1, <1>2 DEF Has
<1>4. \A X : Has(s, X) => Head(s) \in X \/ Has(z, X)
  BY <1>1, <1>2 DEF Has
<1>5. Single(s, T) => Single(z, T)
  BY <1>1, <1>2 DEF Single
<1>6. Single(s, T) /\ Head(s) \in T => ~Has(z, T)
  BY <1>1, <1>2 DEF Has, Single
<1>7. ASSUME Ahead(s, T, B)
      PROVE  (Head(s) \notin T => Ahead(z, T, B)) /\ Has(z, B) /\ Has(s, T)
  <2>1. PICK i \in DOMAIN s, j \in DOMAIN s : i < j /\ s[i] \in T /\ s[j] \in B
    BY <1>7 DEF Ahead
  <2>2. j # 1 /\ j - 1 \in DOMAIN z /\ z[j - 1] = s[j] /\ j \in Int /\ i \in Int
    BY <1>1, <1>2, <2>1
  <2>3. i # 1 => i - 1 \in DOMAIN z /\ z[i - 1] = s[i] /\ i - 1 < j - 1
    BY <1>1, <1>2, <2>1, <2>2
  <2>4. QED
    BY <1>1, <2>1, <2>2, <2>3 DEF Has, Ahead
<1>8. QED
  BY <1>1, <1>3, <1>4, <1>5, <1>6, <1>7 DEF z

(* Every element is replaced by its like.                                  *)
LEMMA HasAlike ==
    ASSUME NEW s, NEW z, DOMAIN z = DOMAIN s, NEW T, NEW V,
           \A k \in DOMAIN s : z[k] \in T => s[k] \in V
    PROVE  /\ Has(z, T) => Has(s, V)
           /\ Single(s, V) => Single(z, T)
  BY DEF Has, Single

(* An element is written over.                                             *)
LEMMA HasPut ==
    ASSUME NEW S, NEW s \in Seq(S), NEW i \in DOMAIN s, NEW x \in S, NEW z,
           z = [s EXCEPT ![i] = x], NEW T
    PROVE  /\ z \in Seq(S)
           /\ Has(z, T) => Has(s, T) \/ x \in T
           /\ Single(s, T) /\ (x \in T => ~Has(s, T)) => Single(z, T)
           /\ Single(s, T) /\ s[i] \in T /\ x \notin T => ~Has(z, T)
<1>1. /\ z \in Seq(S) /\ DOMAIN z = DOMAIN s /\ z[i] = x
      /\ \A k \in DOMAIN s : k # i => z[k] = s[k]
  BY Written
<1>2. QED
  BY <1>1 DEF Has, Single

-----------------------------------------------------------------------------
(* The page's list                                                         *)

(* The entries of message x, those that are pending being of 0; and the    *)
(* pending ones that say t.                                                *)
Of(x) == {e \in Entries : e.id = x}
PendingOf(t) == {e \in Of(0) : e.text = t}

(* What the page looks for among the pending entries, in these terms.      *)
LEMMA PendingHas ==
    ASSUME NEW s \in Seq(Entries)
    PROVE  /\ \A i \in PendingPlaces(s) : i \in DOMAIN s /\ s[i] \in Of(0)
           /\ PendingPlaces(s) # {} <=> Has(s, Of(0))
           /\ \A t : Has(s, PendingOf(t)) => Has(s, Of(0))
           /\ InFlight(s) \subseteq PendingPlaces(s)
           /\ Single(s, Of(0)) /\ Has(s, Of(0)) => InFlight(s) # {}
<1>1. DOMAIN s = 1 .. Len(s) /\ Len(s) \in Nat /\ \A k \in DOMAIN s : s[k] \in Entries
  BY PlacesOf
<1>2. \A i : i \in PendingPlaces(s) <=> i \in DOMAIN s /\ s[i] \in Of(0)
  BY <1>1 DEF PendingPlaces, IsPending, Of
<1>3. Single(s, Of(0)) => \A i, j \in PendingPlaces(s) : i = j /\ j <= i
  BY <1>1, <1>2 DEF Single
<1>4. PendingPlaces(s) # {} <=> Has(s, Of(0))
  BY <1>2 DEF Has
<1>5. \A t : Has(s, PendingOf(t)) => Has(s, Of(0))
  BY DEF Has, PendingOf
<1>6. Single(s, Of(0)) /\ Has(s, Of(0)) => InFlight(s) # {}
  BY <1>3, <1>4 DEF InFlight
<1>7. InFlight(s) \subseteq PendingPlaces(s)
  BY DEF InFlight
<1>8. QED
  BY <1>2, <1>4, <1>5, <1>6, <1>7

(* A message that comes takes the place of the pending entry that is its.  *)
LEMMA MessageAdded ==
    ASSUME NEW s \in Seq(Entries), NEW e \in Entries, e.id # 0, NEW z, z = AddMessage(s, e)
    PROVE  /\ z \in Seq(Entries)
           /\ \A T : Has(z, T) => Has(s, T) \/ e \in T
           /\ \A T : Single(s, T) /\ (e \in T => ~Has(s, T)) => Single(z, T)
           /\ Single(s, Of(0)) /\ e.by = "me" /\ Has(s, PendingOf(e.text)) => ~Has(z, Of(0))
<1> DEFINE same == {i \in PendingPlaces(s) : e.by = "me" /\ s[i].text = e.text}
<1>1. z = IF same = {} THEN Append(s, e)
          ELSE ReplacePending(s, CHOOSE i \in same : \A j \in same : i <= j, e)
  BY DEF AddMessage
<1>2. /\ DOMAIN s = 1 .. Len(s) /\ Len(s) \in Nat
      /\ \A i \in same : i \in Nat /\ i \in DOMAIN s /\ s[i] \in Of(0)
  BY PendingHas, PlacesOf
<1>3. e.by = "me" /\ Has(s, PendingOf(e.text)) => same # {}
  <2> SUFFICES ASSUME e.by = "me", NEW i \in DOMAIN s, s[i] \in PendingOf(e.text)
               PROVE  i \in same
    BY DEF Has
  <2>1. i \in PendingPlaces(s) /\ s[i].text = e.text
    BY DEF PendingOf, Of, PendingPlaces, IsPending
  <2>2. QED
    BY <2>1
<1>4. e \notin Of(0)
  BY DEF Of
<1>5. CASE same = {}
  <2>1. z = Append(s, e)
    BY <1>1, <1>5
  <2>2. z \in Seq(Entries)
    BY <2>1
  <2>3. \A T : /\ Has(z, T) => Has(s, T) \/ e \in T
               /\ Single(s, T) /\ (e \in T => ~Has(s, T)) => Single(z, T)
    BY <2>1, HasMore
  <2>4. QED
    BY <1>3, <1>5, <2>2, <2>3
<1>6. CASE same # {}
  <2>1. PICK k \in same : z = [s EXCEPT ![k] = e]
    <3>1. \E i \in same : \A j \in same : i <= j
      BY <1>2, <1>6, LeastNatural
    <3> HIDE DEF same
    <3>2. (CHOOSE i \in same : \A j \in same : i <= j) \in same
      BY <3>1
    <3>3. QED
      BY <1>1, <1>6, <3>2 DEF ReplacePending
  <2>2. k \in DOMAIN s /\ s[k] \in Of(0)
    BY <1>2
  <2> HIDE DEF same
  <2>3. \A T : /\ z \in Seq(Entries)
               /\ Has(z, T) => Has(s, T) \/ e \in T
               /\ Single(s, T) /\ (e \in T => ~Has(s, T)) => Single(z, T)
               /\ Single(s, T) /\ s[k] \in T /\ e \notin T => ~Has(z, T)
    BY <2>1, <2>2, HasPut
  <2>4. QED
    BY <1>4, <2>2, <2>3
<1>7. QED
  BY <1>5, <1>6

(* The entry being sent is taken out ...                                   *)
LEMMA SentTakenOut ==
    ASSUME NEW s \in Seq(Entries), NEW z,
           z = IF InFlight(s) = {} THEN s
               ELSE RemovePending(s, CHOOSE k \in InFlight(s) : TRUE)
    PROVE  /\ z \in Seq(Entries)
           /\ \A T : /\ Has(z, T) => Has(s, T)
                     /\ Single(s, T) => Single(z, T)
           /\ Single(s, Of(0)) => ~Has(z, Of(0))
<1>1. CASE InFlight(s) = {}
  BY <1>1, PendingHas
<1>2. CASE InFlight(s) # {}
  <2> DEFINE k == CHOOSE k \in InFlight(s) : TRUE
  <2>1. k \in InFlight(s) /\ z = RemoveAt(s, k)
    BY <1>2 DEF RemovePending
  <2> HIDE DEF k
  <2>2. k \in DOMAIN s /\ s[k] \in Of(0)
    BY <2>1, PendingHas
  <2>3. z \in Seq(Entries)
    BY <2>1, <2>2, Removed
  <2>4. \A T : /\ Has(z, T) => Has(s, T)
               /\ Single(s, T) => Single(z, T)
               /\ Single(s, T) /\ s[k] \in T => ~Has(z, T)
    BY <2>1, <2>2, HasLess
  <2>5. QED
    BY <2>2, <2>3, <2>4
<1>3. QED
  BY <1>1, <1>2

(* ... or becomes the message it was.                                      *)
LEMMA SentConfirmed ==
    ASSUME NEW s \in Seq(Entries), NEW e \in Entries, e.id # 0,
           NEW k \in InFlight(s), NEW z, z = ReplacePending(s, k, e)
    PROVE  /\ z \in Seq(Entries)
           /\ \A T : /\ Has(z, T) => Has(s, T) \/ (e \in T /\ Has(s, Of(0)))
                     /\ Single(s, T) /\ (e \in T /\ Has(s, Of(0)) => ~Has(s, T)) => Single(z, T)
           /\ Single(s, Of(0)) => ~Has(z, Of(0))
<1>1. k \in DOMAIN s /\ s[k] \in Of(0)
  BY PendingHas
<1>2. Has(s, Of(0)) /\ e \notin Of(0)
  BY <1>1 DEF Has, Of
<1>3. z = [s EXCEPT ![k] = e]
  BY DEF ReplacePending
<1>4. /\ z \in Seq(Entries) /\ DOMAIN z = DOMAIN s /\ z[k] = e
      /\ \A l \in DOMAIN s : l # k => z[l] = s[l]
  BY <1>1, <1>3, Written
<1>5. ASSUME NEW T
      PROVE  /\ Has(z, T) => Has(s, T) \/ e \in T
             /\ Single(s, T) /\ (e \in T => ~Has(s, T)) => Single(z, T)
             /\ Single(s, T) /\ s[k] \in T /\ e \notin T => ~Has(z, T)
  BY <1>1, <1>4 DEF Has, Single
<1>6. ASSUME NEW T
      PROVE  /\ Has(z, T) => Has(s, T) \/ (e \in T /\ Has(s, Of(0)))
             /\ Single(s, T) /\ (e \in T /\ Has(s, Of(0)) => ~Has(s, T)) => Single(z, T)
  BY <1>2, <1>5
<1>7. Single(s, Of(0)) => ~Has(z, Of(0))
  BY <1>1, <1>2, <1>5
<1>8. QED
  BY <1>4, <1>6, <1>7

-----------------------------------------------------------------------------
(* The messages a history is made of: each once.                           *)
LEMMA KeptFacts ==
    ASSUME msgs \in Seq(Messages)
    PROVE  /\ Kept \in Seq(1 .. Len(msgs))
           /\ \A k, l \in DOMAIN Kept : Kept[k] = Kept[l] => k = l
<1> DEFINE m == Len(msgs)
           Next1(f, n) == IF n = 0 THEN <<>>
                         ELSE IF msgs[n].deleted THEN f[n - 1] ELSE Append(f[n - 1], n)
           IsKept(f, n) == f = [i \in 0 .. n |-> Next1(f, i)]
           Exists(n) == \E f : IsKept(f, n)
<1>0. m \in Nat
  OBVIOUS
<1>1. Exists(0)
  <2> DEFINE f == [i \in 0 .. 0 |-> <<>>]
  <2>1. IsKept(f, 0)
    OBVIOUS
  <2>2. QED
    BY <2>1
<1>2. ASSUME NEW n \in Nat, Exists(n)
      PROVE  Exists(n + 1)
  <2>1. PICK f : IsKept(f, n)
    BY <1>2
  <2> DEFINE g == [i \in 0 .. n + 1 |-> IF i = n + 1 THEN Next1(f, n + 1) ELSE f[i]]
  <2>2. \A i \in 0 .. n : f[i] = Next1(f, i)
    BY <2>1
  <2>3. \A i \in 0 .. n : g[i] = f[i]
    OBVIOUS
  <2>4. \A i \in 0 .. n + 1 : g[i] = Next1(g, i)
    <3> TAKE i \in 0 .. n + 1
    <3>1. CASE i = 0
      <4>1. 0 \in 0 .. n /\ Next1(f, 0) = Next1(g, 0)
        OBVIOUS
      <4>2. g[0] = f[0] /\ f[0] = Next1(f, 0)
        BY <2>2, <2>3, <4>1
      <4>3. QED
        BY <3>1, <4>1, <4>2
    <3>2. CASE i # 0
      <4>1. i - 1 \in 0 .. n
        BY <3>2
      <4>2. g[i - 1] = f[i - 1]
        BY <2>3, <4>1
      <4>3. g[i] = Next1(f, i)
        <5>1. CASE i = n + 1
          BY <5>1
        <5>2. CASE i # n + 1
          <6>1. i \in 0 .. n
            BY <5>2
          <6>2. QED
            BY <2>2, <2>3, <6>1
        <5>3. QED
          BY <5>1, <5>2
      <4>4. QED
        BY <3>2, <4>2, <4>3
    <3>3. QED
      BY <3>1, <3>2
  <2>5. g = [i \in 0 .. n + 1 |-> g[i]]
    OBVIOUS
  <2> HIDE DEF g, Next1
  <2>6. IsKept(g, n + 1)
    BY <2>4, <2>5
  <2>7. QED
    BY <2>6
<1>3. \A n \in Nat : Exists(n)
  <2> HIDE DEF Exists
  <2> SUFFICES ASSUME NEW k \in Nat, ~Exists(k) PROVE FALSE
    OBVIOUS
  <2>1. PICK l \in {n \in Nat : ~Exists(n)} : \A n \in {n \in Nat : ~Exists(n)} : l <= n
    BY LeastNatural
  <2>2. l # 0 /\ l - 1 \in Nat
    BY <1>1, <2>1
  <2>3. Exists(l - 1)
    BY <2>1, <2>2
  <2>4. Exists(l - 1 + 1)
    BY <1>2, <2>2, <2>3
  <2>5. l - 1 + 1 = l
    BY <2>2
  <2>6. QED
    BY <2>1, <2>4, <2>5
<1>4. PICK f : IsKept(f, m) /\ Kept = f[m]
  <2> DEFINE f == CHOOSE f : IsKept(f, m)
  <2>1. IsKept(f, m)
    BY <1>0, <1>3
  <2>2. Kept = f[m]
    BY DEF Kept
  <2> HIDE DEF f
  <2>3. QED
    BY <2>1, <2>2
<1>5. \A i \in 0 .. m : f[i] = Next1(f, i)
  BY <1>4
<1> HIDE DEF IsKept, Exists
<1> DEFINE Good(n) == /\ f[n] \in Seq(1 .. n)
                      /\ \A k, l \in DOMAIN f[n] : f[n][k] = f[n][l] => k = l
<1>6. Good(0)
  <2>1. f[0] = <<>>
    <3>1. 0 \in 0 .. m
      BY <1>0
    <3>2. QED
      BY <1>5, <3>1
  <2>2. QED
    BY <2>1
<1>7. ASSUME NEW n \in 0 .. m - 1, Good(n)
      PROVE  Good(n + 1)
  <2>1. /\ n + 1 \in 0 .. m /\ n + 1 # 0 /\ n + 1 - 1 = n /\ n \in Nat
        /\ f[n] \in Seq(1 .. n)
    BY <1>0, <1>7
  <2>2. f[n + 1] = Next1(f, n + 1)
    BY <1>5, <2>1
  <2>3. f[n] \in Seq(1 .. n + 1)
    <3>1. \A k \in DOMAIN f[n] : f[n][k] \in 1 .. n + 1
      BY <2>1
    <3>2. QED
      BY <2>1, <3>1
  <2>4. CASE msgs[n + 1].deleted
    <3>1. f[n + 1] = f[n]
      BY <2>1, <2>2, <2>4
    <3>2. QED
      BY <1>7, <2>3, <3>1
  <2>5. CASE ~msgs[n + 1].deleted
    <3> DEFINE s == f[n]
               z == f[n + 1]
    <3>1. z = Append(s, n + 1) /\ n + 1 \in 1 .. n + 1
      BY <2>1, <2>2, <2>5
    <3>2. s \in Seq(1 .. n + 1) /\ s \in Seq(1 .. n)
          /\ \A k, l \in DOMAIN s : s[k] = s[l] => k = l
      BY <1>7, <2>1, <2>3
    <3> HIDE DEF s, z, Next1
    <3>3. /\ z \in Seq(1 .. n + 1) /\ Len(z) = Len(s) + 1 /\ z[Len(s) + 1] = n + 1
          /\ \A k \in DOMAIN s : z[k] = s[k]
      BY <3>1, <3>2, Appended
    <3>4. /\ DOMAIN s = 1 .. Len(s) /\ DOMAIN z = 1 .. Len(s) + 1 /\ Len(s) \in Nat
          /\ \A k \in DOMAIN s : s[k] \in 1 .. n
      BY <3>2, <3>3, PlacesOf
    <3>5. \A k \in DOMAIN z : k \in DOMAIN s \/ k = Len(s) + 1
      BY <3>4
    <3>6. \A k \in DOMAIN s : z[k] # n + 1
      BY <2>1, <3>3, <3>4
    <3>7. \A k, l \in DOMAIN z : z[k] = z[l] => k = l
      BY <3>2, <3>3, <3>5, <3>6
    <3>8. QED
      BY <3>3, <3>7 DEF z
  <2>6. QED
    BY <2>4, <2>5
<1>8. \A n \in 0 .. m : Good(n)
  <2> HIDE DEF Good
  <2> SUFFICES ASSUME NEW k \in 0 .. m, ~Good(k) PROVE FALSE
    OBVIOUS
  <2> DEFINE Bad == {n \in 0 .. m : ~Good(n)}
  <2>0. Bad \subseteq Nat /\ Bad # {}
    OBVIOUS
  <2>1. PICK l \in Bad : \A n \in Bad : l <= n
    BY <2>0, LeastNatural
  <2>2. l # 0 /\ l - 1 \in 0 .. m - 1 /\ l - 1 \in 0 .. m /\ l - 1 + 1 = l
    BY <1>0, <1>6, <2>1
  <2>3. Good(l - 1)
    BY <1>0, <2>1, <2>2
  <2>4. QED
    BY <1>7, <2>1, <2>2, <2>3
<1>9. Good(m)
  BY <1>0, <1>8
<1>10. QED
  BY <1>4, <1>9

(* What is shown of ids that are all there and are different.              *)
LEMMA ShownFacts ==
    ASSUME msgs \in Seq(Messages), Len(msgs) <= MaxMessages,
           NEW ids \in Seq(1 .. Len(msgs)),
           \A k, l \in DOMAIN ids : ids[k] = ids[l] => k = l
    PROVE  /\ EntriesOf(ids) \in Seq(Entries)
           /\ \A x : Single(EntriesOf(ids), Of(x))
           /\ \A x : Has(EntriesOf(ids), Of(x)) => x \in 1 .. Len(msgs)
<1> DEFINE z == EntriesOf(ids)
<1>1. /\ DOMAIN ids = 1 .. Len(ids) /\ Len(ids) \in Nat /\ Len(msgs) \in Nat
      /\ \A k \in DOMAIN ids : ids[k] \in 1 .. Len(msgs)
  BY PlacesOf
<1>2. \A i \in 1 .. Len(msgs) : Entry(i) \in Entries /\ Entry(i).id = i
  <2> TAKE i \in 1 .. Len(msgs)
  <2>1. msgs[i] \in Messages /\ i \in Ids
    BY ChatAssumption DEF Ids
  <2>2. QED
    BY <2>1 DEF Entry, Entries, Messages
<1>3. z = [k \in 1 .. Len(ids) |-> Entry(ids[k])]
  BY <1>1 DEF EntriesOf
<1> HIDE DEF z
<1>4. z \in Seq(Entries) /\ DOMAIN z = DOMAIN ids /\ \A k \in DOMAIN ids : z[k].id = ids[k]
  BY <1>1, <1>2, <1>3
<1>5. \A x : Single(z, Of(x))
  BY <1>4 DEF Single, Of
<1>6. \A x : Has(z, Of(x)) => x \in 1 .. Len(msgs)
  BY <1>1, <1>4 DEF Has, Of
<1>7. QED
  BY <1>4, <1>5, <1>6 DEF z

(* What the server answers as a history is one.                            *)
LEMMA HistoryFacts ==
    ASSUME msgs \in Seq(Messages), Len(msgs) <= MaxMessages,
           NEW z \in {FirstMessages, EntriesOf(Kept)}
    PROVE  /\ z \in Seq(Entries)
           /\ \A x : Single(z, Of(x))
           /\ \A x : Has(z, Of(x)) => x \in 1 .. Len(msgs)
<1>1. Kept \in Seq(1 .. Len(msgs)) /\ \A k, l \in DOMAIN Kept : Kept[k] = Kept[l] => k = l
  BY KeptFacts
<1> DEFINE n == IF Len(Kept) < HistorySize THEN Len(Kept) ELSE HistorySize
           first == SubSeq(Kept, 1, n)
<1>2. n \in 0 .. Len(Kept)
  BY <1>1, ChatAssumption
<1>3. /\ first \in Seq(1 .. Len(msgs)) /\ DOMAIN first = 1 .. n
      /\ \A k \in 1 .. n : first[k] = Kept[k] /\ k \in DOMAIN Kept
  <2> HIDE DEF n
  <2>1. QED
    BY <1>1, <1>2
<1>4. z = EntriesOf(first) \/ z = EntriesOf(Kept)
  <2>1. FirstMessages = EntriesOf(first)
    BY Zenon DEF FirstMessages
  <2> HIDE DEF first
  <2>2. QED
    BY <2>1
<1> HIDE DEF first, n
<1>5. \A k, l \in DOMAIN first : first[k] = first[l] => k = l
  BY <1>1, <1>3
<1>6. ASSUME NEW ids \in Seq(1 .. Len(msgs)), z = EntriesOf(ids),
             \A k, l \in DOMAIN ids : ids[k] = ids[l] => k = l
      PROVE  /\ z \in Seq(Entries)
             /\ \A x : Single(z, Of(x))
             /\ \A x : Has(z, Of(x)) => x \in 1 .. Len(msgs)
  BY <1>6, ShownFacts
<1>7. QED
  BY <1>1, <1>3, <1>4, <1>5, <1>6

-----------------------------------------------------------------------------
(* The kinds of what the queues hold                                       *)

(* What the page emits.                                                    *)
Joins == {e \in Emits : e.what = "join"}
Sends == {e \in Emits : e.what = "send"}
SendsOf(t) == {e \in Sends : e.text = t}

(* What the server sends.                                                  *)
Answers == {e \in Events : e.what \in {"ack", "nack"}}
Acks == {e \in Events : e.what = "ack"}
Nacks == {e \in Events : e.what = "nack"}
News == {e \in Events : e.what = "message"}
NewsOf(x) == {e \in News : e.entry.id = x}
MineOf(t) == {e \in News : e.entry.by = "me" /\ e.entry.text = t}

(* The requests of this opening of the page: those for a history, those    *)
(* that send a message by HTTP, those whose answer tells of message x or   *)
(* is it, and those that cannot be.                                        *)
Mine == {r \in ChatRequests : r.mine}
LoadsAsked == {r \in Mine : r.for \in {"conversation", "messages"}}
Posts == {r \in Mine : r.for = "send"}
Tells(x) == {r \in ChatRequests : Has(r.history, Of(x))}
Confirms(x) == {r \in Posts : r.at = "ok" /\ Has(r.history, Of(x))}
Broken == {r \in ChatRequests : \/ Has(r.history, Of(0))
                                \/ \E x \in Ids : ~Single(r.history, Of(x))
                                \/ r.for = "send" /\ r.at = "ok" /\ r.history = <<>>}

(* The handlers, and which of them works on a message that the page sent   *)
(* by its socket.                                                          *)
Busy(p) == work[p].pc # "idle"
Works(p) == Busy(p) /\ work[p].by = "me" /\ work[p].via = "socket"
Working == \E p \in ChatHandlers : Works(p)
WorksOn(t) == \E p \in ChatHandlers : Works(p) /\ work[p].text = t

(* A message that was created is known to the page's side of the server    *)
(* once its handler has returned.                                          *)
Marking == \E p \in ChatHandlers : work[p].pc = "mark"
Known == IF Marking THEN Len(msgs) - 1 ELSE Len(msgs)

-----------------------------------------------------------------------------
(* The invariant                                                           *)

(* One handler at a time, and what it created is the last message.         *)
OneAtWork ==
    /\ \A p, q \in ChatHandlers : Busy(p) /\ Busy(q) => p = q
    /\ \A p \in ChatHandlers : work[p].pc = "mark" =>
          /\ Len(msgs) > 0 /\ work[p].id = Len(msgs)
          /\ msgs[Len(msgs)].by = work[p].by /\ msgs[Len(msgs)].text = work[p].text
    /\ \A p \in ChatHandlers : Busy(p) /\ work[p].via = "gone" => ~room

(* Nothing is under way on a socket that is down, nor for a page that is   *)
(* not there.                                                              *)
OnLine ==
    /\ chat.on => chat.open
    /\ conn.st # "connected" => ~room /\ up = <<>> /\ down = <<>> /\ ~Working
    /\ ~chat.open => ~Has(calls, Mine)

(* While the page loads it is not in the room, nor about to enter it.      *)
OneLoad ==
    /\ Single(calls, LoadsAsked)
    /\ Has(calls, LoadsAsked) => /\ chat.loading /\ chat.open /\ ~room /\ ~conn.join
                                 /\ ~Has(up, Joins) /\ ~Has(down, News)

(* What the page sends is at one place at a time, until it is answered.    *)
OneSend ==
    /\ Single(up, Sends) /\ Single(down, Answers) /\ Single(calls, Posts)
    /\ Has(up, Sends) => ~Has(down, Answers) /\ ~Has(calls, Posts) /\ ~Working
    /\ Has(down, Answers) => ~Has(calls, Posts) /\ ~Working
    /\ Has(calls, Posts) => ~Working
    /\ Has(up, Sends) \/ Has(down, Answers) \/ Has(calls, Posts) \/ Working => chat.sending

(* What is created and not yet answered, the page cannot have.             *)
IdsKnown ==
    /\ ~Has(down, NewsOf(0))
    /\ ~Has(calls, Broken)
    /\ \A x \in Ids : x > Known =>
          ~Has(chat.shown, Of(x)) /\ ~Has(down, NewsOf(x)) /\ ~Has(calls, Tells(x))

(* A message is shown or on its way to be shown, once; the answer to one   *)
(* sent by HTTP replaces the pending entry.                                *)
EachOnce ==
    \A x \in Ids :
        /\ Single(chat.shown, Of(x)) /\ Single(down, NewsOf(x))
        /\ ~(Has(chat.shown, Of(x)) /\ Has(down, NewsOf(x)))
        /\ Has(calls, Confirms(x)) =>
              /\ ~Has(down, NewsOf(x))
              /\ Has(chat.shown, Of(0)) => ~Has(chat.shown, Of(x))

(* A page that was loaded and whose socket has not dropped since.          *)
Settling == chat.on /\ ~chat.lost /\ ~chat.loading

(* Such a page is in the room, or the join is on its way.                  *)
Joined ==
    \/ room
    \/ conn.st = "connected" /\ Has(up, Joins)
    \/ conn.st = "connecting" /\ conn.join

(* The answer to a pending entry is on its way, and the broadcast before   *)
(* the acknowledgement.                                                    *)
Covered(t) ==
    \/ Has(calls, Posts)
    \/ Has(up, SendsOf(t)) /\ (room \/ Ahead(up, Joins, SendsOf(t)))
    \/ WorksOn(t) /\ room
    \/ Has(down, Nacks)
    \/ Ahead(down, MineOf(t), Acks)

(* It has one pending entry at most, and an answer to that on its way.     *)
Settled ==
    Settling => /\ Joined
                /\ Single(chat.shown, Of(0))
                /\ \A t \in Texts : Has(chat.shown, PendingOf(t)) => Covered(t)

(* What every reachable state satisfies.  That an answer is on its way is  *)
(* what makes PendingSettles inductive; that history, broadcast and answer *)
(* cannot bring the same message is what NothingTwice needs.               *)
ChatInv ==
    /\ ChatTypeOK /\ OneAtWork /\ OnLine
    /\ OneLoad /\ OneSend
    /\ IdsKnown /\ EachOnce /\ Settled

-----------------------------------------------------------------------------
(* Of a smaller set a sequence has less.                                   *)
LEMMA HasPart ==
    ASSUME NEW s, NEW T, NEW V, T \subseteq V
    PROVE  /\ Has(s, T) => Has(s, V)
           /\ Single(s, V) => Single(s, T)
  BY DEF Has, Single

(* There is something to say.                                              *)
LEMMA AnyTextIs == AnyText \in Texts
  BY ChatAssumption DEF AnyText

(* How the kinds above lie in one another.                                 *)
LEMMA PartsOfKinds ==
    /\ LoadsAsked \subseteq Mine /\ Posts \subseteq Mine
    /\ \A x : NewsOf(x) \subseteq News /\ Confirms(x) \subseteq Posts
    /\ \A x : Confirms(x) \subseteq Tells(x)
    /\ \A t : SendsOf(t) \subseteq Sends /\ MineOf(t) \subseteq News
    /\ Acks \subseteq Answers /\ Nacks \subseteq Answers
  BY DEF LoadsAsked, Posts, Mine, NewsOf, Confirms, Tells, SendsOf, MineOf, Acks, Nacks,
         Answers

(* The requests say no more than before.                                   *)
Fewer(z, q) ==
    /\ Has(z, Mine) => Has(q, Mine)
    /\ Has(z, LoadsAsked) => Has(q, LoadsAsked)
    /\ Has(z, Posts) => Has(q, Posts)
    /\ Has(z, Broken) => Has(q, Broken)
    /\ \A x \in Ids : Has(z, Tells(x)) => Has(q, Tells(x))
    /\ \A x \in Ids : Has(z, Confirms(x)) => Has(q, Confirms(x))
    /\ Single(q, LoadsAsked) => Single(z, LoadsAsked)
    /\ Single(q, Posts) => Single(z, Posts)

(* A request is answered and forgotten.                                    *)
LEMMA FewerLess ==
    ASSUME NEW q \in Seq(ChatRequests), NEW i \in DOMAIN q, NEW z, z = RemoveAt(q, i)
    PROVE  z \in Seq(ChatRequests) /\ Fewer(z, q)
<1>1. z \in Seq(ChatRequests)
  BY Removed
<1>2. \A T : (Has(z, T) => Has(q, T)) /\ (Single(q, T) => Single(z, T))
  BY HasLess
<1>3. QED
  BY <1>1, <1>2 DEF Fewer

(* The request a says no more than b did.                                  *)
Faded(a, b) ==
    /\ a \in ChatRequests /\ b \in ChatRequests
    /\ a.for = b.for /\ a.history = b.history
    /\ a.mine => b.mine
    /\ a.for = "send" /\ a.at = "ok" => b.at = "ok"

(* Requests that say no more, one by one, say no more together.            *)
LEMMA FewerFaded ==
    ASSUME NEW q \in Seq(ChatRequests), NEW z \in Seq(ChatRequests), DOMAIN z = DOMAIN q,
           \A k \in DOMAIN q : Faded(z[k], q[k])
    PROVE  Fewer(z, q)
<1>1. \A a, b : Faded(a, b) =>
          /\ a \in Mine => b \in Mine
          /\ a \in LoadsAsked => b \in LoadsAsked
          /\ a \in Posts => b \in Posts
          /\ a \in Broken => b \in Broken
          /\ \A x : a \in Tells(x) => b \in Tells(x)
          /\ \A x : a \in Confirms(x) => b \in Confirms(x)
  BY DEF Faded, Mine, LoadsAsked, Posts, Broken, Tells, Confirms
<1>2. \A T : (\A k \in DOMAIN q : z[k] \in T => q[k] \in T) =>
          (Has(z, T) => Has(q, T)) /\ (Single(q, T) => Single(z, T))
  BY HasAlike
<1> HIDE DEF Faded
<1>3. /\ \A k \in DOMAIN q : z[k] \in Mine => q[k] \in Mine
      /\ \A k \in DOMAIN q : z[k] \in LoadsAsked => q[k] \in LoadsAsked
      /\ \A k \in DOMAIN q : z[k] \in Posts => q[k] \in Posts
      /\ \A k \in DOMAIN q : z[k] \in Broken => q[k] \in Broken
      /\ \A x : \A k \in DOMAIN q : z[k] \in Tells(x) => q[k] \in Tells(x)
      /\ \A x : \A k \in DOMAIN q : z[k] \in Confirms(x) => q[k] \in Confirms(x)
  BY <1>1
<1>4. QED
  BY <1>2, <1>3 DEF Fewer

(* The i-th is answered without a history.                                 *)
LEMMA FewerAnswered ==
    ASSUME NEW q \in Seq(ChatRequests), NEW i \in DOMAIN q, NEW z,
           \/ z = [q EXCEPT ![i].at = "serving"]
           \/ z = [q EXCEPT ![i].at = "error"]
           \/ z = [q EXCEPT ![i].at = "ok"] /\ q[i].for # "send"
    PROVE  z \in Seq(ChatRequests) /\ Fewer(z, q) /\ (Has(q, Posts) => Has(z, Posts))
<1>1. q[i] \in ChatRequests
  OBVIOUS
<1>2. PICK a \in ChatRequests : /\ z = [q EXCEPT ![i] = a]
                               /\ Faded(a, q[i]) /\ (q[i] \in Posts => a \in Posts)
  <2>1. \A at \in {"serving", "ok", "error"} : [q[i] EXCEPT !.at = at] \in ChatRequests
    BY <1>1 DEF ChatRequests
  <2>2. CASE z = [q EXCEPT ![i].at = "serving"]
    <3> DEFINE a == [q[i] EXCEPT !.at = "serving"]
    <3>1. z = [q EXCEPT ![i] = a]
      BY <2>2
    <3>2. Faded(a, q[i]) /\ (q[i] \in Posts => a \in Posts) /\ a \in ChatRequests
      BY <1>1, <2>1 DEF Faded, ChatRequests, Posts, Mine
    <3> HIDE DEF a
    <3>3. QED
      BY <3>1, <3>2
  <2>3. CASE z = [q EXCEPT ![i].at = "error"]
    <3> DEFINE a == [q[i] EXCEPT !.at = "error"]
    <3>1. z = [q EXCEPT ![i] = a]
      BY <2>3
    <3>2. Faded(a, q[i]) /\ (q[i] \in Posts => a \in Posts) /\ a \in ChatRequests
      BY <1>1, <2>1 DEF Faded, ChatRequests, Posts, Mine
    <3> HIDE DEF a
    <3>3. QED
      BY <3>1, <3>2
  <2>4. CASE z = [q EXCEPT ![i].at = "ok"] /\ q[i].for # "send"
    <3> DEFINE a == [q[i] EXCEPT !.at = "ok"]
    <3>1. z = [q EXCEPT ![i] = a]
      BY <2>4
    <3>2. Faded(a, q[i]) /\ (q[i] \in Posts => a \in Posts) /\ a \in ChatRequests
      BY <1>1, <2>1, <2>4 DEF Faded, ChatRequests, Posts, Mine
    <3> HIDE DEF a
    <3>3. QED
      BY <3>1, <3>2
  <2>5. QED
    BY <2>2, <2>3, <2>4
<1>4. /\ z \in Seq(ChatRequests) /\ DOMAIN z = DOMAIN q /\ z[i] = a
      /\ \A k \in DOMAIN q : k # i => z[k] = q[k]
  BY <1>2, Written
<1>5. \A k \in DOMAIN q : q[k] \in ChatRequests /\ Faded(q[k], q[k])
  BY DEF Faded
<1>6. \A k \in DOMAIN q : Faded(z[k], q[k]) /\ (q[k] \in Posts => z[k] \in Posts)
  BY <1>2, <1>4, <1>5
<1>7. Has(q, Posts) => Has(z, Posts)
  BY <1>4, <1>6 DEF Has
<1>8. QED
  BY <1>4, <1>6, <1>7, FewerFaded

(* The page is left, and its requests are nobody's.                        *)
LEMMA FewerLeft ==
    ASSUME NEW q \in Seq(ChatRequests), NEW z, z = [i \in DOMAIN q |-> [q[i] EXCEPT !.mine = FALSE]]
    PROVE  z \in Seq(ChatRequests) /\ Fewer(z, q) /\ ~Has(z, Mine)
<1>1. DOMAIN q = 1 .. Len(q) /\ Len(q) \in Nat /\ \A k \in DOMAIN q : q[k] \in ChatRequests
  BY PlacesOf
<1>2. \A k \in DOMAIN q : [q[k] EXCEPT !.mine = FALSE] \in ChatRequests
  BY <1>1 DEF ChatRequests
<1>3. \A k \in DOMAIN q : Faded(z[k], q[k]) /\ z[k] \notin Mine
  BY <1>1, <1>2 DEF Faded, ChatRequests, Mine
<1>4. z \in Seq(ChatRequests) /\ DOMAIN z = DOMAIN q
  <2>1. z = [k \in 1 .. Len(q) |-> [q[k] EXCEPT !.mine = FALSE]]
    BY <1>1
  <2>2. QED
    BY <1>1, <1>2, <2>1
<1>5. ~Has(z, Mine)
  BY <1>3, <1>4 DEF Has
<1>6. QED
  BY <1>3, <1>4, <1>5, FewerFaded

(* What the page asks has not been answered.                               *)
LEMMA NewRequest ==
    ASSUME NEW for \in {"conversation", "messages", "send", "hide"}, NEW text \in Texts,
           NEW c \in BOOLEAN, NEW r \in {Request(for, text), [Request(for, text) EXCEPT !.closed = c]}
    PROVE  /\ r \in ChatRequests /\ r \in Mine /\ r.at = "sent"
           /\ r \notin Broken /\ \A x : r \notin Tells(x) /\ r \notin Confirms(x)
           /\ r \in Posts <=> for = "send"
           /\ r \in LoadsAsked <=> for \in {"conversation", "messages"}
<1>1. <<>> \in Seq(Entries) /\ \A T : ~Has(<<>>, T) /\ Single(<<>>, T)
  BY HasNothing
<1>2. r \in ChatRequests /\ r.mine /\ r.at = "sent" /\ r.for = for /\ r.history = <<>>
  <2> DEFINE a == Request(for, text)
             b == [a EXCEPT !.closed = c]
  <2>1. /\ a \in ChatRequests /\ a.mine /\ a.at = "sent" /\ a.for = for /\ a.history = <<>>
    BY <1>1 DEF Request, ChatRequests
  <2> HIDE DEF a
  <2>2. /\ b \in ChatRequests /\ b.mine /\ b.at = "sent" /\ b.for = for /\ b.history = <<>>
    BY <2>1 DEF ChatRequests
  <2>3. r = a \/ r = b
    BY DEF a
  <2>4. QED
    BY <2>1, <2>2, <2>3
<1>3. r \in Mine /\ (r \in Posts <=> for = "send")
      /\ (r \in LoadsAsked <=> for \in {"conversation", "messages"})
  BY <1>2 DEF Mine, Posts, LoadsAsked
<1>4. \A T : ~Has(r.history, T) /\ Single(r.history, T)
  BY <1>1, <1>2
<1>5. r \notin Broken
  BY <1>2, <1>4 DEF Broken
<1>6. \A x : r \notin Tells(x) /\ r \notin Confirms(x)
  BY <1>4 DEF Tells, Confirms
<1>7. QED
  BY <1>2, <1>3, <1>5, <1>6

-----------------------------------------------------------------------------
(* Steps at which the page and its queues learn nothing                    *)

(* Only marks of the messages, the status and the requests change.         *)
LEMMA StepQuiet ==
    ASSUME ChatInv, UNCHANGED <<work, room, chat, conn, up, down>>,
           status' \in {"ACTIVE", "CLOSED"},
           msgs' \in Seq(Messages), Len(msgs') = Len(msgs),
           \A i \in DOMAIN msgs : msgs'[i].by = msgs[i].by /\ msgs'[i].text = msgs[i].text,
           calls' \in Seq(ChatRequests), Fewer(calls', calls), Has(calls, Posts) => Has(calls', Posts)
    PROVE  ChatInv'
<1>1. ChatTypeOK'
  BY DEF ChatInv, ChatTypeOK
<1>2. OneAtWork'
  <2>1. Len(msgs) > 0 => Len(msgs) \in DOMAIN msgs
    BY DEF ChatInv, ChatTypeOK
  <2>2. QED
    BY <2>1 DEF ChatInv, OneAtWork, Busy
<1>3. OnLine'
  BY DEF ChatInv, OnLine, Fewer, Working, Works, Busy
<1>4. OneLoad'
  BY DEF ChatInv, OneLoad, Fewer
<1>5. OneSend'
  BY DEF ChatInv, OneSend, Fewer, Working, Works, Busy
<1>6. IdsKnown'
  BY DEF ChatInv, IdsKnown, Fewer, Known, Marking
<1>7. EachOnce'
  BY DEF ChatInv, EachOnce, Fewer
<1>8. Settled'
  BY DEF ChatInv, Settled, Settling, Joined, Covered, WorksOn, Works, Busy
<1>9. QED
  BY <1>1, <1>2, <1>3, <1>4, <1>5, <1>6, <1>7, <1>8 DEF ChatInv

(* Requests that do not change say no more.                                *)
LEMMA FewerSame == Fewer(calls, calls)
  BY DEF Fewer

(* Messages that are hidden stay what they were.                           *)
LEMMA MessagesHidden ==
    ASSUME msgs \in Seq(Messages), NEW D,
           msgs' = [i \in DOMAIN msgs |-> IF i \in D THEN [msgs[i] EXCEPT !.deleted = TRUE]
                                                    ELSE msgs[i]]
    PROVE  /\ msgs' \in Seq(Messages) /\ Len(msgs') = Len(msgs)
           /\ \A i \in DOMAIN msgs : msgs'[i].by = msgs[i].by /\ msgs'[i].text = msgs[i].text
<1>1. /\ DOMAIN msgs = 1 .. Len(msgs) /\ Len(msgs) \in Nat
      /\ \A i \in DOMAIN msgs : msgs[i] \in Messages
  BY PlacesOf
<1>2. \A i \in DOMAIN msgs : /\ [msgs[i] EXCEPT !.deleted = TRUE] \in Messages
                             /\ [msgs[i] EXCEPT !.deleted = TRUE].by = msgs[i].by
                             /\ [msgs[i] EXCEPT !.deleted = TRUE].text = msgs[i].text
  BY <1>1 DEF Messages
<1> DEFINE e(i) == IF i \in D THEN [msgs[i] EXCEPT !.deleted = TRUE] ELSE msgs[i]
<1>3. \A i \in DOMAIN msgs : /\ e(i) \in Messages
                             /\ e(i).by = msgs[i].by /\ e(i).text = msgs[i].text
  BY <1>1, <1>2
<1>4. msgs' = [i \in 1 .. Len(msgs) |-> e(i)]
  BY <1>1
<1> HIDE DEF e
<1>5. /\ DOMAIN msgs' = 1 .. Len(msgs)
      /\ \A i \in 1 .. Len(msgs) : msgs'[i] = e(i) /\ e(i) \in Messages
  BY <1>1, <1>3, <1>4
<1>6. msgs' \in Seq(Messages)
  <2>1. msgs' = [i \in 1 .. Len(msgs) |-> msgs'[i]]
    BY <1>4, <1>5
  <2>2. \A i \in 1 .. Len(msgs) : msgs'[i] \in Messages
    BY <1>5
  <2>3. QED
    BY <1>1, <2>1, <2>2
<1>7. Len(msgs') = Len(msgs)
  BY <1>1, <1>5, <1>6
<1>8. QED
  BY <1>1, <1>3, <1>5, <1>6, <1>7

(* A member hides the conversation: his messages are marked as deleted ... *)
LEMMA StepHides ==
    ASSUME ChatInv, NEW by, HideConversation(by), UNCHANGED <<status, work, room, chat, conn, up, down>>,
           calls' \in Seq(ChatRequests), Fewer(calls', calls), Has(calls, Posts) => Has(calls', Posts)
    PROVE  ChatInv'
<1>1. msgs \in Seq(Messages) /\ status \in {"ACTIVE", "CLOSED"}
  BY DEF ChatInv, ChatTypeOK
<1> DEFINE D == {i \in DOMAIN msgs : msgs[i].by = by}
<1>2. msgs' = [i \in DOMAIN msgs |-> IF i \in D THEN [msgs[i] EXCEPT !.deleted = TRUE]
                                               ELSE msgs[i]]
  BY DEF HideConversation
<1> HIDE DEF D
<1>3. /\ msgs' \in Seq(Messages) /\ Len(msgs') = Len(msgs)
      /\ \A i \in DOMAIN msgs : msgs'[i].by = msgs[i].by /\ msgs'[i].text = msgs[i].text
  BY <1>1, <1>2, MessagesHidden
<1>4. QED
  BY <1>1, <1>3, StepQuiet

(* ... the peer ...                                                        *)
LEMMA StepPeerHides == ASSUME ChatInv, PeerHides PROVE ChatInv'
<1>1. /\ HideConversation("peer") /\ UNCHANGED <<status, work, room, chat, conn, up, down, calls>>
      /\ calls \in Seq(ChatRequests)
  BY DEF PeerHides, ChatInv, ChatTypeOK
<1>2. QED
  BY <1>1, FewerSame, StepHides

(* A member deletes a message of his.                                      *)
LEMMA StepDelete ==
    ASSUME ChatInv, NEW by \in Members, NEW i \in DOMAIN msgs, DeleteMessage(by, i)
    PROVE  ChatInv'
<1>1. /\ msgs' = [msgs EXCEPT ![i].deleted = TRUE]
      /\ UNCHANGED <<status, work, room, chat, conn, up, down, calls>>
      /\ calls \in Seq(ChatRequests) /\ msgs \in Seq(Messages) /\ status \in {"ACTIVE", "CLOSED"}
  BY DEF DeleteMessage, ChatInv, ChatTypeOK
<1> DEFINE D == {i}
<1>2. msgs' = [k \in DOMAIN msgs |-> IF k \in D THEN [msgs[k] EXCEPT !.deleted = TRUE]
                                               ELSE msgs[k]]
  BY <1>1
<1> HIDE DEF D
<1>3. /\ msgs' \in Seq(Messages) /\ Len(msgs') = Len(msgs)
      /\ \A k \in DOMAIN msgs : msgs'[k].by = msgs[k].by /\ msgs'[k].text = msgs[k].text
  BY <1>1, <1>2, MessagesHidden
<1>4. QED
  BY <1>1, <1>3, FewerSame, StepQuiet

(* ... or the page's member, whose request is answered.                    *)
LEMMA StepServeHide ==
    ASSUME ChatInv, NEW i \in DOMAIN calls, ServeHide(i)
    PROVE  ChatInv'
<1>1. /\ HideConversation("me") /\ UNCHANGED <<status, work, room, chat, conn, up, down>>
      /\ calls' = [calls EXCEPT ![i].at = "ok"] /\ calls[i].for # "send" /\ calls \in Seq(ChatRequests)
  BY DEF ServeHide, ChatInv, ChatTypeOK
<1>2. calls' \in Seq(ChatRequests) /\ Fewer(calls', calls) /\ (Has(calls, Posts) => Has(calls', Posts))
  BY <1>1, FewerAnswered
<1>3. QED
  BY <1>1, <1>2, StepHides

(* A request fails.                                                        *)
LEMMA StepFails ==
    ASSUME ChatInv, NEW i \in DOMAIN calls, RequestFails(i)
    PROVE  ChatInv'
<1>1. /\ UNCHANGED <<status, msgs, work, room, chat, conn, up, down>>
      /\ msgs \in Seq(Messages) /\ status \in {"ACTIVE", "CLOSED"}
  BY DEF RequestFails, ChatInv, ChatTypeOK
<1>2. calls' = [calls EXCEPT ![i].at = "error"] /\ calls \in Seq(ChatRequests) /\ calls[i] \in ChatRequests
  BY DEF RequestFails, ChatInv, ChatTypeOK
<1>3. calls' \in Seq(ChatRequests) /\ Fewer(calls', calls) /\ (Has(calls, Posts) => Has(calls', Posts))
  <2>1. \/ calls' = [calls EXCEPT ![i].at = "serving"]
        \/ calls' = [calls EXCEPT ![i].at = "error"]
        \/ calls' = [calls EXCEPT ![i].at = "ok"] /\ calls[i].for # "send"
    BY <1>2
  <2>2. calls \in Seq(ChatRequests) /\ i \in DOMAIN calls
    BY <1>2
  <2>3. QED
    BY <2>1, <2>2, FewerAnswered
<1>4. QED
  BY <1>1, <1>3, StepQuiet

(* A history is read while nothing else is at work.                        *)
LEMMA StepHistory ==
    ASSUME ~ChatOverlap, ChatInv, NEW i \in DOMAIN calls, ServeConversation(i) \/ ServeMessages(i)
    PROVE  ChatInv'
<1>1. /\ UNCHANGED <<status, msgs, work, room, chat, conn, up, down>> /\ calls \in Seq(ChatRequests)
      /\ calls[i].for # "send" /\ \A p \in ChatHandlers : work[p].pc = "idle"
      /\ msgs \in Seq(Messages) /\ Len(msgs) <= MaxMessages
      /\ calls[i] \in ChatRequests /\ DOMAIN calls = 1 .. Len(calls)
  BY DEF ServeConversation, ServeMessages, ServerFree, ChatInv, ChatTypeOK
<1>2. PICK z \in {FirstMessages, EntriesOf(Kept)}, c \in BOOLEAN :
          calls' = [calls EXCEPT ![i] = [@ EXCEPT !.at = "ok", !.history = z, !.closed = c]]
  <2>1. CASE ServeConversation(i)
    BY <2>1 DEF ServeConversation
  <2>2. CASE ServeMessages(i)
    <3>1. calls[i].closed \in BOOLEAN
      BY <1>1 DEF ChatRequests
    <3>2. calls' = [calls EXCEPT ![i] = [@ EXCEPT !.at = "ok", !.history = EntriesOf(Kept),
                                                 !.closed = calls[i].closed]]
      BY <1>1, <2>2 DEF ServeMessages, ChatRequests
    <3>3. QED
      BY <3>1, <3>2
  <2>3. QED
    BY <2>1, <2>2
<1>3. /\ z \in Seq(Entries) /\ \A x : Single(z, Of(x))
      /\ \A x : Has(z, Of(x)) => x \in 1 .. Len(msgs)
  BY <1>1, HistoryFacts
<1> DEFINE a == [calls[i] EXCEPT !.at = "ok", !.history = z, !.closed = c]
<1>4. /\ a \in ChatRequests /\ a.for = calls[i].for /\ a.mine = calls[i].mine /\ a.history = z
  BY <1>1, <1>3 DEF ChatRequests
<1>5. calls' = [calls EXCEPT ![i] = a]
  BY <1>2
<1> HIDE DEF a
<1>6. /\ a \in Mine <=> calls[i] \in Mine
      /\ a \in LoadsAsked <=> calls[i] \in LoadsAsked
      /\ a \notin Posts /\ calls[i] \notin Posts
      /\ \A x : a \notin Confirms(x)
  BY <1>1, <1>4 DEF Mine, LoadsAsked, Posts, Confirms
<1>7. a \notin Broken
  <2>1. 0 \notin 1 .. Len(msgs)
    OBVIOUS
  <2>2. QED
    BY <1>1, <1>3, <1>4, <2>1 DEF Broken
<1>8. \A x : a \in Tells(x) => x \in 1 .. Len(msgs)
  BY <1>3, <1>4 DEF Tells
<1>9. /\ calls' \in Seq(ChatRequests) /\ DOMAIN calls' = DOMAIN calls /\ calls'[i] = a
      /\ \A k \in DOMAIN calls : k # i => calls'[k] = calls[k]
  BY <1>1, <1>4, <1>5, Written
<1>10. /\ Has(calls', Mine) => Has(calls, Mine)
       /\ Has(calls', LoadsAsked) => Has(calls, LoadsAsked)
       /\ Single(calls, LoadsAsked) => Single(calls', LoadsAsked)
       /\ Has(calls', Posts) <=> Has(calls, Posts)
       /\ Single(calls, Posts) => Single(calls', Posts)
       /\ \A x : Has(calls', Confirms(x)) => Has(calls, Confirms(x))
       /\ Has(calls', Broken) => Has(calls, Broken)
       /\ \A x : Has(calls', Tells(x)) => Has(calls, Tells(x)) \/ x \in 1 .. Len(msgs)
  BY <1>6, <1>7, <1>8, <1>9 DEF Has, Single
<1>11. ChatTypeOK'
  BY <1>1, <1>9 DEF ChatInv, ChatTypeOK
<1>12. OneAtWork'
  BY <1>1 DEF OneAtWork, Busy
<1>13. OnLine'
  BY <1>1, <1>10 DEF ChatInv, OnLine, Working, Works, Busy
<1>14. OneLoad'
  BY <1>1, <1>10 DEF ChatInv, OneLoad
<1>15. OneSend'
  BY <1>1, <1>10 DEF ChatInv, OneSend, Working, Works, Busy
<1>16. IdsKnown'
  <2>1. Known = Len(msgs) /\ Known' = Len(msgs) /\ Len(msgs) \in Nat
    BY <1>1 DEF Known, Marking
  <2>2. \A x \in Ids : x > Len(msgs) => x \notin 1 .. Len(msgs)
    BY <2>1 DEF Ids
  <2>3. QED
    BY <1>1, <1>10, <2>1, <2>2 DEF ChatInv, IdsKnown
<1>17. EachOnce'
  BY <1>1, <1>10 DEF ChatInv, EachOnce
<1>18. Settled'
  BY <1>1, <1>10 DEF ChatInv, Settled, Settling, Joined, Covered, WorksOn, Works, Busy
<1>19. QED
  BY <1>11, <1>12, <1>13, <1>14, <1>15, <1>16, <1>17, <1>18 DEF ChatInv

(* The page hears that the conversation could not be hidden, or is not     *)
(* there to hear.                                                          *)
LEMMA StepNotHidden ==
    ASSUME ChatInv, NEW i \in DOMAIN calls, HideReply(i), ~(calls[i].at = "ok" /\ calls[i].mine)
    PROVE  ChatInv'
<1>1. /\ UNCHANGED <<status, msgs, work, room, chat, conn, up, down>>
      /\ calls' = RemoveAt(calls, i) /\ calls \in Seq(ChatRequests) /\ calls[i] \notin Posts
      /\ msgs \in Seq(Messages) /\ status \in {"ACTIVE", "CLOSED"}
  BY DEF HideReply, ChatInv, ChatTypeOK, Posts
<1>2. calls' \in Seq(ChatRequests) /\ Fewer(calls', calls)
  BY <1>1, FewerLess
<1>3. Has(calls, Posts) => Has(calls', Posts)
  BY <1>1, HasLess
<1>4. QED
  BY <1>1, <1>2, <1>3, StepQuiet

-----------------------------------------------------------------------------
(* The handlers                                                            *)

(* A handler begins, while no other is at work.                            *)
LEMMA HandlerStarts ==
    ASSUME ChatInv, \A q \in ChatHandlers : work[q].pc = "idle", NEW p \in ChatHandlers,
           NEW by \in Members, NEW via \in {"socket", "rest"}, NEW text \in Texts,
           Start(p, by, via, text), UNCHANGED <<msgs, room>>
    PROVE  /\ work' \in [ChatHandlers -> HandlerRecords] /\ OneAtWork' /\ Known' = Known
           /\ \A q \in ChatHandlers : ~Works(q)
           /\ \A q \in ChatHandlers : Works(q)' <=> q = p /\ by = "me" /\ via = "socket"
           /\ work'[p].text = text
<1> DEFINE w == [pc |-> "create", by |-> by, via |-> via, text |-> text, id |-> 0]
<1>1. w \in HandlerRecords /\ w.pc = "create" /\ w.by = by /\ w.via = via /\ w.text = text
  BY DEF HandlerRecords
<1>2. work' = [work EXCEPT ![p] = w] /\ work \in [ChatHandlers -> HandlerRecords]
  BY DEF Start, ChatInv, ChatTypeOK
<1> HIDE DEF w
<1>3. /\ work' \in [ChatHandlers -> HandlerRecords] /\ work'[p] = w
      /\ \A q \in ChatHandlers : q # p => work'[q] = work[q]
  BY <1>1, <1>2
<1>4. \A q \in ChatHandlers : (q # p => work'[q].pc = "idle") /\ work'[q].pc # "mark"
  BY <1>1, <1>3
<1>5. OneAtWork'
  BY <1>1, <1>3, <1>4 DEF OneAtWork, Busy
<1>6. Known' = Known
  BY <1>4 DEF Known, Marking
<1>7. \A q \in ChatHandlers : ~Works(q)
  BY DEF Works, Busy
<1>8. \A q \in ChatHandlers : Works(q)' <=> q = p /\ by = "me" /\ via = "socket"
  BY <1>1, <1>3, <1>4 DEF Works, Busy
<1>9. QED
  BY <1>1, <1>3, <1>5, <1>6, <1>7, <1>8

(* A message that does not come over the page's socket.                    *)
LEMMA StepOtherStarts ==
    ASSUME ChatInv, \A q \in ChatHandlers : work[q].pc = "idle", NEW p \in ChatHandlers,
           NEW by \in Members, NEW via \in {"socket", "rest"}, NEW text \in Texts,
           by = "me" => via = "rest",
           Start(p, by, via, text), UNCHANGED <<status, msgs, room, chat, conn, up, down>>,
           calls' \in Seq(ChatRequests), Fewer(calls', calls), Has(calls, Posts) => Has(calls', Posts)
    PROVE  ChatInv'
<1>1. /\ work' \in [ChatHandlers -> HandlerRecords] /\ OneAtWork' /\ Known' = Known
      /\ ~Working /\ ~Working' /\ \A t : ~WorksOn(t)
  BY HandlerStarts DEF Working, WorksOn
<1>2. ChatTypeOK'
  BY <1>1 DEF ChatInv, ChatTypeOK
<1>3. OnLine'
  BY <1>1 DEF ChatInv, OnLine, Fewer
<1>4. OneLoad'
  BY DEF ChatInv, OneLoad, Fewer
<1>5. OneSend'
  BY <1>1 DEF ChatInv, OneSend, Fewer
<1>6. IdsKnown'
  BY <1>1 DEF ChatInv, IdsKnown, Fewer
<1>7. EachOnce'
  BY DEF ChatInv, EachOnce, Fewer
<1>8. Settled'
  BY <1>1 DEF ChatInv, Settled, Settling, Joined, Covered
<1>9. QED
  BY <1>1, <1>2, <1>3, <1>4, <1>5, <1>6, <1>7, <1>8 DEF ChatInv

(* The server receives a message sent by HTTP: it refuses it, or begins to *)
(* create it.                                                              *)
LEMMA StepRestSend ==
    ASSUME ~ChatOverlap, ChatInv, NEW i \in DOMAIN calls, NEW p \in ChatHandlers, RestSend(p, i)
    PROVE  ChatInv'
<1>1. /\ UNCHANGED <<status, msgs, room, chat, conn, up, down>>
      /\ calls \in Seq(ChatRequests) /\ calls[i] \in ChatRequests
      /\ msgs \in Seq(Messages) /\ status \in {"ACTIVE", "CLOSED"}
      /\ \A q \in ChatHandlers : work[q].pc = "idle"
  BY DEF RestSend, ServerFree, ChatInv, ChatTypeOK
<1>2. \/ calls' = [calls EXCEPT ![i].at = "serving"]
      \/ calls' = [calls EXCEPT ![i].at = "error"]
      \/ calls' = [calls EXCEPT ![i].at = "ok"] /\ calls[i].for # "send"
  BY DEF RestSend
<1>3. calls' \in Seq(ChatRequests) /\ Fewer(calls', calls) /\ (Has(calls, Posts) => Has(calls', Posts))
  <2>1. calls \in Seq(ChatRequests) /\ i \in DOMAIN calls
    BY <1>1
  <2>2. QED
    BY <1>2, <2>1, FewerAnswered
<1>4. CASE status = "CLOSED"
  <2>1. UNCHANGED work
    BY <1>4 DEF RestSend
  <2>2. QED
    BY <1>1, <1>3, <2>1, StepQuiet
<1>5. CASE status # "CLOSED"
  <2>1. Start(p, "me", "rest", calls[i].text) /\ calls[i].text \in Texts
    BY <1>1, <1>5 DEF RestSend, ChatRequests
  <2>2. QED
    BY <1>1, <1>3, <2>1, StepOtherStarts DEF Members
<1>6. QED
  BY <1>4, <1>5

(* The peer sends a message.                                               *)
LEMMA StepPeerSends ==
    ASSUME ~ChatOverlap, ChatInv, NEW p \in ChatHandlers, NEW text \in Texts,
           NEW via \in {"socket", "rest"}, PeerSends(p, text, via)
    PROVE  ChatInv'
<1>1. /\ UNCHANGED <<status, msgs, room, chat, conn, up, down, calls>>
      /\ calls \in Seq(ChatRequests) /\ Start(p, "peer", via, text)
      /\ \A q \in ChatHandlers : work[q].pc = "idle"
  BY DEF PeerSends, ServerFree, ChatInv, ChatTypeOK
<1>2. QED
  BY <1>1, FewerSame, StepOtherStarts DEF Members

(* What the gateway sends beside messages.                                 *)
LEMMA EventKinds ==
    /\ \A what \in {"closed", "ack", "nack"} :
          Event(what) \in Events /\ Event(what).what = what /\ Event(what) \notin News
    /\ Event("ack") \in Acks /\ Event("nack") \in Nacks
    /\ Event("ack") \in Answers /\ Event("nack") \in Answers /\ Event("closed") \notin Answers
<1> DEFINE e == PendingEntry(AnyText)
<1>1. e \in Entries
  BY AnyTextIs DEF PendingEntry, Entries, Members
<1> HIDE DEF e
<1>2. \A what \in {"closed", "ack", "nack"} :
          /\ [what |-> what, entry |-> e] \in Events
          /\ Event(what) = [what |-> what, entry |-> e]
  BY <1>1 DEF Event, Events, e
<1>3. QED
  BY <1>2 DEF News, Acks, Nacks, Answers

(* It is put at the end of what is on its way down.                        *)
LEMMA WasSent ==
    ASSUME NEW s \in Seq(Events), NEW e \in Events, NEW z, z = Append(s, e)
    PROVE  /\ z \in Seq(Events)
           /\ \A T : Has(z, T) <=> Has(s, T) \/ e \in T
           /\ \A T : Single(s, T) /\ ~(Has(s, T) /\ e \in T) => Single(z, T)
           /\ \A T, B : Ahead(s, T, B) \/ (Has(s, T) /\ e \in B) => Ahead(z, T, B)
<1>1. z \in Seq(Events)
  OBVIOUS
<1>2. ASSUME NEW T, NEW B
      PROVE  /\ Has(z, T) <=> Has(s, T) \/ e \in T
             /\ Single(s, T) /\ ~(Has(s, T) /\ e \in T) => Single(z, T)
             /\ Ahead(s, T, B) \/ (Has(s, T) /\ e \in B) => Ahead(z, T, B)
  BY HasMore
<1>3. QED
  BY <1>1, <1>2

(* What the page emitted first has come to the gateway.                    *)
LEMMA Arrived ==
    ASSUME ChatInv, NEW what \in {"join", "send"}, Arrives(what)
    PROVE  /\ conn.st = "connected" /\ up \in Seq(Emits) /\ up # <<>> /\ up' = Tail(up)
           /\ up' \in Seq(Emits) /\ Head(up) \in Emits /\ Head(up).what = what
           /\ \A T : /\ Head(up) \in T => Has(up, T)
                     /\ Has(up', T) => Has(up, T)
                     /\ Has(up, T) => Head(up) \in T \/ Has(up', T)
                     /\ Single(up, T) => Single(up', T)
                     /\ Single(up, T) /\ Head(up) \in T => ~Has(up', T)
           /\ \A T, B : /\ Ahead(up, T, B) /\ Head(up) \notin T => Ahead(up', T, B)
                        /\ Ahead(up, T, B) => Has(up', B)
           /\ what = "send" => Head(up) \in Sends /\ Head(up) \notin Joins
           /\ what = "join" => Head(up) \in Joins /\ Head(up) \notin Sends
<1>1. /\ conn.st = "connected" /\ up \in Seq(Emits) /\ up # <<>> /\ up' = Tail(up)
      /\ Head(up).what = what
  BY DEF Arrives, ChatInv, ChatTypeOK
<1>2. /\ Tail(up) \in Seq(Emits) /\ Head(up) \in Emits
      /\ \A T : /\ Head(up) \in T => Has(up, T)
                /\ Has(Tail(up), T) => Has(up, T)
                /\ Has(up, T) => Head(up) \in T \/ Has(Tail(up), T)
                /\ Single(up, T) => Single(Tail(up), T)
                /\ Single(up, T) /\ Head(up) \in T => ~Has(Tail(up), T)
      /\ \A T, B : /\ Ahead(up, T, B) /\ Head(up) \notin T => Ahead(Tail(up), T, B)
                   /\ Ahead(up, T, B) => Has(Tail(up), B)
  BY <1>1, HasRest
<1>3. /\ what = "send" => Head(up) \in Sends /\ Head(up) \notin Joins
      /\ what = "join" => Head(up) \in Joins /\ Head(up) \notin Sends
  BY <1>1, <1>2 DEF Sends, Joins
<1>4. QED
  BY <1>1, <1>2, <1>3

(* The gateway receives a message of the page: it refuses it, or begins to *)
(* create it.                                                              *)
LEMMA StepHandleSend ==
    ASSUME ~ChatOverlap, ChatInv, NEW p \in ChatHandlers, HandleSend(p)
    PROVE  ChatInv'
<1>1. /\ UNCHANGED <<status, msgs, room, chat, conn, calls>> /\ Arrives("send")
      /\ \A q \in ChatHandlers : work[q].pc = "idle"
      /\ status = "CLOSED" => down' = Append(down, Event("nack")) /\ UNCHANGED work
      /\ status # "CLOSED" => Start(p, "me", "socket", Head(up).text) /\ UNCHANGED down
  BY DEF HandleSend, Arrives, ServerFree, ChatInv, ChatTypeOK
<1>2. /\ conn.st = "connected" /\ up \in Seq(Emits) /\ up' \in Seq(Emits)
      /\ Head(up) \in Sends /\ Head(up) \notin Joins
      /\ Has(up, Sends)
      /\ Single(up, Sends) => Single(up', Sends) /\ ~Has(up', Sends)
      /\ Has(up, Joins) <=> Has(up', Joins)
      /\ \A t : Has(up, SendsOf(t)) => Head(up).text = t \/ Has(up', SendsOf(t))
      /\ \A t : Ahead(up, Joins, SendsOf(t)) => Has(up', SendsOf(t))
      /\ \A t : Has(up', SendsOf(t)) => Has(up', Sends)
  <2>1. \A t : Head(up) \in SendsOf(t) => Head(up).text = t
    BY DEF SendsOf
  <2>2. \A t : Has(up', SendsOf(t)) => Has(up', Sends)
    BY HasPart, PartsOfKinds
  <2>3. QED
    BY <1>1, <2>1, <2>2, Arrived
<1>3. /\ ~Has(up', Sends) /\ Single(up', Sends) /\ ~Has(down, Answers) /\ ~Has(calls, Posts)
      /\ ~Working /\ \A t : ~WorksOn(t)
      /\ chat.sending /\ down \in Seq(Events) /\ work \in [ChatHandlers -> HandlerRecords]
      /\ status \in {"ACTIVE", "CLOSED"}
  BY <1>2 DEF ChatInv, ChatTypeOK, OneSend, Working, WorksOn
<1>4. \A t : /\ ~Has(down, Nacks) /\ ~Ahead(down, MineOf(t), Acks)
             /\ Has(up, SendsOf(t)) /\ (room \/ Ahead(up, Joins, SendsOf(t)))
                => Head(up).text = t /\ room
  <2>1. ~Has(down, Nacks) /\ ~Has(down, Acks)
    BY <1>3, HasPart, PartsOfKinds
  <2>2. \A T : ~Ahead(down, T, Acks)
    BY <2>1 DEF Ahead, Has
  <2>3. QED
    BY <1>2, <1>3, <2>1, <2>2
<1>5. \A t : Covered(t) => Head(up).text = t /\ room
  BY <1>3, <1>4 DEF Covered
<1>6. CASE status = "CLOSED"
  <2>1. /\ down' \in Seq(Events) /\ Has(down', Nacks) /\ Single(down', Answers)
        /\ \A T : Single(down, T) /\ Event("nack") \notin T => Single(down', T)
        /\ \A T : Event("nack") \notin T => (Has(down', T) <=> Has(down, T))
    <3>1. Event("nack") \in Events /\ Event("nack") \in Nacks /\ Event("nack") \in Answers
      BY EventKinds
    <3>2. Single(down, Answers)
      BY <1>3 DEF Has, Single
    <3>3. down' = Append(down, Event("nack")) /\ work' = work
      BY <1>1, <1>6
    <3>4. /\ down' \in Seq(Events)
          /\ \A T : Has(down', T) <=> Has(down, T) \/ Event("nack") \in T
          /\ \A T : Single(down, T) /\ ~(Has(down, T) /\ Event("nack") \in T)
                       => Single(down', T)
      BY <1>3, <3>1, <3>3, WasSent
    <3>5. Has(down', Nacks) /\ Single(down', Answers)
      BY <1>3, <3>1, <3>2, <3>4
    <3>6. /\ \A T : Single(down, T) /\ Event("nack") \notin T => Single(down', T)
          /\ \A T : Event("nack") \notin T => (Has(down', T) <=> Has(down, T))
      BY <3>4
    <3>7. QED
      BY <3>4, <3>5, <3>6
  <2>2. Event("nack") \notin News /\ \A x : Event("nack") \notin NewsOf(x)
    BY EventKinds, PartsOfKinds
  <2>3. work' = work
    BY <1>1, <1>6
  <2>4. ChatTypeOK'
    BY <1>1, <1>2, <2>1, <2>3 DEF ChatInv, ChatTypeOK
  <2>5. OneAtWork'
    BY <1>1, <2>3 DEF ChatInv, OneAtWork, Busy
  <2>6. OnLine'
    BY <1>1, <1>2 DEF ChatInv, OnLine
  <2>7. OneLoad'
    BY <1>1, <1>2, <2>1, <2>2 DEF ChatInv, OneLoad
  <2>8. OneSend'
    <3>1. ~Working'
      BY <1>3, <2>3 DEF Working, Works, Busy
    <3>2. QED
      BY <1>1, <1>3, <2>1, <3>1 DEF ChatInv, OneSend
  <2>9. IdsKnown'
    BY <1>1, <2>1, <2>2, <2>3 DEF ChatInv, IdsKnown, Known, Marking
  <2>10. EachOnce'
    BY <1>1, <2>1, <2>2 DEF ChatInv, EachOnce
  <2>11. Settled'
    BY <1>1, <1>2, <2>1 DEF ChatInv, Settled, Settling, Joined, Covered
  <2>12. QED
    BY <2>4, <2>5, <2>6, <2>7, <2>8, <2>9, <2>10, <2>11 DEF ChatInv
<1>7. CASE status # "CLOSED"
  <2>1. /\ down' = down /\ Start(p, "me", "socket", Head(up).text)
        /\ Head(up).text \in Texts
    <3>1. Head(up) \in Emits
      BY <1>2 DEF Sends
    <3>2. QED
      BY <1>1, <1>7, <3>1 DEF Emits
  <2>2. /\ work' \in [ChatHandlers -> HandlerRecords] /\ OneAtWork' /\ Known' = Known
        /\ Works(p)' /\ work'[p].text = Head(up).text
    BY <1>1, <2>1, HandlerStarts DEF Members
  <2>3. ChatTypeOK'
    BY <1>1, <1>2, <2>1, <2>2 DEF ChatInv, ChatTypeOK
  <2>4. OnLine'
    BY <1>1, <1>2, <2>1 DEF ChatInv, OnLine
  <2>5. OneLoad'
    BY <1>1, <1>2, <2>1 DEF ChatInv, OneLoad
  <2>6. OneSend'
    BY <1>1, <1>3, <2>1 DEF ChatInv, OneSend
  <2>7. IdsKnown'
    BY <1>1, <2>1, <2>2 DEF ChatInv, IdsKnown
  <2>8. EachOnce'
    BY <1>1, <2>1 DEF ChatInv, EachOnce
  <2>9. Settled'
    <3>1. \A t : t = Head(up).text => WorksOn(t)'
      BY <2>2 DEF WorksOn
    <3>2. \A t : Covered(t) => WorksOn(t)' /\ room'
      BY <1>1, <1>5, <3>1
    <3>3. \A t : WorksOn(t)' /\ room' => Covered(t)'
      BY DEF Covered
    <3>4. QED
      BY <1>1, <1>2, <3>2, <3>3 DEF ChatInv, Settled, Settling, Joined
  <2>10. QED
    BY <2>2, <2>3, <2>4, <2>5, <2>6, <2>7, <2>8, <2>9 DEF ChatInv
<1>8. QED
  BY <1>6, <1>7

(* The message is in the table, and nobody has been told.                  *)
LEMMA StepCreate ==
    ASSUME ChatInv, NEW p \in ChatHandlers, CreateMessage(p)
    PROVE  ChatInv'
<1> DEFINE n == Len(msgs) + 1
           m == [by |-> work[p].by, text |-> work[p].text, deleted |-> FALSE]
           w == [work[p] EXCEPT !.pc = "mark", !.id = n]
<1>1. /\ UNCHANGED <<status, room, chat, conn, up, down, calls>> /\ work[p].pc = "create"
      /\ msgs' = Append(msgs, m) /\ Len(msgs) < MaxMessages /\ work' = [work EXCEPT ![p] = w]
      /\ msgs \in Seq(Messages) /\ work \in [ChatHandlers -> HandlerRecords]
  BY DEF CreateMessage, ChatInv, ChatTypeOK
<1>2. work[p] \in HandlerRecords /\ Len(msgs) \in Nat /\ MaxMessages \in Nat
  BY <1>1, ChatAssumption
<1>3. n \in Ids /\ m \in Messages /\ m.by = work[p].by /\ m.text = work[p].text
  BY <1>1, <1>2 DEF Ids, Messages, HandlerRecords
<1>4. w \in HandlerRecords /\ w.pc = "mark" /\ w.id = n /\ w.by = work[p].by /\ w.via = work[p].via
      /\ w.text = work[p].text
  BY <1>2, <1>3 DEF HandlerRecords
<1> HIDE DEF m, w
<1>5. msgs' \in Seq(Messages) /\ Len(msgs') = n /\ msgs'[n] = m
  BY <1>1, <1>3
<1>6. /\ work' \in [ChatHandlers -> HandlerRecords] /\ work'[p] = w
      /\ \A q \in ChatHandlers : q # p => work'[q] = work[q]
  BY <1>1, <1>4
<1>7. \A q \in ChatHandlers : q # p => work[q].pc = "idle"
  BY <1>1 DEF ChatInv, OneAtWork, Busy
<1>8. \A q \in ChatHandlers : Busy(q)' = Busy(q) /\ Works(q)' = Works(q) /\ work'[q].text = work[q].text
  BY <1>1, <1>4, <1>6, <1>7 DEF Busy, Works
<1>9. Known = Len(msgs) /\ Known' = Len(msgs)
  <2>1. ~Marking
    BY <1>1, <1>7 DEF Marking
  <2>2. Marking'
    BY <1>4, <1>6 DEF Marking
  <2>3. QED
    BY <1>2, <1>5, <2>1, <2>2 DEF Known
<1>10. ChatTypeOK'
  BY <1>1, <1>2, <1>5, <1>6 DEF ChatInv, ChatTypeOK
<1>11. OneAtWork'
  <2>1. \A q \in ChatHandlers : work'[q].pc = "mark" => q = p
    BY <1>6, <1>7
  <2>2. n > 0
    BY <1>2
  <2>3. \A q \in ChatHandlers : Busy(q)' => q = p
    BY <1>7, <1>8 DEF Busy
  <2>4. work'[p].via = "gone" => ~room'
    BY <1>1, <1>4, <1>6 DEF ChatInv, OneAtWork, Busy
  <2>5. QED
    BY <1>3, <1>4, <1>5, <1>6, <2>1, <2>2, <2>3, <2>4 DEF OneAtWork
<1>12. Working' = Working /\ \A t : WorksOn(t)' = WorksOn(t)
  BY <1>8 DEF Working, WorksOn
<1>13. OnLine' /\ OneLoad' /\ EachOnce'
  BY <1>1, <1>12 DEF ChatInv, OnLine, OneLoad, EachOnce
<1>14. OneSend'
  BY <1>1, <1>12 DEF ChatInv, OneSend
<1>15. IdsKnown'
  BY <1>1, <1>9 DEF ChatInv, IdsKnown
<1>16. Settled'
  BY <1>1, <1>12 DEF ChatInv, Settled, Settling, Joined, Covered
<1>17. QED
  BY <1>10, <1>11, <1>13, <1>14, <1>15, <1>16 DEF ChatInv

(* A handler returns, with whatever it sends to the page and its answer.   *)
LEMMA StepAnswers ==
    ASSUME ChatInv, NEW p \in ChatHandlers, Busy(p), Return(p),
           UNCHANGED <<status, msgs, room, chat, conn, up>>,
           down' \in Seq(Events), calls' \in Seq(ChatRequests),
           conn.st # "connected" => down' = down,
           Has(calls', Mine) => Has(calls, Mine),
           Has(calls', LoadsAsked) => Has(calls, LoadsAsked),
           Single(calls', LoadsAsked), Single(calls', Posts),
           Has(calls', Posts) <=> Has(calls, Posts),
           ~Has(calls', Broken),
           \A x \in Ids : Has(calls', Tells(x)) => Has(calls, Tells(x)) \/ x = Len(msgs),
           \A x \in Ids : Has(calls', Confirms(x)) =>
              \/ Has(calls, Confirms(x))
              \/ x = Len(msgs) /\ work[p].pc = "mark" /\ down' = down,
           Single(down', Answers), Has(down', Answers) => Has(down, Answers) \/ Works(p),
           Has(down', News) => Has(down, News) \/ room, ~Has(down', NewsOf(0)),
           \A x \in Ids : Single(down', NewsOf(x)),
           \A x \in Ids : Has(down', NewsOf(x)) =>
              Has(down, NewsOf(x)) \/ (x = Len(msgs) /\ work[p].pc = "mark"),
           Has(down, Nacks) => Has(down', Nacks),
           \A t : Ahead(down, MineOf(t), Acks) => Ahead(down', MineOf(t), Acks),
           Works(p) /\ room => Has(down', Nacks) \/ Ahead(down', MineOf(work[p].text), Acks)
    PROVE  ChatInv'
<1>1. /\ msgs \in Seq(Messages) /\ Len(msgs) \in Nat /\ work \in [ChatHandlers -> HandlerRecords]
  BY DEF ChatInv, ChatTypeOK
<1>2. \A q \in ChatHandlers : q # p => work[q].pc = "idle"
  BY DEF ChatInv, OneAtWork, Busy
<1>3. AtRest \in HandlerRecords /\ AtRest.pc = "idle"
  BY AnyTextIs DEF AtRest, HandlerRecords, Members
<1>4. work' \in [ChatHandlers -> HandlerRecords] /\ \A q \in ChatHandlers : work'[q].pc = "idle"
  BY <1>1, <1>2, <1>3 DEF Return
<1>5. ~Working' /\ \A t : ~WorksOn(t)'
  BY <1>4 DEF Working, WorksOn, Works, Busy
<1>6. \A t : WorksOn(t) => Works(p) /\ work[p].text = t
  BY <1>2 DEF WorksOn, Works, Busy
<1>7. Known' = Len(msgs) /\ Known <= Len(msgs) /\ Known \in Int
      /\ (work[p].pc = "mark" => Known < Len(msgs))
  BY <1>1, <1>4 DEF Known, Marking
<1>8. Works(p) => Working
  BY DEF Working
<1>9. ChatTypeOK'
  BY <1>4 DEF ChatInv, ChatTypeOK
<1>10. OneAtWork'
  BY <1>4 DEF OneAtWork, Busy
<1>11. OnLine'
  BY <1>5 DEF ChatInv, OnLine
<1>12. OneLoad'
  BY DEF ChatInv, OneLoad
<1>13. OneSend'
  BY <1>5, <1>8 DEF ChatInv, OneSend
<1>14. IdsKnown'
  <2>1. \A x \in Ids : x > Len(msgs) => x > Known /\ x # Len(msgs)
    BY <1>1, <1>7 DEF Ids
  <2>2. QED
    BY <1>7, <2>1 DEF ChatInv, IdsKnown
<1>15. EachOnce'
  <2>1. work[p].pc = "mark" /\ Len(msgs) \in Ids =>
              LET x == Len(msgs)
              IN  ~Has(chat.shown, Of(x)) /\ ~Has(down, NewsOf(x)) /\ ~Has(calls, Tells(x))
    BY <1>1, <1>7 DEF ChatInv, IdsKnown, Ids
  <2>2. \A x : Has(calls, Confirms(x)) => Has(calls, Tells(x))
    BY HasPart, PartsOfKinds
  <2>3. ASSUME NEW x \in Ids
        PROVE  /\ Single(chat.shown, Of(x))
               /\ ~(Has(chat.shown, Of(x)) /\ Has(down', NewsOf(x)))
               /\ Has(calls', Confirms(x)) =>
                     /\ ~Has(down', NewsOf(x))
                     /\ Has(chat.shown, Of(0)) => ~Has(chat.shown, Of(x))
    BY <2>1, <2>2 DEF ChatInv, EachOnce
  <2>4. QED
    BY <2>3 DEF EachOnce
<1>16. Settled'
  <2>1. \A t : Covered(t) => Covered(t)'
    BY <1>6 DEF Covered
  <2>2. QED
    BY <2>1 DEF ChatInv, Settled, Settling, Joined
<1>17. QED
  BY <1>9, <1>10, <1>11, <1>12, <1>13, <1>14, <1>15, <1>16 DEF ChatInv

(* A sequence, element by element.                                         *)
LEMMA AllOf ==
    ASSUME NEW S, NEW n \in Nat, NEW z, z = [k \in 1 .. n |-> z[k]],
           \A k \in 1 .. n : z[k] \in S
    PROVE  z \in Seq(S)
  OBVIOUS

(* The answers that HTTP carries, to whoever is being served.              *)
LEMMA RestAnswered ==
    ASSUME NEW q \in Seq(ChatRequests), NEW st \in {"ok", "error"}, NEW hist \in Seq(Entries),
           ~Has(hist, Of(0)), \A x : Single(hist, Of(x)), st = "ok" => hist # <<>>,
           NEW z, z = [k \in DOMAIN q |-> z[k]],
           \A k \in DOMAIN q : z[k] = IF q[k].at = "serving"
                                      THEN [q[k] EXCEPT !.at = st, !.history = hist]
                                      ELSE q[k]
    PROVE  /\ z \in Seq(ChatRequests)
           /\ Has(z, Mine) => Has(q, Mine)
           /\ Has(z, LoadsAsked) => Has(q, LoadsAsked)
           /\ Single(q, LoadsAsked) => Single(z, LoadsAsked)
           /\ Single(q, Posts) => Single(z, Posts)
           /\ Has(z, Posts) <=> Has(q, Posts)
           /\ Has(z, Broken) => Has(q, Broken)
           /\ \A x : Has(z, Tells(x)) => Has(q, Tells(x)) \/ Has(hist, Of(x))
           /\ \A x : Has(z, Confirms(x)) =>
                 Has(q, Confirms(x)) \/ (st = "ok" /\ Has(hist, Of(x)))
<1>1. DOMAIN q = 1 .. Len(q) /\ Len(q) \in Nat /\ \A k \in DOMAIN q : q[k] \in ChatRequests
  BY PlacesOf
<1> DEFINE a(k) == [q[k] EXCEPT !.at = st, !.history = hist]
<1>2. \A k \in DOMAIN q : /\ a(k) \in ChatRequests /\ a(k).for = q[k].for /\ a(k).mine = q[k].mine
                          /\ a(k).at = st /\ a(k).history = hist
  BY <1>1 DEF ChatRequests
<1>3. \A k \in DOMAIN q : z[k] = a(k) \/ z[k] = q[k]
  OBVIOUS
<1> HIDE DEF a
<1>4. /\ DOMAIN z = DOMAIN q
      /\ \A k \in DOMAIN q : z[k] = a(k) \/ z[k] = q[k]
  BY <1>3
<1>5. z \in Seq(ChatRequests)
  <2>1. z = [k \in 1 .. Len(q) |-> z[k]]
    BY <1>1
  <2>2. \A k \in DOMAIN q : z[k] \in ChatRequests
    BY <1>1, <1>2, <1>4
  <2>3. \A k \in 1 .. Len(q) : z[k] \in ChatRequests
    BY <1>1, <2>2
  <2>4. QED
    BY <1>1, <2>1, <2>3, AllOf
<1>6. \A k \in DOMAIN q : /\ z[k] \in Mine <=> q[k] \in Mine
                          /\ z[k] \in LoadsAsked <=> q[k] \in LoadsAsked
                          /\ z[k] \in Posts <=> q[k] \in Posts
  BY <1>1, <1>2, <1>4 DEF Mine, LoadsAsked, Posts
<1>7. \A k \in DOMAIN q : z[k] \in Broken => q[k] \in Broken
  <2>1. \A k \in DOMAIN q : a(k) \notin Broken
    BY <1>2 DEF Broken
  <2>2. QED
    BY <1>4, <2>1
<1>8. \A x : \A k \in DOMAIN q : z[k] \in Tells(x) => q[k] \in Tells(x) \/ Has(hist, Of(x))
  <2>1. \A x : \A k \in DOMAIN q : a(k) \in Tells(x) => Has(hist, Of(x))
    BY <1>2 DEF Tells
  <2>2. QED
    BY <1>4, <2>1
<1>9. \A x : \A k \in DOMAIN q : z[k] \in Confirms(x) =>
          q[k] \in Confirms(x) \/ (st = "ok" /\ Has(hist, Of(x)))
  <2>1. \A x : \A k \in DOMAIN q : a(k) \in Confirms(x) => st = "ok" /\ Has(hist, Of(x))
    BY <1>2 DEF Confirms
  <2>2. QED
    BY <1>4, <2>1
<1>10. /\ Has(z, Mine) => Has(q, Mine)
       /\ Has(z, LoadsAsked) => Has(q, LoadsAsked)
       /\ Single(q, LoadsAsked) => Single(z, LoadsAsked)
       /\ Single(q, Posts) => Single(z, Posts)
       /\ Has(z, Posts) <=> Has(q, Posts)
  BY <1>4, <1>6 DEF Has, Single
<1>11. Has(z, Broken) => Has(q, Broken)
  BY <1>4, <1>7 DEF Has
<1>12. \A x : Has(z, Tells(x)) => Has(q, Tells(x)) \/ Has(hist, Of(x))
  <2> TAKE x
  <2>1. CASE Has(hist, Of(x))
    BY <2>1
  <2>2. CASE ~Has(hist, Of(x))
    <3>1. \A k \in DOMAIN q : z[k] \in Tells(x) => q[k] \in Tells(x)
      BY <1>8, <2>2
    <3>2. QED
      BY <1>4, <3>1, HasAlike
  <2>3. QED
    BY <2>1, <2>2
<1>13. \A x : Has(z, Confirms(x)) => Has(q, Confirms(x)) \/ (st = "ok" /\ Has(hist, Of(x)))
  <2> TAKE x
  <2>1. CASE st = "ok" /\ Has(hist, Of(x))
    BY <2>1
  <2>2. CASE ~(st = "ok" /\ Has(hist, Of(x)))
    <3>1. \A k \in DOMAIN q : z[k] \in Confirms(x) => q[k] \in Confirms(x)
      BY <1>9, <2>2
    <3>2. QED
      BY <1>4, <3>1, HasAlike
  <2>3. QED
    BY <2>1, <2>2
<1>14. QED
  BY <1>5, <1>10, <1>11, <1>12, <1>13

(* The broadcast of the message that was created last.                     *)
LEMMA Broadcast ==
    ASSUME ChatInv, NEW p \in ChatHandlers, work[p].pc = "mark",
           NEW m, m = [what |-> "message", entry |-> Entry(work[p].id)]
    PROVE  /\ work[p].id = Len(msgs) /\ Len(msgs) \in Ids /\ Len(msgs) > Known
           /\ m \in Events /\ m \in News /\ m \notin Answers
           /\ m.entry \in Entries /\ m.entry.id = Len(msgs)
           /\ m.entry.by = work[p].by /\ m.entry.text = work[p].text
           /\ \A x : m \in NewsOf(x) <=> x = Len(msgs)
           /\ work[p].by = "me" => m \in MineOf(work[p].text)
<1>1. /\ work[p].id = Len(msgs) /\ Len(msgs) > 0 /\ Len(msgs) \in Nat /\ Len(msgs) <= MaxMessages
      /\ msgs[Len(msgs)].by = work[p].by /\ msgs[Len(msgs)].text = work[p].text
      /\ work[p] \in HandlerRecords
  BY DEF ChatInv, ChatTypeOK, OneAtWork
<1>2. Len(msgs) \in Ids
  BY <1>1, ChatAssumption DEF Ids
<1>3. Entry(work[p].id) \in Entries /\ Entry(work[p].id).id = Len(msgs)
      /\ Entry(work[p].id).by = work[p].by /\ Entry(work[p].id).text = work[p].text
  BY <1>1, <1>2 DEF Entry, Entries, HandlerRecords
<1>4. Len(msgs) > Known
  BY <1>1 DEF Known, Marking
<1>5. m \in Events /\ m.what = "message" /\ m.entry = Entry(work[p].id)
  BY <1>3 DEF Events
<1>6. QED
  BY <1>1, <1>2, <1>3, <1>4, <1>5 DEF News, NewsOf, MineOf, Answers

(* The page is sent what goes to the room while it is in it.               *)
LEMMA ToRoomFacts ==
    ASSUME down \in Seq(Events), NEW m \in Events, NEW z, z = ToRoom(m)
    PROVE  /\ z \in Seq(Events)
           /\ \A T : Has(z, T) <=> Has(down, T) \/ (room /\ m \in T)
           /\ \A T : Single(down, T) /\ (m \in T => ~Has(down, T)) => Single(z, T)
           /\ \A T, B : Ahead(down, T, B) => Ahead(z, T, B)
           /\ ~room => z = down
<1>1. CASE room
  BY <1>1, WasSent DEF ToRoom
<1>2. CASE ~room
  BY <1>2 DEF ToRoom
<1>3. QED
  BY <1>1, <1>2

(* The invariant's parts that the answers below rest on.                   *)
LEMMA QueuesOf ==
    ASSUME ChatInv
    PROVE  /\ down \in Seq(Events) /\ calls \in Seq(ChatRequests) /\ work \in [ChatHandlers -> HandlerRecords]
           /\ Single(calls, LoadsAsked) /\ Single(calls, Posts) /\ ~Has(calls, Broken)
           /\ Single(down, Answers) /\ ~Has(down, NewsOf(0))
           /\ \A x \in Ids : Single(down, NewsOf(x))
           /\ \A x \in Ids : x > Known => ~Has(down, NewsOf(x))
           /\ \A p : Works(p) /\ p \in ChatHandlers =>
                 ~Has(down, Answers) /\ conn.st = "connected"
           /\ conn.st # "connected" => ~room
  BY DEF ChatInv, ChatTypeOK, OneLoad, OneSend, IdsKnown, EachOnce, OnLine, Working

(* A handler returns that has worked for an HTTP request ...               *)
LEMMA StepAnswersRest ==
    ASSUME ChatInv, NEW p \in ChatHandlers, Busy(p), Return(p), work[p].by = "me", work[p].via = "rest",
           UNCHANGED <<status, msgs, room, chat, conn, up, down>>,
           NEW st \in {"ok", "error"}, NEW hist \in Seq(Entries),
           ~Has(hist, Of(0)), \A x : Single(hist, Of(x)), st = "ok" => hist # <<>>,
           \A x : Has(hist, Of(x)) => x = Len(msgs) /\ work[p].pc = "mark",
           calls' = [i \in DOMAIN calls |-> IF calls[i].at = "serving"
                                            THEN [calls[i] EXCEPT !.at = st, !.history = hist]
                                            ELSE calls[i]]
    PROVE  ChatInv'
<1>1. /\ down \in Seq(Events) /\ calls \in Seq(ChatRequests)
      /\ Single(calls, LoadsAsked) /\ Single(calls, Posts) /\ ~Has(calls, Broken)
      /\ Single(down, Answers) /\ ~Has(down, NewsOf(0))
      /\ \A x \in Ids : Single(down, NewsOf(x))
  BY QueuesOf
<1>2. /\ calls' \in Seq(ChatRequests)
      /\ Has(calls', Mine) => Has(calls, Mine)
      /\ Has(calls', LoadsAsked) => Has(calls, LoadsAsked)
      /\ Single(calls, LoadsAsked) => Single(calls', LoadsAsked)
      /\ Single(calls, Posts) => Single(calls', Posts)
      /\ Has(calls', Posts) <=> Has(calls, Posts)
      /\ Has(calls', Broken) => Has(calls, Broken)
      /\ \A x : Has(calls', Tells(x)) => Has(calls, Tells(x)) \/ Has(hist, Of(x))
      /\ \A x : Has(calls', Confirms(x)) =>
            Has(calls, Confirms(x)) \/ (st = "ok" /\ Has(hist, Of(x)))
  <2> DEFINE z == calls'
  <2>1. /\ z = [k \in DOMAIN calls |-> z[k]]
        /\ \A k \in DOMAIN calls : z[k] = IF calls[k].at = "serving"
                                          THEN [calls[k] EXCEPT !.at = st, !.history = hist]
                                          ELSE calls[k]
    OBVIOUS
  <2> HIDE DEF z
  <2>2. /\ z \in Seq(ChatRequests)
        /\ Has(z, Mine) => Has(calls, Mine)
        /\ Has(z, LoadsAsked) => Has(calls, LoadsAsked)
        /\ Single(calls, LoadsAsked) => Single(z, LoadsAsked)
        /\ Single(calls, Posts) => Single(z, Posts)
        /\ Has(z, Posts) <=> Has(calls, Posts)
        /\ Has(z, Broken) => Has(calls, Broken)
        /\ \A x : Has(z, Tells(x)) => Has(calls, Tells(x)) \/ Has(hist, Of(x))
        /\ \A x : Has(z, Confirms(x)) =>
              Has(calls, Confirms(x)) \/ (st = "ok" /\ Has(hist, Of(x)))
    BY <1>1, <2>1, RestAnswered
  <2>3. QED
    BY <2>2 DEF z
<1>3. ~Works(p)
  BY DEF Works
<1>4. QED
  BY <1>1, <1>2, <1>3, StepAnswers

(* ... or for somebody's socket.                                           *)
LEMMA StepAnswersHere ==
    ASSUME ChatInv, NEW p \in ChatHandlers, Busy(p), Return(p),
           UNCHANGED <<status, msgs, room, chat, conn, up, calls>>,
           down' \in Seq(Events), conn.st # "connected" => down' = down,
           Single(down', Answers), Has(down', Answers) => Has(down, Answers) \/ Works(p),
           Has(down', News) => Has(down, News) \/ room, ~Has(down', NewsOf(0)),
           \A x \in Ids : Single(down', NewsOf(x)),
           \A x \in Ids : Has(down', NewsOf(x)) =>
              Has(down, NewsOf(x)) \/ (x = Len(msgs) /\ work[p].pc = "mark"),
           Has(down, Nacks) => Has(down', Nacks),
           \A t : Ahead(down, MineOf(t), Acks) => Ahead(down', MineOf(t), Acks),
           Works(p) /\ room => Has(down', Nacks) \/ Ahead(down', MineOf(work[p].text), Acks)
    PROVE  ChatInv'
<1>1. /\ calls \in Seq(ChatRequests)
      /\ Single(calls, LoadsAsked) /\ Single(calls, Posts) /\ ~Has(calls, Broken)
  BY QueuesOf
<1>2. /\ calls' \in Seq(ChatRequests)
      /\ Has(calls', Mine) => Has(calls, Mine)
      /\ Has(calls', LoadsAsked) => Has(calls, LoadsAsked)
      /\ Single(calls', LoadsAsked) /\ Single(calls', Posts)
      /\ Has(calls', Posts) <=> Has(calls, Posts)
      /\ ~Has(calls', Broken)
      /\ \A x \in Ids : Has(calls', Tells(x)) => Has(calls, Tells(x))
      /\ \A x \in Ids : Has(calls', Confirms(x)) => Has(calls, Confirms(x))
  BY <1>1
<1>3. QED
  BY <1>2, StepAnswers

(* A message is broadcast, and the one who sent it is answered.            *)
LEMMA StepFinish ==
    ASSUME ChatInv, NEW p \in ChatHandlers, FinishSend(p)
    PROVE  ChatInv'
<1> DEFINE e == Entry(work[p].id)
           m == [what |-> "message", entry |-> e]
           before == IF work[p].via = "rest" THEN down ELSE ToRoom(m)
<1>1. /\ UNCHANGED <<status, msgs, room, chat, conn, up>> /\ work[p].pc = "mark" /\ Return(p)
      /\ down' = IF work[p].by = "me" /\ work[p].via = "socket" THEN Append(before, Event("ack"))
                 ELSE before
      /\ calls' = IF work[p].by = "me" /\ work[p].via = "rest"
                  THEN [i \in DOMAIN calls |->
                           IF calls[i].at = "serving"
                           THEN [calls[i] EXCEPT !.at = "ok", !.history = <<e>>]
                           ELSE calls[i]]
                  ELSE calls
  BY Zenon DEF FinishSend, Answer
<1>2. /\ work[p].id = Len(msgs) /\ Len(msgs) \in Ids /\ Len(msgs) > Known
      /\ m \in Events /\ m \in News /\ m \notin Answers
      /\ m.entry \in Entries /\ m.entry.id = Len(msgs)
      /\ \A x : m \in NewsOf(x) <=> x = Len(msgs)
      /\ work[p].by = "me" => m \in MineOf(work[p].text)
  BY <1>1, Broadcast
<1>3. e \in Entries /\ e.id = Len(msgs)
  BY <1>2
<1>4. Busy(p)
  BY <1>1 DEF Busy
<1>5. /\ down \in Seq(Events) /\ work[p] \in HandlerRecords /\ Single(down, Answers)
      /\ ~Has(down, NewsOf(0)) /\ \A x \in Ids : Single(down, NewsOf(x))
      /\ ~Has(down, NewsOf(Len(msgs)))
      /\ Works(p) => ~Has(down, Answers) /\ conn.st = "connected"
      /\ conn.st # "connected" => ~room
      /\ 0 \notin Ids
  <2>1. /\ down \in Seq(Events) /\ work[p] \in HandlerRecords /\ Single(down, Answers)
        /\ ~Has(down, NewsOf(0)) /\ \A x \in Ids : Single(down, NewsOf(x))
        /\ conn.st # "connected" => ~room
    BY QueuesOf
  <2>2. ~Has(down, NewsOf(Len(msgs)))
    BY <1>2, QueuesOf
  <2>3. Works(p) => ~Has(down, Answers) /\ conn.st = "connected"
    BY QueuesOf
  <2>4. 0 \notin Ids
    BY DEF Ids
  <2>5. QED
    BY <2>1, <2>2, <2>3, <2>4
<1> HIDE DEF e, m
<1>6. CASE work[p].by = "me" /\ work[p].via = "rest"
  <2> DEFINE hist == <<e>>
  <2>1. /\ hist \in Seq(Entries) /\ hist # <<>> /\ DOMAIN hist = {1} /\ hist[1] = e
    BY <1>3
  <2>2. calls' = [i \in DOMAIN calls |-> IF calls[i].at = "serving"
                                         THEN [calls[i] EXCEPT !.at = "ok", !.history = hist]
                                         ELSE calls[i]]
    BY <1>1, <1>6
  <2>3. down' = down
    BY <1>1, <1>6
  <2> HIDE DEF hist
  <2>4. \A x : Single(hist, Of(x)) /\ (Has(hist, Of(x)) => x = Len(msgs))
    BY <1>3, <2>1 DEF Has, Single, Of
  <2>5. ~Has(hist, Of(0))
    BY <1>2, <1>5, <2>4
  <2>6. \A x : Has(hist, Of(x)) => x = Len(msgs) /\ work[p].pc = "mark"
    BY <1>1, <2>4
  <2>7. QED
    BY <1>1, <1>4, <1>6, <2>1, <2>2, <2>3, <2>4, <2>5, <2>6, StepAnswersRest
<1>7. CASE ~(work[p].by = "me" /\ work[p].via = "rest")
  <2>1. calls' = calls
    BY <1>1, <1>7
  <2> DEFINE z == ToRoom(m)
  <2>2. /\ z \in Seq(Events)
        /\ \A T : Has(z, T) <=> Has(down, T) \/ (room /\ m \in T)
        /\ \A T : Single(down, T) /\ (m \in T => ~Has(down, T)) => Single(z, T)
        /\ \A T, B : Ahead(down, T, B) => Ahead(z, T, B)
        /\ ~room => z = down
    BY <1>2, <1>5, ToRoomFacts
  <2> HIDE DEF z
  <2>3. /\ Single(z, Answers) /\ (Has(z, Answers) => Has(down, Answers))
        /\ Has(z, News) => Has(down, News) \/ room
        /\ ~Has(z, NewsOf(0))
    <3>1. m \notin Answers /\ m \notin NewsOf(0)
      BY <1>2, <1>5
    <3>2. Single(z, Answers) /\ (Has(z, Answers) => Has(down, Answers))
      BY <1>5, <2>2, <3>1
    <3>3. Has(z, News) => Has(down, News) \/ room
      BY <2>2
    <3>4. ~Has(z, NewsOf(0))
      BY <1>5, <2>2, <3>1
    <3>5. QED
      BY <3>2, <3>3, <3>4
  <2>4. \A x \in Ids : /\ Single(z, NewsOf(x))
                       /\ Has(z, NewsOf(x)) => Has(down, NewsOf(x)) \/ x = Len(msgs)
    BY <1>2, <1>5, <2>2
  <2>5. CASE work[p].by = "me" /\ work[p].via = "socket"
    <3>1. Works(p)
      BY <1>4, <2>5 DEF Works
    <3>2. down' = Append(z, Event("ack"))
      BY <1>1, <2>5 DEF z
    <3>3. /\ Event("ack") \in Events /\ Event("ack") \in Acks /\ Event("ack") \in Answers
          /\ Event("ack") \notin News
      BY EventKinds
    <3>4. /\ down' \in Seq(Events)
          /\ \A T : Has(down', T) <=> Has(z, T) \/ Event("ack") \in T
          /\ \A T : Single(z, T) /\ ~(Has(z, T) /\ Event("ack") \in T) => Single(down', T)
          /\ \A T, B : Ahead(z, T, B) \/ (Has(z, T) /\ Event("ack") \in B) => Ahead(down', T, B)
      BY <2>2, <3>2, <3>3, WasSent
    <3>5. \A x : Event("ack") \notin NewsOf(x)
      BY <3>3, PartsOfKinds
    <3>6. room => Ahead(down', MineOf(work[p].text), Acks)
      BY <1>2, <2>2, <2>5, <3>3, <3>4
    <3>7. Single(down', Answers) /\ (Has(down', News) => Has(down, News) \/ room)
          /\ ~Has(down', NewsOf(0)) /\ (Has(down, Nacks) => Has(down', Nacks))
      BY <1>5, <2>2, <2>3, <3>1, <3>3, <3>4, <3>5
    <3>8. \A x \in Ids : /\ Single(down', NewsOf(x))
                         /\ Has(down', NewsOf(x)) =>
                               Has(down, NewsOf(x)) \/ (x = Len(msgs) /\ work[p].pc = "mark")
      BY <1>1, <2>4, <3>4, <3>5
    <3>9. \A t : Ahead(down, MineOf(t), Acks) => Ahead(down', MineOf(t), Acks)
      BY <2>2, <3>4
    <3>10. QED
      BY <1>1, <1>4, <1>5, <2>1, <3>1, <3>4, <3>6, <3>7, <3>8, <3>9, StepAnswersHere
  <2>6. CASE ~(work[p].by = "me" /\ work[p].via = "socket")
    <3>1. ~Works(p)
      BY <2>6 DEF Works
    <3>2. down' = z \/ down' = down
      BY <1>1, <2>6 DEF z
    <3>3. CASE down' = z
      BY <1>1, <1>4, <1>5, <2>1, <2>2, <2>3, <2>4, <3>1, <3>3, StepAnswersHere
    <3>4. CASE down' = down
      BY <1>1, <1>4, <1>5, <2>1, <3>1, <3>4, StepAnswersHere
    <3>5. QED
      BY <3>2, <3>3, <3>4
  <2>7. QED
    BY <2>5, <2>6
<1>8. QED
  BY <1>6, <1>7

(* A message is refused after all; its answer, too, comes once.            *)
LEMMA StepFailsToSend ==
    ASSUME ChatInv, NEW p \in ChatHandlers, FailSend(p)
    PROVE  ChatInv'
<1>1. /\ UNCHANGED <<status, msgs, room, chat, conn, up>> /\ Return(p)
      /\ work[p].pc \in {"create", "mark"}
      /\ down' = IF work[p].by = "me" /\ work[p].via = "socket" THEN Append(down, Event("nack"))
                 ELSE down
      /\ calls' = IF work[p].by = "me" /\ work[p].via = "rest"
                  THEN [i \in DOMAIN calls |->
                           IF calls[i].at = "serving"
                           THEN [calls[i] EXCEPT !.at = "error", !.history = <<>>]
                           ELSE calls[i]]
                  ELSE calls
  BY Zenon DEF FailSend, Answer
<1>2. Busy(p)
  BY <1>1 DEF Busy
<1>3. /\ down \in Seq(Events) /\ Single(down, Answers)
      /\ ~Has(down, NewsOf(0)) /\ \A x \in Ids : Single(down, NewsOf(x))
      /\ Works(p) => ~Has(down, Answers) /\ conn.st = "connected"
  <2>1. /\ down \in Seq(Events) /\ Single(down, Answers)
        /\ ~Has(down, NewsOf(0)) /\ \A x \in Ids : Single(down, NewsOf(x))
    BY QueuesOf
  <2>2. Works(p) => ~Has(down, Answers) /\ conn.st = "connected"
    BY QueuesOf
  <2>3. QED
    BY <2>1, <2>2
<1>4. CASE work[p].by = "me" /\ work[p].via = "rest"
  <2> DEFINE hist == <<>>
  <2>1. hist \in Seq(Entries) /\ \A T : ~Has(hist, T) /\ Single(hist, T)
    BY HasNothing
  <2>2. calls' = [i \in DOMAIN calls |-> IF calls[i].at = "serving"
                                         THEN [calls[i] EXCEPT !.at = "error", !.history = hist]
                                         ELSE calls[i]]
    BY <1>1, <1>4
  <2>3. down' = down
    BY <1>1, <1>4
  <2> HIDE DEF hist
  <2>4. QED
    BY <1>1, <1>2, <1>4, <2>1, <2>2, <2>3, StepAnswersRest
<1>5. CASE work[p].by = "me" /\ work[p].via = "socket"
  <2>1. Works(p)
    BY <1>2, <1>5 DEF Works
  <2>2. down' = Append(down, Event("nack")) /\ calls' = calls
    BY <1>1, <1>5
  <2>3. /\ Event("nack") \in Events /\ Event("nack") \in Nacks /\ Event("nack") \in Answers
        /\ Event("nack") \notin News /\ \A x : Event("nack") \notin NewsOf(x)
    BY EventKinds, PartsOfKinds
  <2>4. /\ down' \in Seq(Events)
        /\ \A T : Has(down', T) <=> Has(down, T) \/ Event("nack") \in T
        /\ \A T : Single(down, T) /\ ~(Has(down, T) /\ Event("nack") \in T) => Single(down', T)
        /\ \A T, B : Ahead(down, T, B) => Ahead(down', T, B)
    BY <1>3, <2>2, <2>3, WasSent
  <2>5. QED
    BY <1>1, <1>2, <1>3, <2>1, <2>2, <2>3, <2>4, StepAnswersHere
<1>6. CASE ~(work[p].by = "me" /\ work[p].via \in {"rest", "socket"})
  <2>1. ~Works(p) /\ down' = down /\ calls' = calls
    BY <1>1, <1>6 DEF Works
  <2>2. QED
    BY <1>1, <1>2, <1>3, <2>1, StepAnswersHere
<1>7. QED
  BY <1>4, <1>5, <1>6

(* The conversation is closed ...                                          *)
LEMMA StepClose == ASSUME ChatInv, CloseConversation PROVE ChatInv'
<1>1. /\ UNCHANGED <<msgs, work, room, chat, conn, up, calls>> /\ status' = "CLOSED"
      /\ down' = ToRoom(Event("closed"))
  BY DEF CloseConversation
<1>2. down \in Seq(Events) /\ (conn.st # "connected" => ~room)
  BY QueuesOf
<1>3. /\ Event("closed") \in Events /\ Event("closed") \notin News
      /\ Event("closed") \notin Answers
  BY EventKinds
<1>4. /\ down' \in Seq(Events)
      /\ \A T : Has(down', T) <=> Has(down, T) \/ (room /\ Event("closed") \in T)
      /\ \A T : Single(down, T) /\ (Event("closed") \in T => ~Has(down, T)) => Single(down', T)
      /\ \A T, B : Ahead(down, T, B) => Ahead(down', T, B)
      /\ ~room => down' = down
  BY <1>1, <1>2, <1>3, ToRoomFacts
<1>5. /\ Has(down', Answers) <=> Has(down, Answers)
      /\ Has(down', News) <=> Has(down, News)
      /\ \A x : Has(down', NewsOf(x)) <=> Has(down, NewsOf(x))
      /\ \A x : Single(down, NewsOf(x)) => Single(down', NewsOf(x))
      /\ Single(down, Answers) => Single(down', Answers)
  BY <1>3, <1>4, PartsOfKinds
<1>6. ChatTypeOK'
  BY <1>1, <1>4 DEF ChatInv, ChatTypeOK
<1>7. OneAtWork'
  BY <1>1 DEF ChatInv, OneAtWork, Busy
<1>8. Working' = Working /\ \A t : WorksOn(t)' = WorksOn(t)
  BY <1>1 DEF Working, WorksOn, Works, Busy
<1>9. OnLine'
  BY <1>1, <1>2, <1>4, <1>8 DEF ChatInv, OnLine
<1>10. OneLoad'
  BY <1>1, <1>5 DEF ChatInv, OneLoad
<1>11. OneSend'
  BY <1>1, <1>5, <1>8 DEF ChatInv, OneSend
<1>12. IdsKnown'
  BY <1>1, <1>5 DEF ChatInv, IdsKnown, Known, Marking
<1>13. EachOnce'
  BY <1>1, <1>5 DEF ChatInv, EachOnce
<1>14. Settled'
  BY <1>1, <1>4, <1>8 DEF ChatInv, Settled, Settling, Joined, Covered
<1>15. QED
  BY <1>6, <1>7, <1>9, <1>10, <1>11, <1>12, <1>13, <1>14 DEF ChatInv

(* The gateway lets the page into the room.                                *)
LEMMA StepJoin == ASSUME ~ChatOverlap, ChatInv, HandleJoin PROVE ChatInv'
<1>1. /\ UNCHANGED <<status, msgs, work, chat, conn, down, calls>> /\ Arrives("join") /\ room' = TRUE
      /\ \A q \in ChatHandlers : work[q].pc = "idle"
  BY DEF HandleJoin, Arrives, ServerFree
<1>2. /\ conn.st = "connected" /\ up' \in Seq(Emits)
      /\ Has(up, Joins)
      /\ Has(up', Joins) => Has(up, Joins)
      /\ Has(up', Sends) => Has(up, Sends)
      /\ Single(up, Sends) => Single(up', Sends)
      /\ \A t : Has(up, SendsOf(t)) => Has(up', SendsOf(t))
  <2>1. \A t : Head(up) \notin Sends => Head(up) \notin SendsOf(t)
    BY PartsOfKinds
  <2>2. QED
    BY <1>1, <2>1, Arrived
<1>3. ChatTypeOK'
  BY <1>1, <1>2 DEF ChatInv, ChatTypeOK
<1>4. OneAtWork'
  BY <1>1 DEF OneAtWork, Busy
<1>5. Working' = Working /\ \A t : WorksOn(t)' = WorksOn(t)
  BY <1>1 DEF Working, WorksOn, Works, Busy
<1>6. OnLine'
  BY <1>1, <1>2, <1>5 DEF ChatInv, OnLine
<1>7. OneLoad'
  BY <1>1, <1>2 DEF ChatInv, OneLoad
<1>8. OneSend'
  BY <1>1, <1>2, <1>5 DEF ChatInv, OneSend
<1>9. IdsKnown'
  BY <1>1 DEF ChatInv, IdsKnown, Known, Marking
<1>10. EachOnce'
  BY <1>1 DEF ChatInv, EachOnce
<1>11. Settled'
  <2>1. \A t : Covered(t) => Covered(t)'
    BY <1>1, <1>2, <1>5 DEF Covered
  <2>2. QED
    BY <1>1, <2>1 DEF ChatInv, Settled, Settling, Joined
<1>12. QED
  BY <1>3, <1>4, <1>6, <1>7, <1>8, <1>9, <1>10, <1>11 DEF ChatInv

-----------------------------------------------------------------------------
(* The socket                                                              *)

(* What the page emits is of the kinds above.                              *)
LEMMA EmitKinds ==
    /\ Joining \in Emits /\ Joining \in Joins /\ Joining \notin Sends
    /\ \A t \in Texts : LET e == [what |-> "send", text |-> t]
                        IN  e \in Emits /\ e \in SendsOf(t) /\ e \in Sends /\ e \notin Joins
<1>1. Joining \in Emits /\ Joining.what = "join"
  BY AnyTextIs DEF Joining, Emits
<1>2. ASSUME NEW t \in Texts
      PROVE  LET e == [what |-> "send", text |-> t]
             IN  e \in Emits /\ e \in SendsOf(t) /\ e \in Sends /\ e \notin Joins
  BY DEF Emits, SendsOf, Sends, Joins
<1>3. QED
  BY <1>1, <1>2 DEF Joins, Sends

(* It is put at the end of what is on its way up.                          *)
LEMMA Emitting ==
    ASSUME NEW s \in Seq(Emits), NEW e \in Emits, NEW z, z = Append(s, e)
    PROVE  /\ z \in Seq(Emits)
           /\ \A T : Has(z, T) <=> Has(s, T) \/ e \in T
           /\ \A T : Single(s, T) /\ ~(Has(s, T) /\ e \in T) => Single(z, T)
           /\ \A T, B : Ahead(s, T, B) \/ (Has(s, T) /\ e \in B) => Ahead(z, T, B)
<1>1. z \in Seq(Emits)
  OBVIOUS
<1>2. ASSUME NEW T, NEW B
      PROVE  /\ Has(z, T) <=> Has(s, T) \/ e \in T
             /\ Single(s, T) /\ ~(Has(s, T) /\ e \in T) => Single(z, T)
             /\ Ahead(s, T, B) \/ (Has(s, T) /\ e \in B) => Ahead(z, T, B)
  BY HasMore
<1>3. QED
  BY <1>1, <1>2

(* What is where while the socket is down: nothing.                        *)
LEMMA OffLine ==
    ASSUME ChatInv, conn.st # "connected"
    PROVE  /\ up = <<>> /\ down = <<>> /\ ~room /\ ~Working
           /\ \A T, B : ~Has(up, T) /\ ~Has(down, T) /\ ~Ahead(up, T, B) /\ ~Ahead(down, T, B)
           /\ \A T : Single(up, T) /\ Single(down, T)
           /\ \A t : Covered(t) => Has(calls, Posts)
<1>1. up = <<>> /\ down = <<>> /\ ~room /\ ~Working
  BY DEF ChatInv, OnLine
<1>2. /\ \A T, B : ~Has(up, T) /\ ~Has(down, T) /\ ~Ahead(up, T, B) /\ ~Ahead(down, T, B)
      /\ \A T : Single(up, T) /\ Single(down, T)
  BY <1>1, HasNothing
<1>3. \A t : ~WorksOn(t)
  BY <1>1 DEF WorksOn, Working
<1>4. QED
  BY <1>1, <1>2, <1>3 DEF Covered

(* The socket is there, and the join that waited for it is emitted.        *)
LEMMA StepConnects == ASSUME ChatInv, SocketConnects PROVE ChatInv'
<1>1. /\ UNCHANGED <<status, msgs, work, room, chat, down, calls>> /\ conn.st = "connecting"
      /\ conn' = [st |-> "connected", join |-> FALSE]
      /\ up' = IF conn.join THEN Append(up, Joining) ELSE up
  BY DEF SocketConnects
<1>2. /\ up = <<>> /\ down = <<>> /\ ~room /\ ~Working
      /\ \A T, B : ~Has(up, T) /\ ~Has(down, T)
      /\ \A T : Single(up, T) /\ Single(down, T)
      /\ \A t : Covered(t) => Has(calls, Posts)
  BY <1>1, OffLine
<1>3. up \in Seq(Emits)
  BY DEF ChatInv, ChatTypeOK
<1>4. /\ up' \in Seq(Emits) /\ ~Has(up', Sends) /\ Single(up', Sends)
      /\ Has(up', Joins) <=> conn.join
  <2>1. CASE conn.join
    <3>1. up' = Append(up, Joining)
      BY <1>1, <2>1
    <3>2. Joining \in Emits /\ Joining \in Joins /\ Joining \notin Sends
      BY EmitKinds
    <3>3. QED
      BY <1>2, <1>3, <2>1, <3>1, <3>2, Emitting
  <2>2. CASE ~conn.join
    BY <1>1, <1>2, <1>3, <2>2
  <2>3. QED
    BY <2>1, <2>2
<1>5. conn' \in Sockets /\ conn'.st = "connected" /\ ~conn'.join
  BY <1>1 DEF Sockets
<1>6. ChatTypeOK'
  BY <1>1, <1>4, <1>5 DEF ChatInv, ChatTypeOK
<1>7. OneAtWork'
  BY <1>1 DEF ChatInv, OneAtWork, Busy
<1>8. ~Working'
  BY <1>1, <1>2 DEF Working, Works, Busy
<1>9. OnLine'
  BY <1>1, <1>5 DEF ChatInv, OnLine
<1>10. OneLoad'
  BY <1>1, <1>2, <1>4, <1>5 DEF ChatInv, OneLoad
<1>11. OneSend'
  BY <1>1, <1>2, <1>4, <1>8 DEF ChatInv, OneSend
<1>12. IdsKnown'
  BY <1>1 DEF ChatInv, IdsKnown, Known, Marking
<1>13. EachOnce'
  BY <1>1 DEF ChatInv, EachOnce
<1>14. Settled'
  <2>1. \A t : Covered(t) => Covered(t)'
    BY <1>1, <1>2 DEF Covered
  <2>2. Joined => Joined'
    BY <1>1, <1>2, <1>4, <1>5 DEF Joined
  <2>3. QED
    BY <1>1, <2>1, <2>2 DEF ChatInv, Settled, Settling
<1>15. QED
  BY <1>6, <1>7, <1>9, <1>10, <1>11, <1>12, <1>13, <1>14 DEF ChatInv

(* Whose handler's socket is gone, nobody waits for.                       *)
LEMMA HandlersCutOff ==
    ASSUME ChatInv, ~room',
           work' = [p \in ChatHandlers |-> IF work[p].by = "me" /\ work[p].via = "socket"
                                           THEN [work[p] EXCEPT !.via = "gone"] ELSE work[p]],
           UNCHANGED msgs
    PROVE  /\ work' \in [ChatHandlers -> HandlerRecords] /\ OneAtWork' /\ ~Working' /\ Known' = Known
           /\ \A t : ~WorksOn(t)'
<1>1. work \in [ChatHandlers -> HandlerRecords] /\ \A p \in ChatHandlers : work[p] \in HandlerRecords
  BY DEF ChatInv, ChatTypeOK
<1> DEFINE w(p) == [work[p] EXCEPT !.via = "gone"]
<1>2. \A p \in ChatHandlers : /\ w(p) \in HandlerRecords /\ w(p).pc = work[p].pc /\ w(p).by = work[p].by
                              /\ w(p).id = work[p].id /\ w(p).text = work[p].text /\ w(p).via = "gone"
  BY <1>1 DEF HandlerRecords
<1>3. \A p \in ChatHandlers :
          work'[p] = IF work[p].by = "me" /\ work[p].via = "socket" THEN w(p) ELSE work[p]
  OBVIOUS
<1>4. work' = [p \in ChatHandlers |-> work'[p]]
  OBVIOUS
<1> HIDE DEF w
<1>5. \A p \in ChatHandlers : /\ work'[p] \in HandlerRecords /\ work'[p].pc = work[p].pc
                              /\ work'[p].by = work[p].by /\ work'[p].id = work[p].id
                              /\ work'[p].text = work[p].text
                              /\ ~(work'[p].by = "me" /\ work'[p].via = "socket")
  BY <1>1, <1>2, <1>3
<1>6. work' \in [ChatHandlers -> HandlerRecords]
  BY <1>4, <1>5
<1>7. \A p \in ChatHandlers : Busy(p)' = Busy(p) /\ ~Works(p)'
  BY <1>5 DEF Busy, Works
<1>8. OneAtWork'
  BY <1>5, <1>7 DEF ChatInv, OneAtWork
<1>9. Known' = Known
  BY <1>5 DEF Known, Marking
<1>10. ~Working' /\ \A t : ~WorksOn(t)'
  BY <1>7 DEF Working, WorksOn
<1>11. QED
  BY <1>6, <1>8, <1>9, <1>10

(* The socket drops, with what was under way on it.                        *)
LEMMA StepDrops == ASSUME ChatInv, SocketDrops PROVE ChatInv'
<1>1. /\ UNCHANGED <<status, msgs, calls>> /\ conn.st = "connected"
      /\ conn' = [conn EXCEPT !.st = "connecting"] /\ room' = FALSE
      /\ up' = <<>> /\ down' = <<>> /\ chat' = [chat EXCEPT !.lost = TRUE]
      /\ work' = [p \in ChatHandlers |-> IF work[p].by = "me" /\ work[p].via = "socket"
                                         THEN [work[p] EXCEPT !.via = "gone"] ELSE work[p]]
  BY DEF SocketDrops
<1>2. /\ work' \in [ChatHandlers -> HandlerRecords] /\ OneAtWork' /\ ~Working' /\ Known' = Known
  BY <1>1, HandlersCutOff
<1>3. /\ conn \in Sockets /\ chat \in Pages /\ (conn.st = "none") = ~chat.open
  BY DEF ChatInv, ChatTypeOK
<1>4. /\ conn' \in Sockets /\ conn'.st = "connecting" /\ conn'.join = conn.join
  BY <1>1, <1>3 DEF Sockets
<1>5. /\ chat' \in Pages /\ chat'.open = chat.open /\ chat'.on = chat.on
      /\ chat'.loading = chat.loading /\ chat'.sending = chat.sending /\ chat'.lost
      /\ chat'.shown = chat.shown
  BY <1>1, <1>3 DEF Pages
<1>6. \A T : ~Has(up', T) /\ ~Has(down', T) /\ Single(up', T) /\ Single(down', T)
  BY <1>1, HasNothing
<1>7. ChatTypeOK'
  <2>1. chat'.open
    BY <1>1, <1>3, <1>5
  <2>2. (conn'.st = "none") = ~chat'.open
    BY <1>4, <2>1
  <2>3. up' \in Seq(Emits) /\ down' \in Seq(Events) /\ room' \in BOOLEAN
    <3>1. up' = <<>> /\ down' = <<>> /\ room' = FALSE
      BY <1>1
    <3>2. \A S : <<>> \in Seq(S)
      OBVIOUS
    <3>3. up' \in Seq(Emits) /\ down' \in Seq(Events)
      BY <3>1, <3>2
    <3>4. room' \in BOOLEAN
      BY <3>1
    <3>5. QED
      BY <3>3, <3>4
  <2>4. QED
    BY <1>1, <1>2, <1>4, <1>5, <2>2, <2>3 DEF ChatInv, ChatTypeOK
<1>8. OnLine'
  BY <1>1, <1>2, <1>5 DEF ChatInv, OnLine
<1>9. OneLoad'
  BY <1>1, <1>4, <1>5, <1>6 DEF ChatInv, OneLoad
<1>10. OneSend'
  BY <1>1, <1>2, <1>5, <1>6 DEF ChatInv, OneSend
<1>11. IdsKnown'
  BY <1>1, <1>2, <1>5, <1>6 DEF ChatInv, IdsKnown
<1>12. EachOnce'
  BY <1>1, <1>5, <1>6 DEF ChatInv, EachOnce
<1>13. Settled'
  BY <1>5 DEF Settled, Settling
<1>14. QED
  BY <1>2, <1>7, <1>8, <1>9, <1>10, <1>11, <1>12, <1>13 DEF ChatInv

(* The page that is not there.                                             *)
LEMMA AwayIs == /\ Away \in Pages /\ ~Away.open /\ ~Away.on /\ ~Away.loading /\ ~Away.sending
                /\ Away.shown = <<>>
  BY DEF Away, Pages

(* The page is left, and its requests are nobody's.                        *)
LEMMA StepGone ==
    ASSUME ChatInv, GoAway, UNCHANGED <<status, msgs>>,
           calls' \in Seq(ChatRequests), Fewer(calls', calls), ~Has(calls', Mine)
    PROVE  ChatInv'
<1>1. /\ conn' = [st |-> "none", join |-> FALSE] /\ room' = FALSE
      /\ up' = <<>> /\ down' = <<>> /\ chat' = Away
      /\ work' = [p \in ChatHandlers |-> IF work[p].by = "me" /\ work[p].via = "socket"
                                         THEN [work[p] EXCEPT !.via = "gone"] ELSE work[p]]
  BY DEF GoAway
<1>2. /\ work' \in [ChatHandlers -> HandlerRecords] /\ OneAtWork' /\ ~Working' /\ Known' = Known
  BY <1>1, HandlersCutOff
<1>3. /\ conn' \in Sockets /\ conn'.st = "none"
  BY <1>1 DEF Sockets
<1>4. \A T : /\ ~Has(up', T) /\ ~Has(down', T) /\ Single(up', T) /\ Single(down', T)
             /\ ~Has(chat'.shown, T) /\ Single(chat'.shown, T)
  BY <1>1, HasNothing, AwayIs
<1>5. ~Has(calls', LoadsAsked) /\ ~Has(calls', Posts) /\ \A x : ~Has(calls', Confirms(x))
  <2>1. \A x : Has(calls', Confirms(x)) => Has(calls', Posts)
    BY HasPart, PartsOfKinds
  <2>2. QED
    BY <2>1, HasPart, PartsOfKinds
<1>6. ChatTypeOK'
  <2>1. (conn'.st = "none") = ~chat'.open
    BY <1>1, <1>3, AwayIs
  <2>2. /\ up' \in Seq(Emits) /\ down' \in Seq(Events) /\ room' \in BOOLEAN
        /\ chat' \in Pages
    <3>1. up' = <<>> /\ down' = <<>> /\ room' = FALSE /\ chat' = Away
      BY <1>1
    <3>2. \A S : <<>> \in Seq(S)
      OBVIOUS
    <3>3. up' \in Seq(Emits) /\ down' \in Seq(Events)
      BY <3>1, <3>2
    <3>4. room' \in BOOLEAN
      BY <3>1
    <3>5. chat' \in Pages
      BY <3>1, AwayIs
    <3>6. QED
      BY <3>3, <3>4, <3>5
  <2>3. QED
    BY <1>2, <1>3, <2>1, <2>2 DEF ChatInv, ChatTypeOK
<1>7. OnLine'
  BY <1>1, <1>2, AwayIs DEF OnLine
<1>8. OneLoad'
  BY <1>5 DEF ChatInv, OneLoad, Fewer
<1>9. OneSend'
  BY <1>2, <1>4, <1>5 DEF ChatInv, OneSend, Fewer
<1>10. IdsKnown'
  BY <1>2, <1>4 DEF ChatInv, IdsKnown, Fewer
<1>11. EachOnce'
  BY <1>4, <1>5 DEF EachOnce
<1>12. Settled'
  BY <1>1, AwayIs DEF Settled, Settling
<1>13. QED
  BY <1>2, <1>6, <1>7, <1>8, <1>9, <1>10, <1>11, <1>12 DEF ChatInv

(* The member leaves the page ...                                          *)
LEMMA StepLeaves == ASSUME ChatInv, Leave PROVE ChatInv'
<1>1. /\ GoAway /\ UNCHANGED <<status, msgs>> /\ calls \in Seq(ChatRequests)
      /\ calls' = [i \in DOMAIN calls |-> [calls[i] EXCEPT !.mine = FALSE]]
  BY DEF Leave, ChatInv, ChatTypeOK
<1>2. calls' \in Seq(ChatRequests) /\ Fewer(calls', calls) /\ ~Has(calls', Mine)
  BY <1>1, FewerLeft
<1>3. QED
  BY <1>1, <1>2, StepGone

(* ... or is taken from it, the conversation having been hidden.           *)
LEMMA StepHidden ==
    ASSUME ChatInv, NEW i \in DOMAIN calls, HideReply(i), calls[i].at = "ok" /\ calls[i].mine
    PROVE  ChatInv'
<1> DEFINE rest == RemoveAt(calls, i)
<1>1. /\ GoAway /\ UNCHANGED <<status, msgs>> /\ calls \in Seq(ChatRequests)
      /\ calls' = [j \in DOMAIN rest |-> [rest[j] EXCEPT !.mine = FALSE]]
  BY DEF HideReply, ChatInv, ChatTypeOK
<1>2. rest \in Seq(ChatRequests) /\ Fewer(rest, calls)
  BY <1>1, FewerLess
<1> HIDE DEF rest
<1>3. calls' \in Seq(ChatRequests) /\ Fewer(calls', rest) /\ ~Has(calls', Mine)
  BY <1>1, <1>2, FewerLeft
<1>4. Fewer(calls', calls)
  BY <1>2, <1>3 DEF Fewer
<1>5. QED
  BY <1>1, <1>3, <1>4, StepGone

-----------------------------------------------------------------------------
(* What comes down the socket                                              *)

(* What the server sent first has come to the page.                        *)
LEMMA Received ==
    ASSUME ChatInv, NEW what \in {"message", "closed", "ack", "nack"}, Receive(what)
    PROVE  /\ conn.st = "connected"
           /\ down \in Seq(Events) /\ down' \in Seq(Events) /\ Head(down) \in Events
           /\ Head(down).what = what
           /\ \A T : /\ Head(down) \in T => Has(down, T)
                     /\ Has(down', T) => Has(down, T)
                     /\ Has(down, T) => Head(down) \in T \/ Has(down', T)
                     /\ Single(down, T) => Single(down', T)
                     /\ Single(down, T) /\ Head(down) \in T => ~Has(down', T)
           /\ \A T, B : /\ Ahead(down, T, B) /\ Head(down) \notin T => Ahead(down', T, B)
                        /\ Ahead(down, T, B) => Has(down', B)
           /\ Head(down) \in News <=> what = "message"
           /\ Head(down) \in Answers <=> what \in {"ack", "nack"}
           /\ Head(down) \in Acks <=> what = "ack"
           /\ Head(down) \in Nacks <=> what = "nack"
<1>1. down \in Seq(Events) /\ down # <<>> /\ down' = Tail(down) /\ Head(down).what = what
  BY DEF Receive, ChatInv, ChatTypeOK
<1>2. /\ Tail(down) \in Seq(Events) /\ Head(down) \in Events
      /\ \A T : /\ Head(down) \in T => Has(down, T)
                /\ Has(Tail(down), T) => Has(down, T)
                /\ Has(down, T) => Head(down) \in T \/ Has(Tail(down), T)
                /\ Single(down, T) => Single(Tail(down), T)
                /\ Single(down, T) /\ Head(down) \in T => ~Has(Tail(down), T)
      /\ \A T, B : /\ Ahead(down, T, B) /\ Head(down) \notin T => Ahead(Tail(down), T, B)
                   /\ Ahead(down, T, B) => Has(Tail(down), B)
  BY <1>1, HasRest
<1>3. conn.st = "connected"
  BY <1>1 DEF ChatInv, OnLine
<1>4. /\ Head(down) \in News <=> what = "message"
      /\ Head(down) \in Answers <=> what \in {"ack", "nack"}
      /\ Head(down) \in Acks <=> what = "ack"
      /\ Head(down) \in Nacks <=> what = "nack"
  BY <1>1, <1>2 DEF News, Answers, Acks, Nacks
<1>5. QED
  BY <1>1, <1>2, <1>3, <1>4

(* The handlers work on what they worked on.                               *)
LEMMA SameWork ==
    ASSUME UNCHANGED work
    PROVE  /\ Working' = Working /\ \A t : WorksOn(t)' = WorksOn(t)
           /\ \A p \in ChatHandlers : Busy(p)' = Busy(p)
  BY DEF Working, WorksOn, Works, Busy

(* A broadcast comes: it replaces the pending entry that is its, or is     *)
(* appended.                                                               *)
LEMMA StepMessage == ASSUME ChatInv, ReceiveMessage PROVE ChatInv'
<1> DEFINE e == Head(down).entry
           shown == AddMessage(chat.shown, e)
<1>1. /\ UNCHANGED <<status, msgs, work, room, conn, up, calls>> /\ Receive("message")
      /\ chat' = [chat EXCEPT !.shown = shown]
  BY DEF ReceiveMessage
<1>2. /\ conn.st = "connected"
      /\ down \in Seq(Events) /\ down' \in Seq(Events) /\ Head(down) \in Events
      /\ \A T : /\ Head(down) \in T => Has(down, T)
                /\ Has(down', T) => Has(down, T)
                /\ Has(down, T) => Head(down) \in T \/ Has(down', T)
                /\ Single(down, T) => Single(down', T)
                /\ Single(down, T) /\ Head(down) \in T => ~Has(down', T)
      /\ \A T, B : Ahead(down, T, B) /\ Head(down) \notin T => Ahead(down', T, B)
      /\ Head(down) \in News /\ Head(down) \notin Answers /\ Head(down) \notin Nacks
  BY <1>1, Received
<1>3. /\ e \in Entries /\ e.id \in Ids \cup {0}
      /\ \A x : Head(down) \in NewsOf(x) <=> x = e.id
      /\ \A t : Head(down) \in MineOf(t) <=> e.by = "me" /\ e.text = t
  BY <1>2 DEF Events, Entries, NewsOf, MineOf
<1> DEFINE x0 == e.id
<1>4. /\ x0 \in Ids /\ x0 # 0 /\ Has(down, NewsOf(x0))
  <2>1. ~Has(down, NewsOf(0))
    BY DEF ChatInv, IdsKnown
  <2>2. 0 \notin Ids
    BY DEF Ids
  <2>3. QED
    BY <1>2, <1>3, <2>1, <2>2
<1> HIDE DEF e, x0
<1>5. /\ ~(x0 > Known) /\ ~Has(chat.shown, Of(x0)) /\ ~Has(down', NewsOf(x0))
      /\ ~Has(calls, Confirms(x0)) /\ ~Has(calls, LoadsAsked)
  <2>1. Has(down, News)
    BY <1>2
  <2>2. QED
    BY <1>2, <1>3, <1>4, <2>1 DEF ChatInv, IdsKnown, EachOnce, OneLoad, x0
<1>6. chat \in Pages /\ chat.shown \in Seq(Entries)
  BY DEF ChatInv, ChatTypeOK, Pages
<1>7. /\ shown \in Seq(Entries)
      /\ \A T : Has(shown, T) => Has(chat.shown, T) \/ e \in T
      /\ \A T : Single(chat.shown, T) /\ (e \in T => ~Has(chat.shown, T)) => Single(shown, T)
      /\ Single(chat.shown, Of(0)) /\ e.by = "me" /\ Has(chat.shown, PendingOf(e.text))
            => ~Has(shown, Of(0))
  BY <1>3, <1>4, <1>6, MessageAdded DEF x0
<1> HIDE DEF shown
<1>8. /\ chat' \in Pages /\ chat'.shown = shown
      /\ chat'.open = chat.open /\ chat'.on = chat.on /\ chat'.loading = chat.loading
      /\ chat'.sending = chat.sending /\ chat'.lost = chat.lost
  BY <1>1, <1>6, <1>7 DEF Pages
<1>9. \A x : e \in Of(x) <=> x = x0
  BY <1>3 DEF Of, x0
<1>10. ChatTypeOK'
  BY <1>1, <1>2, <1>8 DEF ChatInv, ChatTypeOK
<1>11. OneAtWork'
  BY <1>1 DEF ChatInv, OneAtWork, Busy
<1>12. Working' = Working /\ \A t : WorksOn(t)' = WorksOn(t)
  BY <1>1, SameWork
<1>13. OnLine'
  BY <1>1, <1>2, <1>8 DEF ChatInv, OnLine
<1>14. OneLoad'
  BY <1>1, <1>5 DEF ChatInv, OneLoad
<1>15. OneSend'
  BY <1>1, <1>2, <1>8, <1>12 DEF ChatInv, OneSend
<1>16. IdsKnown'
  <2>1. Known' = Known
    BY <1>1 DEF Known, Marking
  <2>2. ASSUME NEW x \in Ids, x > Known
        PROVE  ~Has(shown, Of(x)) /\ ~Has(down', NewsOf(x)) /\ ~Has(calls, Tells(x))
    <3>1. x # x0
      BY <1>5, <2>2
    <3>2. ~Has(chat.shown, Of(x)) /\ ~Has(down, NewsOf(x)) /\ ~Has(calls, Tells(x))
      BY <2>2 DEF ChatInv, IdsKnown
    <3>3. QED
      BY <1>2, <1>7, <1>9, <3>1, <3>2
  <2>3. ~Has(down', NewsOf(0)) /\ ~Has(calls, Broken)
    BY <1>2 DEF ChatInv, IdsKnown
  <2>4. QED
    BY <1>1, <1>8, <2>1, <2>2, <2>3 DEF IdsKnown
<1>17. EachOnce'
  <2>1. ASSUME NEW x \in Ids
        PROVE  /\ Single(shown, Of(x)) /\ Single(down', NewsOf(x))
               /\ ~(Has(shown, Of(x)) /\ Has(down', NewsOf(x)))
               /\ Has(calls, Confirms(x)) =>
                     /\ ~Has(down', NewsOf(x))
                     /\ Has(shown, Of(0)) => ~Has(shown, Of(x))
    <3>1. /\ Single(chat.shown, Of(x)) /\ Single(down, NewsOf(x))
          /\ ~(Has(chat.shown, Of(x)) /\ Has(down, NewsOf(x)))
          /\ Has(calls, Confirms(x)) =>
                /\ ~Has(down, NewsOf(x))
                /\ Has(chat.shown, Of(0)) => ~Has(chat.shown, Of(x))
      BY DEF ChatInv, EachOnce
    <3>2. CASE x = x0
      BY <1>2, <1>5, <1>7, <3>1, <3>2
    <3>3. CASE x # x0
      <4>1. Single(shown, Of(x)) /\ (Has(shown, Of(x)) => Has(chat.shown, Of(x)))
        BY <1>7, <1>9, <3>1, <3>3
      <4>2. Has(shown, Of(0)) => Has(chat.shown, Of(0))
        BY <1>4, <1>7, <1>9
      <4>3. QED
        BY <1>2, <3>1, <4>1, <4>2
    <3>4. QED
      BY <3>2, <3>3
  <2>2. QED
    BY <1>1, <1>8, <2>1 DEF EachOnce
<1>18. Settled'
  <2> SUFFICES ASSUME Settling PROVE (Joined /\ Single(chat.shown, Of(0))
                                      /\ \A t \in Texts : Has(chat.shown, PendingOf(t))
                                                             => Covered(t))'
    BY <1>8 DEF Settled, Settling
  <2>1. /\ Joined /\ Single(chat.shown, Of(0))
        /\ \A t \in Texts : Has(chat.shown, PendingOf(t)) => Covered(t)
    BY DEF ChatInv, Settled
  <2>2. Single(shown, Of(0))
    BY <1>4, <1>7, <1>9, <2>1
  <2>3. ASSUME NEW t \in Texts, Has(shown, PendingOf(t)) PROVE Covered(t)'
    <3>1. Has(shown, Of(0)) /\ e \notin PendingOf(t)
      <4>1. PendingOf(t) \subseteq Of(0)
        BY DEF PendingOf
      <4>2. Has(shown, Of(0))
        BY <2>3, <4>1, HasPart
      <4>3. QED
        BY <1>4, <1>9, <4>1, <4>2
    <3>2. Has(chat.shown, PendingOf(t)) /\ Covered(t)
      BY <1>7, <2>1, <2>3, <3>1
    <3>3. Head(down) \notin MineOf(t)
      BY <1>3, <1>7, <2>1, <3>1, <3>2
    <3>4. QED
      BY <1>1, <1>2, <1>12, <3>2, <3>3 DEF Covered
  <2>4. QED
    BY <1>1, <1>8, <2>1, <2>2, <2>3 DEF Joined
<1>19. QED
  BY <1>10, <1>11, <1>13, <1>14, <1>15, <1>16, <1>17, <1>18 DEF ChatInv

(* The page learns that the conversation is closed, and no more.           *)
LEMMA StepClosedHeard == ASSUME ChatInv, ReceiveClosed PROVE ChatInv'
<1>1. /\ UNCHANGED <<status, msgs, work, room, conn, up, calls>> /\ Receive("closed")
      /\ chat' = [chat EXCEPT !.closed = TRUE]
  BY DEF ReceiveClosed
<1>2. /\ conn.st = "connected" /\ down' \in Seq(Events)
      /\ \A T : /\ Has(down', T) => Has(down, T)
                /\ Has(down, T) => Head(down) \in T \/ Has(down', T)
                /\ Single(down, T) => Single(down', T)
      /\ \A T, B : Ahead(down, T, B) /\ Head(down) \notin T => Ahead(down', T, B)
      /\ Head(down) \notin News /\ Head(down) \notin Nacks
  BY <1>1, Received
<1>3. \A t : Head(down) \notin MineOf(t)
  BY <1>2, PartsOfKinds
<1>4. chat \in Pages
  BY DEF ChatInv, ChatTypeOK
<1>5. /\ chat' \in Pages /\ chat'.shown = chat.shown
      /\ chat'.open = chat.open /\ chat'.on = chat.on /\ chat'.loading = chat.loading
      /\ chat'.sending = chat.sending /\ chat'.lost = chat.lost
  BY <1>1, <1>4 DEF Pages
<1>6. ChatTypeOK'
  BY <1>1, <1>2, <1>5 DEF ChatInv, ChatTypeOK
<1>7. OneAtWork'
  BY <1>1 DEF ChatInv, OneAtWork, Busy
<1>8. Working' = Working /\ \A t : WorksOn(t)' = WorksOn(t)
  BY <1>1, SameWork
<1>9. OnLine'
  BY <1>1, <1>2, <1>5 DEF ChatInv, OnLine
<1>10. OneLoad'
  BY <1>1, <1>2, <1>5 DEF ChatInv, OneLoad
<1>11. OneSend'
  BY <1>1, <1>2, <1>5, <1>8 DEF ChatInv, OneSend
<1>12. IdsKnown'
  BY <1>1, <1>2, <1>5 DEF ChatInv, IdsKnown, Known, Marking
<1>13. EachOnce'
  BY <1>1, <1>2, <1>5 DEF ChatInv, EachOnce
<1>14. Settled'
  <2>1. \A t : Covered(t) => Covered(t)'
    BY <1>1, <1>2, <1>3, <1>8 DEF Covered
  <2>2. QED
    BY <1>1, <1>5, <2>1 DEF ChatInv, Settled, Settling, Joined
<1>15. QED
  BY <1>6, <1>7, <1>9, <1>10, <1>11, <1>12, <1>13, <1>14 DEF ChatInv

(* While nothing of the page's is under way, nothing of it is pending.     *)
LEMMA NothingPending ==
    ASSUME ChatInv, Settling,
           ~Has(up, Sends), ~Has(calls, Posts), ~Working,
           ~Has(down, Nacks), \A t : ~Ahead(down, MineOf(t), Acks)
    PROVE  ~Has(chat.shown, Of(0))
<1>1. \A t \in Texts : ~Covered(t)
  <2>1. \A t : ~Has(up, SendsOf(t))
    BY HasPart, PartsOfKinds
  <2>2. \A t : ~WorksOn(t)
    BY DEF WorksOn, Working
  <2>3. QED
    BY <2>1, <2>2 DEF Covered
<1>2. \A t \in Texts : ~Has(chat.shown, PendingOf(t))
  BY <1>1 DEF ChatInv, Settled
<1>3. \A i \in DOMAIN chat.shown : chat.shown[i] \in Entries
  BY DEF ChatInv, ChatTypeOK, Pages
<1>4. \A e \in Entries : e \in Of(0) => e.text \in Texts /\ e \in PendingOf(e.text)
  BY DEF Entries, PendingOf, Of
<1>5. QED
  BY <1>2, <1>3, <1>4 DEF Has

(* The page's message has its answer: it is no longer sending, and what    *)
(* was pending is there no more.                                           *)
LEMMA StepSettles ==
    ASSUME ChatInv, UNCHANGED <<status, msgs, work, room, conn, up>>,
           chat' = [chat EXCEPT !.sending = FALSE, !.shown = chat'.shown],
           chat'.shown \in Seq(Entries),
           ~Has(up, Sends), ~Working, ~Has(calls', Posts), ~Has(down', Answers),
           down' \in Seq(Events), calls' \in Seq(ChatRequests), Fewer(calls', calls),
           conn.st # "connected" => down' = down,
           \A T : (Has(down', T) => Has(down, T)) /\ (Single(down, T) => Single(down', T)),
           \A x \in Ids : Has(chat'.shown, Of(x)) =>
              /\ ~(x > Known) /\ ~Has(down, NewsOf(x)),
           \A x \in Ids : Single(chat'.shown, Of(x)),
           Settling => ~Has(chat'.shown, Of(0))
    PROVE  ChatInv'
<1>1. chat \in Pages /\ chat' \in Pages
  <2>1. chat \in Pages
    BY DEF ChatInv, ChatTypeOK
  <2>2. QED
    BY <2>1 DEF Pages
<1>2. /\ chat'.open = chat.open /\ chat'.on = chat.on /\ chat'.loading = chat.loading
      /\ chat'.lost = chat.lost
  BY <1>1 DEF Pages
<1>3. Working' = Working /\ \A t : WorksOn(t)' = WorksOn(t)
  BY SameWork
<1>4. \A x : ~Has(calls', Confirms(x))
  BY HasPart, PartsOfKinds
<1>5. ChatTypeOK'
  BY <1>1, <1>2 DEF ChatInv, ChatTypeOK
<1>6. OneAtWork'
  BY DEF ChatInv, OneAtWork, Busy
<1>7. OnLine'
  BY <1>2, <1>3 DEF ChatInv, OnLine, Fewer
<1>8. OneLoad'
  BY <1>2 DEF ChatInv, OneLoad, Fewer
<1>9. OneSend'
  BY <1>3 DEF ChatInv, OneSend, Fewer
<1>10. IdsKnown'
  BY DEF ChatInv, IdsKnown, Fewer, Known, Marking
<1>11. EachOnce'
  BY <1>4 DEF ChatInv, EachOnce
<1>12. Settled'
  <2>1. Settling' => Settling
    BY <1>2 DEF Settling
  <2>2. Settling => ~Has(chat'.shown, Of(0)) /\ Single(chat'.shown, Of(0))
                    /\ \A t : ~Has(chat'.shown, PendingOf(t))
    <3>1. \A t : PendingOf(t) \subseteq Of(0)
      BY DEF PendingOf
    <3>2. QED
      BY <3>1, HasPart DEF Single, Has
  <2>3. Joined => Joined'
    BY DEF Joined
  <2>4. QED
    BY <2>1, <2>2, <2>3 DEF ChatInv, Settled
<1>13. QED
  BY <1>5, <1>6, <1>7, <1>8, <1>9, <1>10, <1>11, <1>12 DEF ChatInv

(* What the invariant says of the list.                                    *)
LEMMA ShownKnown ==
    ASSUME ChatInv
    PROVE  /\ chat.shown \in Seq(Entries)
           /\ \A x \in Ids : Has(chat.shown, Of(x)) => ~(x > Known) /\ ~Has(down, NewsOf(x))
           /\ \A x \in Ids : Single(chat.shown, Of(x))
           /\ Settling => Single(chat.shown, Of(0))
  BY DEF ChatInv, ChatTypeOK, Pages, IdsKnown, EachOnce, Settled

(* An acknowledgement, of either kind, answers what the page had sent.     *)
LEMMA Acknowledged ==
    ASSUME ChatInv, NEW what \in {"ack", "nack"}, Receive(what), UNCHANGED calls
    PROVE  /\ ~Has(up, Sends) /\ ~Working /\ ~Has(calls, Posts) /\ ~Has(down', Answers)
           /\ ~Has(calls', Posts)
           /\ down' \in Seq(Events) /\ conn.st = "connected"
           /\ calls' \in Seq(ChatRequests) /\ Fewer(calls', calls)
           /\ \A T : (Has(down', T) => Has(down, T)) /\ (Single(down, T) => Single(down', T))
           /\ what = "ack" => /\ ~Has(down, Nacks) /\ \A t : ~Ahead(down, MineOf(t), Acks)
<1>1. /\ conn.st = "connected" /\ down' \in Seq(Events)
      /\ \A T : /\ Head(down) \in T => Has(down, T)
                /\ Has(down', T) => Has(down, T)
                /\ Has(down, T) => Head(down) \in T \/ Has(down', T)
                /\ Single(down, T) => Single(down', T)
                /\ Single(down, T) /\ Head(down) \in T => ~Has(down', T)
      /\ \A T, B : Ahead(down, T, B) => Has(down', B)
      /\ Head(down) \in Answers /\ (Head(down) \in Nacks <=> what = "nack")
  BY Received
<1>2. Has(down, Answers) /\ ~Has(down', Answers)
  BY <1>1, QueuesOf
<1>3. ~Has(up, Sends) /\ ~Working /\ ~Has(calls, Posts) /\ calls \in Seq(ChatRequests)
  BY <1>2 DEF ChatInv, ChatTypeOK, OneSend
<1>4. ~Has(down', Nacks) /\ ~Has(down', Acks)
  BY <1>2, HasPart, PartsOfKinds
<1>5. what = "ack" => ~Has(down, Nacks) /\ \A t : ~Ahead(down, MineOf(t), Acks)
  BY <1>1, <1>4
<1>6. Fewer(calls', calls)
  BY FewerSame
<1>7. QED
  BY <1>1, <1>2, <1>3, <1>5, <1>6

(* The message was accepted ...                                            *)
LEMMA StepAck == ASSUME ChatInv, ReceiveAck PROVE ChatInv'
<1>1. /\ UNCHANGED <<status, msgs, work, room, conn, up, calls>> /\ Receive("ack")
      /\ chat' = [chat EXCEPT !.sending = FALSE]
  BY DEF ReceiveAck
<1>2. /\ ~Has(up, Sends) /\ ~Working /\ ~Has(calls, Posts) /\ ~Has(down', Answers)
      /\ ~Has(calls', Posts)
      /\ down' \in Seq(Events) /\ conn.st = "connected"
      /\ calls' \in Seq(ChatRequests) /\ Fewer(calls', calls)
      /\ \A T : (Has(down', T) => Has(down, T)) /\ (Single(down, T) => Single(down', T))
      /\ ~Has(down, Nacks) /\ \A t : ~Ahead(down, MineOf(t), Acks)
  BY <1>1, Acknowledged
<1>3. chat \in Pages
  BY DEF ChatInv, ChatTypeOK
<1>4. chat'.shown = chat.shown /\ chat' = [chat EXCEPT !.sending = FALSE, !.shown = chat'.shown]
  BY <1>1, <1>3 DEF Pages
<1>5. Settling => ~Has(chat'.shown, Of(0))
  BY <1>2, <1>4, NothingPending
<1>6. QED
  BY <1>1, <1>2, <1>4, <1>5, ShownKnown, StepSettles

(* ... or refused, and its pending entry removed.                          *)
LEMMA StepNack == ASSUME ChatInv, ReceiveNack PROVE ChatInv'
<1> DEFINE s == chat.shown
           z == IF InFlight(s) = {} THEN s
                ELSE RemovePending(s, CHOOSE k \in InFlight(s) : TRUE)
<1>1. /\ UNCHANGED <<status, msgs, work, room, conn, up, calls>> /\ Receive("nack")
      /\ chat' = [chat EXCEPT !.sending = FALSE, !.shown = z]
  BY DEF ReceiveNack
<1>2. /\ ~Has(up, Sends) /\ ~Working /\ ~Has(calls, Posts) /\ ~Has(down', Answers)
      /\ ~Has(calls', Posts)
      /\ down' \in Seq(Events) /\ conn.st = "connected"
      /\ calls' \in Seq(ChatRequests) /\ Fewer(calls', calls)
      /\ \A T : (Has(down', T) => Has(down, T)) /\ (Single(down, T) => Single(down', T))
  BY <1>1, Acknowledged
<1>3. chat \in Pages /\ s \in Seq(Entries)
  BY DEF ChatInv, ChatTypeOK, Pages
<1>4. /\ z \in Seq(Entries)
      /\ \A T : (Has(z, T) => Has(s, T)) /\ (Single(s, T) => Single(z, T))
      /\ Single(s, Of(0)) => ~Has(z, Of(0))
  BY <1>3, SentTakenOut
<1> HIDE DEF z
<1>5. chat'.shown = z /\ chat' = [chat EXCEPT !.sending = FALSE, !.shown = chat'.shown]
  BY <1>1, <1>3 DEF Pages
<1>6. QED
  BY <1>1, <1>2, <1>4, <1>5, ShownKnown, StepSettles

-----------------------------------------------------------------------------
(* What comes by HTTP                                                      *)

(* The answer to a message that was sent by HTTP.                          *)
LEMMA StepRestReply ==
    ASSUME ChatInv, NEW i \in DOMAIN calls, RestReply(i)
    PROVE  ChatInv'
<1> DEFINE s == chat.shown
           removed == IF InFlight(s) = {} THEN s
                      ELSE RemovePending(s, CHOOSE k \in InFlight(s) : TRUE)
           replaced == IF InFlight(s) = {} THEN s
                       ELSE ReplacePending(s, CHOOSE k \in InFlight(s) : TRUE,
                                           Head(calls[i].history))
<1>1. /\ UNCHANGED <<status, msgs, work, room, conn, up, down>> /\ calls' = RemoveAt(calls, i)
      /\ calls[i].for = "send" /\ calls[i].at \in {"ok", "error"}
      /\ calls \in Seq(ChatRequests) /\ calls[i] \in ChatRequests
      /\ msgs \in Seq(Messages) /\ status \in {"ACTIVE", "CLOSED"}
  BY DEF RestReply, ChatInv, ChatTypeOK
<1>2. calls' \in Seq(ChatRequests) /\ Fewer(calls', calls)
  BY <1>1, FewerLess
<1>3. CASE ~calls[i].mine
  <2>1. chat' = chat
    BY <1>3 DEF RestReply
  <2>2. calls[i] \notin Posts
    BY <1>3 DEF Posts, Mine
  <2>3. Has(calls, Posts) => Has(calls', Posts)
    BY <1>1, <2>2, HasLess
  <2>4. QED
    BY <1>1, <1>2, <2>1, <2>3, StepQuiet
<1>4. CASE calls[i].mine
  <2>1. chat' = [chat EXCEPT !.sending = FALSE,
                             !.shown = IF calls[i].at = "error" THEN removed ELSE replaced]
    <3>1. chat' = [chat EXCEPT !.sending = FALSE,
                       !.shown = IF InFlight(@) = {} THEN @
                                 ELSE LET k == CHOOSE k \in InFlight(@) : TRUE
                                      IN  IF calls[i].at = "error" THEN RemovePending(@, k)
                                          ELSE ReplacePending(@, k, Head(calls[i].history))]
      BY <1>4 DEF RestReply
    <3>2. CASE InFlight(s) = {}
      BY <3>1, <3>2
    <3>3. CASE InFlight(s) # {}
      BY <3>1, <3>3
    <3>4. QED
      BY <3>2, <3>3
  <2>2. calls[i] \in Posts /\ Has(calls, Posts)
    BY <1>1, <1>4 DEF Posts, Mine, Has
  <2>3. ~Has(calls', Posts) /\ ~Has(up, Sends) /\ ~Has(down, Answers) /\ ~Working
    <3>1. Single(calls, Posts)
      BY QueuesOf
    <3>2. ~Has(calls', Posts)
      BY <1>1, <2>2, <3>1, HasLess
    <3>3. QED
      BY <2>2, <3>2 DEF ChatInv, OneSend
  <2>4. chat \in Pages /\ s \in Seq(Entries)
    BY DEF ChatInv, ChatTypeOK, Pages
  <2>5. CASE calls[i].at = "error"
    <3>1. /\ removed \in Seq(Entries)
          /\ \A T : (Has(removed, T) => Has(s, T)) /\ (Single(s, T) => Single(removed, T))
          /\ Single(s, Of(0)) => ~Has(removed, Of(0))
      BY <2>4, SentTakenOut
    <3>2. chat' = [chat EXCEPT !.sending = FALSE, !.shown = removed]
      BY <2>1, <2>5
    <3> HIDE DEF removed
    <3>3. chat'.shown = removed /\ chat' = [chat EXCEPT !.sending = FALSE, !.shown = chat'.shown]
      BY <2>4, <3>2 DEF Pages
    <3>4. QED
      BY <1>1, <1>2, <2>3, <3>1, <3>3, QueuesOf, ShownKnown, StepSettles
  <2>6. CASE calls[i].at # "error"
    <3> DEFINE e == Head(calls[i].history)
    <3>1. /\ calls[i].history \in Seq(Entries) /\ calls[i].history # <<>>
          /\ ~Has(calls[i].history, Of(0))
      <4>1. calls[i] \notin Broken
        BY QueuesOf DEF Has
      <4>2. QED
        BY <1>1, <2>6, <4>1 DEF Broken, ChatRequests
    <3>2. e \in Entries /\ e = calls[i].history[1] /\ 1 \in DOMAIN calls[i].history
      BY <3>1
    <3> DEFINE x0 == e.id
    <3>3. Has(calls[i].history, Of(x0))
      BY <3>2 DEF Has, Of
    <3> HIDE DEF e, x0
    <3>4. x0 \in Ids /\ x0 # 0
      <4>1. x0 \in Ids \cup {0}
        BY <3>2 DEF Entries, x0
      <4>2. QED
        BY <3>1, <3>3, <4>1
    <3>5. /\ Has(calls, Tells(x0)) /\ Has(calls, Confirms(x0))
      BY <1>1, <2>2, <2>6, <3>3 DEF Has, Tells, Confirms
    <3>6. /\ ~(x0 > Known) /\ ~Has(down, NewsOf(x0))
          /\ Has(s, Of(0)) => ~Has(s, Of(x0))
      BY <3>4, <3>5 DEF ChatInv, IdsKnown, EachOnce
    <3>7. /\ replaced \in Seq(Entries)
          /\ \A T : /\ Has(replaced, T) => Has(s, T) \/ (e \in T /\ Has(s, Of(0)))
                    /\ Single(s, T) /\ (e \in T /\ Has(s, Of(0)) => ~Has(s, T))
                          => Single(replaced, T)
          /\ Single(s, Of(0)) => ~Has(replaced, Of(0))
      <4>1. e.id # 0
        BY <3>4 DEF x0
      <4>2. replaced = IF InFlight(s) = {} THEN s
                       ELSE ReplacePending(s, CHOOSE k \in InFlight(s) : TRUE, e)
        BY DEF e
      <4> HIDE DEF replaced
      <4>3. \/ InFlight(s) = {} /\ replaced = s
            \/ \E k \in InFlight(s) : replaced = ReplacePending(s, k, e)
        BY <4>2
      <4>4. CASE InFlight(s) = {} /\ replaced = s
        BY <2>4, <4>4, PendingHas
      <4>5. CASE \E k \in InFlight(s) : replaced = ReplacePending(s, k, e)
        BY <2>4, <3>2, <4>1, <4>5, SentConfirmed
      <4>6. QED
        BY <4>3, <4>4, <4>5
    <3>8. chat' = [chat EXCEPT !.sending = FALSE, !.shown = replaced]
      BY <2>1, <2>6
    <3> HIDE DEF replaced
    <3>9. /\ chat'.shown = replaced
          /\ chat' = [chat EXCEPT !.sending = FALSE, !.shown = chat'.shown]
      BY <2>4, <3>8 DEF Pages
    <3>10. \A x : e \in Of(x) <=> x = x0
      BY <3>2 DEF Of, x0
    <3>11. ASSUME NEW x \in Ids
           PROVE  /\ Has(replaced, Of(x)) => ~(x > Known) /\ ~Has(down, NewsOf(x))
                  /\ Single(replaced, Of(x))
      <4>1. /\ Has(s, Of(x)) => ~(x > Known) /\ ~Has(down, NewsOf(x))
            /\ Single(s, Of(x))
        BY ShownKnown
      <4>2. QED
        BY <3>6, <3>7, <3>10, <4>1
    <3>12. Settling => ~Has(replaced, Of(0))
      BY <3>7, ShownKnown
    <3>13. \A x \in Ids : Has(chat'.shown, Of(x)) => ~(x > Known) /\ ~Has(down, NewsOf(x))
      BY <3>9, <3>11
    <3>14. /\ \A x \in Ids : Single(chat'.shown, Of(x))
           /\ chat'.shown \in Seq(Entries) /\ (Settling => ~Has(chat'.shown, Of(0)))
      BY <3>7, <3>9, <3>11, <3>12
    <3>15. QED
      BY <1>1, <1>2, <2>3, <3>9, <3>13, <3>14, QueuesOf, StepSettles
  <2>7. QED
    BY <2>5, <2>6
<1>5. QED
  BY <1>3, <1>4

-----------------------------------------------------------------------------
(* What the member does                                                    *)

(* A request is put at the end of those in flight.                         *)
LEMMA Requesting ==
    ASSUME NEW q \in Seq(ChatRequests), NEW r \in ChatRequests, NEW z, z = Append(q, r),
           r \notin Broken, \A x : r \notin Tells(x) /\ r \notin Confirms(x)
    PROVE  /\ z \in Seq(ChatRequests)
           /\ \A T : Has(z, T) <=> Has(q, T) \/ r \in T
           /\ \A T : Single(q, T) /\ ~(Has(q, T) /\ r \in T) => Single(z, T)
           /\ Has(z, Broken) <=> Has(q, Broken)
           /\ \A x : Has(z, Tells(x)) <=> Has(q, Tells(x))
           /\ \A x : Has(z, Confirms(x)) <=> Has(q, Confirms(x))
<1>1. z \in Seq(ChatRequests)
  OBVIOUS
<1>2. ASSUME NEW T
      PROVE  /\ Has(z, T) <=> Has(q, T) \/ r \in T
             /\ Single(q, T) /\ ~(Has(q, T) /\ r \in T) => Single(z, T)
  BY HasMore
<1>3. QED
  BY <1>1, <1>2

(* The member asks to hide the conversation.                               *)
LEMMA StepHideAsk == ASSUME ChatInv, HideAsk PROVE ChatInv'
<1> DEFINE r == Request("hide", AnyText)
<1>1. /\ UNCHANGED <<status, msgs, work, room, chat, conn, up, down>> /\ chat.open
      /\ calls' = Append(calls, r)
  BY DEF HideAsk, Ask
<1>2. /\ r \in ChatRequests /\ r \notin Broken /\ \A x : r \notin Tells(x) /\ r \notin Confirms(x)
      /\ r \notin Posts /\ r \notin LoadsAsked
  BY NewRequest, AnyTextIs
<1>3. calls \in Seq(ChatRequests)
  BY QueuesOf
<1> HIDE DEF r
<1>4. /\ calls' \in Seq(ChatRequests)
      /\ \A T : Has(calls', T) <=> Has(calls, T) \/ r \in T
      /\ \A T : Single(calls, T) /\ ~(Has(calls, T) /\ r \in T) => Single(calls', T)
      /\ Has(calls', Broken) <=> Has(calls, Broken)
      /\ \A x : Has(calls', Tells(x)) <=> Has(calls, Tells(x))
      /\ \A x : Has(calls', Confirms(x)) <=> Has(calls, Confirms(x))
  BY <1>1, <1>2, <1>3, Requesting
<1>5. ChatTypeOK'
  BY <1>1, <1>4 DEF ChatInv, ChatTypeOK
<1>6. OneAtWork'
  BY <1>1 DEF ChatInv, OneAtWork, Busy
<1>7. Working' = Working /\ \A t : WorksOn(t)' = WorksOn(t)
  BY <1>1, SameWork
<1>8. OnLine'
  BY <1>1, <1>7 DEF ChatInv, OnLine
<1>9. OneLoad'
  BY <1>1, <1>2, <1>4 DEF ChatInv, OneLoad
<1>10. OneSend'
  BY <1>1, <1>2, <1>4, <1>7 DEF ChatInv, OneSend
<1>11. IdsKnown'
  BY <1>1, <1>4 DEF ChatInv, IdsKnown, Known, Marking
<1>12. EachOnce'
  BY <1>1, <1>4 DEF ChatInv, EachOnce
<1>13. Settled'
  BY <1>1, <1>4, <1>7 DEF ChatInv, Settled, Settling, Joined, Covered
<1>14. QED
  BY <1>5, <1>6, <1>8, <1>9, <1>10, <1>11, <1>12, <1>13 DEF ChatInv

(* The page is opened, and asks for its conversation.                      *)
LEMMA StepOpens == ASSUME ChatInv, Open PROVE ChatInv'
<1> DEFINE r == Request("conversation", AnyText)
           yes == TRUE
           opened == [Away EXCEPT !.open = yes, !.loading = yes]
<1>1. /\ UNCHANGED <<status, msgs, work, room, up, down>> /\ ~chat.open
      /\ chat' = opened /\ conn' = [st |-> "connecting", join |-> FALSE]
      /\ calls' = Append(calls, r)
  BY DEF Open, Ask
<1>2. /\ r \in ChatRequests /\ r \notin Broken /\ \A x : r \notin Tells(x) /\ r \notin Confirms(x)
      /\ r \notin Posts /\ r \in LoadsAsked
  BY NewRequest, AnyTextIs
<1>3. calls \in Seq(ChatRequests) /\ conn.st = "none" /\ ~Has(calls, Mine)
  BY <1>1 DEF ChatInv, ChatTypeOK, OnLine
<1>4. /\ up = <<>> /\ down = <<>> /\ ~room /\ ~Working
      /\ \A T : ~Has(up, T) /\ ~Has(down, T) /\ Single(up, T) /\ Single(down, T)
  BY <1>3, OffLine
<1>5. /\ opened \in Pages /\ opened.open /\ opened.loading /\ ~opened.on
      /\ opened.shown = <<>> /\ conn'.st = "connecting" /\ ~conn'.join /\ conn' \in Sockets
  <2>1. yes \in BOOLEAN /\ yes
    OBVIOUS
  <2> HIDE DEF yes
  <2>2. /\ opened \in Pages /\ opened.open /\ opened.loading /\ ~opened.on
        /\ opened.shown = <<>>
    BY <2>1, AwayIs DEF Pages
  <2>3. conn'.st = "connecting" /\ ~conn'.join /\ conn' \in Sockets
    BY <1>1 DEF Sockets
  <2>4. QED
    BY <2>2, <2>3
<1> HIDE DEF r, opened, yes
<1>6. /\ calls' \in Seq(ChatRequests)
      /\ \A T : Has(calls', T) <=> Has(calls, T) \/ r \in T
      /\ \A T : Single(calls, T) /\ ~(Has(calls, T) /\ r \in T) => Single(calls', T)
      /\ Has(calls', Broken) <=> Has(calls, Broken)
      /\ \A x : Has(calls', Tells(x)) <=> Has(calls, Tells(x))
      /\ \A x : Has(calls', Confirms(x)) <=> Has(calls, Confirms(x))
  BY <1>1, <1>2, <1>3, Requesting
<1>7. /\ ~Has(calls, LoadsAsked) /\ ~Has(calls, Posts) /\ \A x : ~Has(calls, Confirms(x))
  <2>1. ~Has(calls, LoadsAsked) /\ ~Has(calls, Posts)
    BY <1>3, HasPart, PartsOfKinds
  <2>2. QED
    BY <2>1, HasPart, PartsOfKinds
<1>8. \A T : ~Has(chat'.shown, T) /\ Single(chat'.shown, T)
  BY <1>1, <1>5, HasNothing
<1>9. ChatTypeOK'
  <2>1. (conn'.st = "none") = ~chat'.open
    BY <1>1, <1>5
  <2>2. QED
    BY <1>1, <1>5, <1>6, <2>1 DEF ChatInv, ChatTypeOK
<1>10. OneAtWork'
  BY <1>1 DEF ChatInv, OneAtWork, Busy
<1>11. ~Working'
  BY <1>1, <1>4, SameWork
<1>12. OnLine'
  BY <1>1, <1>4, <1>5, <1>11 DEF OnLine
<1>13. OneLoad'
  BY <1>1, <1>4, <1>5, <1>6, <1>7 DEF ChatInv, OneLoad
<1>14. OneSend'
  BY <1>1, <1>2, <1>4, <1>6, <1>7, <1>11 DEF ChatInv, OneSend
<1>15. IdsKnown'
  BY <1>1, <1>6, <1>8 DEF ChatInv, IdsKnown, Known, Marking
<1>16. EachOnce'
  BY <1>1, <1>4, <1>6, <1>7, <1>8 DEF EachOnce
<1>17. Settled'
  BY <1>1, <1>5 DEF Settled, Settling
<1>18. QED
  BY <1>9, <1>10, <1>12, <1>13, <1>14, <1>15, <1>16, <1>17 DEF ChatInv

(* A message is shown as pending, with its answer on the way.              *)
LEMMA StepSend == ASSUME ChatInv, NEW text \in Texts, SendMessage(text) PROVE ChatInv'
<1> DEFINE e == PendingEntry(text)
           m == [what |-> "send", text |-> text]
           r == Request("send", text)
           shown == Append(chat.shown, e)
           yes == TRUE
<1>1. /\ UNCHANGED <<status, msgs, work, room, conn, down>> /\ chat.on /\ ~chat.sending
      /\ chat' = [chat EXCEPT !.sending = yes, !.shown = shown]
      /\ conn.st = "connected" => up' = Append(up, m) /\ calls' = calls
      /\ conn.st # "connected" => calls' = Append(calls, r) /\ up' = up
  BY DEF SendMessage, Ask
<1>2. /\ chat \in Pages /\ chat.shown \in Seq(Entries) /\ up \in Seq(Emits)
      /\ calls \in Seq(ChatRequests) /\ down \in Seq(Events)
  BY DEF ChatInv, ChatTypeOK, Pages
<1>3. /\ ~Has(up, Sends) /\ ~Has(down, Answers) /\ ~Has(calls, Posts) /\ ~Working
      /\ chat.open
  BY <1>1 DEF ChatInv, OneSend, OnLine
<1>4. e \in Entries /\ \A x : e \in Of(x) <=> x = 0
  BY DEF PendingEntry, Entries, Members, Of
<1>5. \A t : e \in PendingOf(t) <=> t = text
  BY <1>4 DEF PendingOf, PendingEntry
<1>6. m \in Emits /\ m \in SendsOf(text) /\ m \in Sends /\ m \notin Joins
  BY EmitKinds
<1>7. /\ r \in ChatRequests /\ r \notin Broken /\ \A x : r \notin Tells(x) /\ r \notin Confirms(x)
      /\ r \in Posts /\ r \notin LoadsAsked
  BY NewRequest
<1>8. yes \in BOOLEAN /\ yes
  OBVIOUS
<1> HIDE DEF e, m, r, yes
<1>9. /\ shown \in Seq(Entries)
      /\ \A T : Has(shown, T) <=> Has(chat.shown, T) \/ e \in T
      /\ \A T : Single(chat.shown, T) /\ ~(Has(chat.shown, T) /\ e \in T) => Single(shown, T)
  <2>1. shown \in Seq(Entries)
    BY <1>2, <1>4
  <2>2. ASSUME NEW T
        PROVE  /\ Has(shown, T) <=> Has(chat.shown, T) \/ e \in T
               /\ Single(chat.shown, T) /\ ~(Has(chat.shown, T) /\ e \in T)
                     => Single(shown, T)
    BY <1>2, <1>4, HasMore
  <2>3. QED
    BY <2>1, <2>2
<1> HIDE DEF shown
<1>10. /\ chat' \in Pages /\ chat'.shown = shown /\ chat'.sending
       /\ chat'.open = chat.open /\ chat'.on = chat.on /\ chat'.loading = chat.loading
       /\ chat'.lost = chat.lost
  BY <1>1, <1>2, <1>8, <1>9 DEF Pages
<1>11. /\ up' \in Seq(Emits) /\ Single(up', Sends)
       /\ conn.st = "connected" => /\ Has(up', SendsOf(text))
                                   /\ Has(up, Joins) => Ahead(up', Joins, SendsOf(text))
       /\ Has(up', Joins) <=> Has(up, Joins)
       /\ conn.st # "connected" => up' = up
  <2>1. CASE conn.st = "connected"
    <3>1. up' = Append(up, m)
      BY <1>1, <2>1
    <3>2. /\ up' \in Seq(Emits)
          /\ \A T : Has(up', T) <=> Has(up, T) \/ m \in T
          /\ \A T : Single(up, T) /\ ~(Has(up, T) /\ m \in T) => Single(up', T)
          /\ \A T, B : Ahead(up, T, B) \/ (Has(up, T) /\ m \in B) => Ahead(up', T, B)
      BY <1>2, <1>6, <3>1, Emitting
    <3>3. Single(up, Sends)
      BY DEF ChatInv, OneSend
    <3>4. QED
      BY <1>3, <1>6, <2>1, <3>2, <3>3
  <2>2. CASE conn.st # "connected"
    BY <1>1, <1>2, <2>2 DEF ChatInv, OneSend
  <2>3. QED
    BY <2>1, <2>2
<1>12. /\ calls' \in Seq(ChatRequests) /\ Single(calls', Posts)
       /\ Has(calls', Mine) => chat.open
       /\ Has(calls', LoadsAsked) <=> Has(calls, LoadsAsked)
       /\ Single(calls, LoadsAsked) => Single(calls', LoadsAsked)
       /\ conn.st = "connected" => ~Has(calls', Posts)
       /\ conn.st # "connected" => Has(calls', Posts) /\ ~Has(up', Sends)
       /\ Has(calls', Broken) <=> Has(calls, Broken)
       /\ \A x : Has(calls', Tells(x)) <=> Has(calls, Tells(x))
       /\ \A x : ~Has(calls', Confirms(x))
  <2>1. \A x : ~Has(calls, Confirms(x))
    BY <1>3, HasPart, PartsOfKinds
  <2>2. Single(calls, Posts)
    BY QueuesOf
  <2>3. CASE conn.st = "connected"
    <3>1. calls' = calls
      BY <1>1, <2>3
    <3>2. QED
      BY <1>2, <1>3, <2>1, <2>2, <2>3, <3>1
  <2>4. CASE conn.st # "connected"
    <3>1. calls' = Append(calls, r) /\ up' = up
      BY <1>1, <2>4
    <3>2. /\ calls' \in Seq(ChatRequests)
          /\ \A T : Has(calls', T) <=> Has(calls, T) \/ r \in T
          /\ \A T : Single(calls, T) /\ ~(Has(calls, T) /\ r \in T) => Single(calls', T)
          /\ Has(calls', Broken) <=> Has(calls, Broken)
          /\ \A x : Has(calls', Tells(x)) <=> Has(calls, Tells(x))
          /\ \A x : Has(calls', Confirms(x)) <=> Has(calls, Confirms(x))
      BY <1>2, <1>7, <3>1, Requesting
    <3>3. QED
      BY <1>3, <1>7, <2>1, <2>2, <2>4, <3>1, <3>2
  <2>5. QED
    BY <2>3, <2>4
<1>13. Working' = Working /\ \A t : WorksOn(t)' = WorksOn(t)
  BY <1>1, SameWork
<1>14. ChatTypeOK'
  BY <1>1, <1>10, <1>11, <1>12 DEF ChatInv, ChatTypeOK
<1>15. OneAtWork'
  BY <1>1 DEF ChatInv, OneAtWork, Busy
<1>16. OnLine'
  BY <1>1, <1>3, <1>10, <1>11, <1>13 DEF ChatInv, OnLine
<1>17. OneLoad'
  BY <1>1, <1>10, <1>11, <1>12 DEF ChatInv, OneLoad
<1>18. OneSend'
  BY <1>1, <1>3, <1>10, <1>11, <1>12, <1>13 DEF ChatInv, OneSend
<1>19. \A x \in Ids : /\ Has(shown, Of(x)) <=> Has(chat.shown, Of(x))
                      /\ Single(chat.shown, Of(x)) => Single(shown, Of(x))
  <2>1. 0 \notin Ids
    BY DEF Ids
  <2>2. QED
    BY <1>4, <1>9, <2>1
<1>20. IdsKnown'
  BY <1>1, <1>10, <1>12, <1>19 DEF ChatInv, IdsKnown, Known, Marking
<1>21. EachOnce'
  BY <1>1, <1>10, <1>12, <1>19 DEF ChatInv, EachOnce
<1>22. Settled'
  <2> SUFFICES ASSUME Settling PROVE (Joined /\ Single(chat.shown, Of(0))
                                      /\ \A t \in Texts : Has(chat.shown, PendingOf(t))
                                                             => Covered(t))'
    BY <1>10 DEF Settled, Settling
  <2>1. Joined /\ Joined'
    BY <1>1, <1>11 DEF ChatInv, Settled, Joined
  <2>2. ~Has(chat.shown, Of(0))
    <3>1. ~Has(down, Nacks) /\ ~Has(down, Acks)
      BY <1>3, HasPart, PartsOfKinds
    <3>2. \A t : ~Ahead(down, MineOf(t), Acks)
      BY <3>1 DEF Ahead, Has
    <3>3. QED
      BY <1>3, <3>1, <3>2, NothingPending
  <2>3. Single(shown, Of(0))
    <3>1. Single(chat.shown, Of(0))
      BY ShownKnown
    <3>2. QED
      BY <1>9, <2>2, <3>1
  <2>4. ASSUME NEW t \in Texts, Has(shown, PendingOf(t)) PROVE Covered(t)'
    <3>1. t = text
      <4>1. ~Has(chat.shown, PendingOf(t))
        BY <1>2, <2>2, PendingHas
      <4>2. QED
        BY <1>5, <1>9, <2>4, <4>1
    <3>2. CASE conn.st = "connected"
      <4>1. room \/ Has(up, Joins)
        BY <2>1, <3>2 DEF Joined
      <4>2. QED
        BY <1>1, <1>11, <3>1, <3>2, <4>1 DEF Covered
    <3>3. CASE conn.st # "connected"
      BY <1>12, <3>3 DEF Covered
    <3>4. QED
      BY <3>2, <3>3
  <2>5. QED
    BY <1>10, <2>1, <2>3, <2>4
<1>23. QED
  BY <1>14, <1>15, <1>16, <1>17, <1>18, <1>20, <1>21, <1>22 DEF ChatInv

-----------------------------------------------------------------------------
(* Loading                                                                 *)

(* The page's one load has come, and the queues are as it left them.       *)
LEMMA LoadIsBack ==
    ASSUME ChatInv, NEW i \in DOMAIN calls, NEW what \in {"conversation", "messages"},
           Loads(i, what), NEW rest, rest = RemoveAt(calls, i)
    PROVE  /\ chat.open /\ chat.loading /\ ~room /\ ~conn.join /\ ~Has(up, Joins)
           /\ ~Has(down, News) /\ \A x : ~Has(down, NewsOf(x))
           /\ conn.st \in {"connecting", "connected"}
           /\ calls \in Seq(ChatRequests) /\ calls[i] \in ChatRequests /\ calls[i] \notin Posts
           /\ rest \in Seq(ChatRequests) /\ Fewer(rest, calls) /\ ~Has(rest, LoadsAsked)
           /\ Has(calls, Posts) => Has(rest, Posts)
<1>1. calls \in Seq(ChatRequests) /\ calls[i] \in ChatRequests /\ calls[i].for = what /\ calls[i].mine
  BY DEF ChatInv, ChatTypeOK, Loads
<1>2. calls[i] \in LoadsAsked /\ Has(calls, LoadsAsked) /\ calls[i] \notin Posts
  BY <1>1 DEF LoadsAsked, Mine, Has, Posts
<1>3. /\ chat.open /\ chat.loading /\ ~room /\ ~conn.join /\ ~Has(up, Joins) /\ ~Has(down, News)
  BY <1>2 DEF ChatInv, OneLoad
<1>4. \A x : ~Has(down, NewsOf(x))
  BY <1>3, HasPart, PartsOfKinds
<1>5. conn.st \in {"connecting", "connected"}
  BY <1>3 DEF ChatInv, ChatTypeOK, Sockets
<1>6. rest \in Seq(ChatRequests) /\ Fewer(rest, calls)
  BY <1>1, FewerLess
<1>7. ~Has(rest, LoadsAsked) /\ (Has(calls, Posts) => Has(rest, Posts))
  <2>1. Single(calls, LoadsAsked)
    BY QueuesOf
  <2>2. QED
    BY <1>1, <1>2, <2>1, HasLess
<1>8. QED
  BY <1>1, <1>2, <1>3, <1>4, <1>5, <1>6, <1>7

(* The history is shown, and the room is about to be joined.               *)
LEMMA StepShows ==
    ASSUME ChatInv, NEW i \in DOMAIN calls, NEW what \in {"conversation", "messages"},
           Loads(i, what), UNCHANGED <<status, msgs, work, room, down>>,
           calls' = RemoveAt(calls, i), JoinConversation,
           chat' \in Pages, chat'.open = chat.open, ~chat'.loading,
           chat'.sending = chat.sending, chat'.shown = calls[i].history
    PROVE  ChatInv'
<1>1. /\ chat.open /\ chat.loading /\ ~room /\ ~conn.join /\ ~Has(up, Joins)
      /\ ~Has(down, News) /\ \A x : ~Has(down, NewsOf(x))
      /\ conn.st \in {"connecting", "connected"}
      /\ calls \in Seq(ChatRequests) /\ calls[i] \in ChatRequests
      /\ calls' \in Seq(ChatRequests) /\ Fewer(calls', calls) /\ ~Has(calls', LoadsAsked)
      /\ Has(calls, Posts) => Has(calls', Posts)
  BY LoadIsBack
<1>2. up \in Seq(Emits) /\ conn \in Sockets
  BY DEF ChatInv, ChatTypeOK
<1>3. /\ up' \in Seq(Emits) /\ conn' \in Sockets /\ conn'.st = conn.st
      /\ Has(up', Sends) <=> Has(up, Sends)
      /\ Single(up', Sends)
      /\ conn.st # "connected" => up' = up
      /\ Joined'
  <2>1. Single(up, Sends)
    BY DEF ChatInv, OneSend
  <2>2. CASE conn.st = "connected"
    <3>1. up' = Append(up, Joining) /\ conn' = conn
      BY <2>2 DEF JoinConversation
    <3>2. Joining \in Emits /\ Joining \in Joins /\ Joining \notin Sends
      BY EmitKinds
    <3>3. /\ up' \in Seq(Emits)
          /\ \A T : Has(up', T) <=> Has(up, T) \/ Joining \in T
          /\ \A T : Single(up, T) /\ ~(Has(up, T) /\ Joining \in T) => Single(up', T)
      BY <1>2, <3>1, <3>2, Emitting
    <3>4. QED
      BY <1>2, <2>1, <2>2, <3>1, <3>2, <3>3 DEF Joined
  <2>3. CASE conn.st # "connected"
    <3> DEFINE yes == TRUE
    <3>1. conn' = [conn EXCEPT !.join = yes] /\ up' = up
      BY <2>3 DEF JoinConversation
    <3>2. yes \in BOOLEAN /\ yes
      OBVIOUS
    <3> HIDE DEF yes
    <3>3. conn' \in Sockets /\ conn'.st = "connecting" /\ conn'.join
      BY <1>1, <1>2, <2>3, <3>1, <3>2 DEF Sockets
    <3>4. QED
      BY <1>1, <1>2, <2>1, <2>3, <3>1, <3>3 DEF Joined
  <2>4. QED
    BY <2>2, <2>3
<1>4. /\ ~Has(calls[i].history, Of(0))
      /\ \A x \in Ids : /\ Single(calls[i].history, Of(x))
                        /\ Has(calls[i].history, Of(x)) => ~(x > Known)
  <2>1. calls[i] \notin Broken
    BY QueuesOf DEF Has
  <2>2. ASSUME NEW x \in Ids, Has(calls[i].history, Of(x)) PROVE ~(x > Known)
    <3>1. Has(calls, Tells(x))
      BY <1>1, <2>2 DEF Has, Tells
    <3>2. QED
      BY <3>1 DEF ChatInv, IdsKnown
  <2>3. QED
    BY <1>1, <2>1, <2>2 DEF Broken
<1>5. ChatTypeOK'
  BY <1>1, <1>3 DEF ChatInv, ChatTypeOK
<1>6. OneAtWork'
  BY DEF ChatInv, OneAtWork, Busy
<1>7. Working' = Working
  BY SameWork
<1>8. OnLine'
  BY <1>1, <1>3, <1>7 DEF ChatInv, OnLine, Fewer
<1>9. OneLoad'
  BY <1>1 DEF ChatInv, OneLoad, Fewer
<1>10. OneSend'
  BY <1>1, <1>3, <1>7 DEF ChatInv, OneSend, Fewer
<1>11. IdsKnown'
  BY <1>1, <1>4 DEF ChatInv, IdsKnown, Fewer, Known, Marking
<1>12. EachOnce'
  <2>1. \A x \in Ids : Single(down, NewsOf(x))
    BY QueuesOf
  <2>2. QED
    BY <1>1, <1>4, <2>1 DEF EachOnce
<1>13. Settled'
  <2>1. \A t : ~Has(calls[i].history, PendingOf(t))
    <3>1. \A t : PendingOf(t) \subseteq Of(0)
      BY DEF PendingOf
    <3>2. QED
      BY <1>4, <3>1, HasPart
  <2>2. Single(calls[i].history, Of(0))
    BY <1>4 DEF Has, Single
  <2>3. QED
    BY <1>3, <2>1, <2>2 DEF Settled
<1>14. QED
  BY <1>5, <1>6, <1>8, <1>9, <1>10, <1>11, <1>12, <1>13 DEF ChatInv

(* The conversation has come with its history ...                          *)
LEMMA StepConversation ==
    ASSUME ChatInv, NEW i \in DOMAIN calls, ConversationLoads(i)
    PROVE  ChatInv'
<1>1. /\ Loads(i, "conversation") /\ UNCHANGED <<status, msgs, work, room, down>>
      /\ chat \in Pages
  BY DEF ConversationLoads, ChatInv, ChatTypeOK
<1> DEFINE rest == RemoveAt(calls, i)
           yes == TRUE
           no == FALSE
<1>2. /\ chat.open /\ chat.loading /\ ~room /\ ~conn.join /\ ~Has(up, Joins)
      /\ ~Has(down, News) /\ \A x : ~Has(down, NewsOf(x))
      /\ calls[i] \in ChatRequests /\ calls[i] \notin Posts
      /\ rest \in Seq(ChatRequests) /\ Fewer(rest, calls) /\ ~Has(rest, LoadsAsked)
      /\ Has(calls, Posts) => Has(rest, Posts)
  BY <1>1, LoadIsBack
<1>3. yes \in BOOLEAN /\ yes /\ no \in BOOLEAN /\ ~no
  OBVIOUS
<1>4. CASE calls[i].history # <<>>
  <2> DEFINE c == chat.closed \/ calls[i].closed
  <2>1. /\ chat' = [chat EXCEPT !.on = yes, !.loading = no, !.shown = calls[i].history,
                                !.closed = c]
        /\ calls' = RemoveAt(calls, i) /\ JoinConversation
    BY <1>4 DEF ConversationLoads
  <2>2. c \in BOOLEAN /\ calls[i].history \in Seq(Entries)
    BY <1>1, <1>2 DEF Pages, ChatRequests
  <2> HIDE DEF yes, no, c
  <2>3. /\ chat' \in Pages /\ chat'.open = chat.open /\ ~chat'.loading
        /\ chat'.sending = chat.sending /\ chat'.shown = calls[i].history
    BY <1>1, <1>3, <2>1, <2>2 DEF Pages
  <2>4. QED
    BY <1>1, <2>1, <2>3, StepShows
<1>5. CASE calls[i].history = <<>>
  <2> DEFINE r == [Request("messages", AnyText) EXCEPT !.closed = calls[i].closed]
  <2>1. /\ chat' = [chat EXCEPT !.on = yes] /\ calls' = Append(rest, r)
        /\ UNCHANGED <<conn, up>>
    BY <1>5 DEF ConversationLoads
  <2>2. /\ r \in ChatRequests /\ r \notin Broken /\ \A x : r \notin Tells(x) /\ r \notin Confirms(x)
        /\ r \notin Posts /\ r \in LoadsAsked
    <3>1. calls[i].closed \in BOOLEAN
      BY <1>2 DEF ChatRequests
    <3>2. QED
      BY <3>1, NewRequest, AnyTextIs
  <2> HIDE DEF yes, no, r, rest
  <2>3. /\ chat' \in Pages /\ chat'.open = chat.open /\ chat'.loading = chat.loading
        /\ chat'.sending = chat.sending /\ chat'.shown = chat.shown
    BY <1>1, <1>3, <2>1 DEF Pages
  <2>4. /\ calls' \in Seq(ChatRequests)
        /\ \A T : Has(calls', T) <=> Has(rest, T) \/ r \in T
        /\ \A T : Single(rest, T) /\ ~(Has(rest, T) /\ r \in T) => Single(calls', T)
        /\ Has(calls', Broken) <=> Has(rest, Broken)
        /\ \A x : Has(calls', Tells(x)) <=> Has(rest, Tells(x))
        /\ \A x : Has(calls', Confirms(x)) <=> Has(rest, Confirms(x))
    BY <1>2, <2>1, <2>2, Requesting
  <2>5. /\ Single(calls', LoadsAsked) /\ Single(calls', Posts)
        /\ Has(calls', Posts) <=> Has(calls, Posts)
        /\ ~Has(calls', Broken)
        /\ \A x \in Ids : Has(calls', Tells(x)) => Has(calls, Tells(x))
        /\ \A x \in Ids : Has(calls', Confirms(x)) => Has(calls, Confirms(x))
    BY <1>2, <2>2, <2>4, QueuesOf DEF Fewer
  <2>6. ChatTypeOK'
    BY <1>1, <2>1, <2>3, <2>4 DEF ChatInv, ChatTypeOK
  <2>7. OneAtWork'
    BY <1>1 DEF ChatInv, OneAtWork, Busy
  <2>8. Working' = Working
    BY <1>1, SameWork
  <2>9. OnLine'
    BY <1>1, <1>2, <2>1, <2>3, <2>8 DEF ChatInv, OnLine
  <2>10. OneLoad'
    BY <1>1, <1>2, <2>1, <2>3, <2>5 DEF OneLoad
  <2>11. OneSend'
    BY <1>1, <2>1, <2>3, <2>5, <2>8 DEF ChatInv, OneSend
  <2>12. IdsKnown'
    BY <1>1, <2>3, <2>5 DEF ChatInv, IdsKnown, Known, Marking
  <2>13. EachOnce'
    BY <1>1, <2>3, <2>5 DEF ChatInv, EachOnce
  <2>14. Settled'
    BY <1>2, <2>3 DEF Settled, Settling
  <2>15. QED
    BY <2>6, <2>7, <2>9, <2>10, <2>11, <2>12, <2>13, <2>14 DEF ChatInv
<1>6. QED
  BY <1>4, <1>5

(* ... or the messages that it came without ...                            *)
LEMMA StepMessages ==
    ASSUME ChatInv, NEW i \in DOMAIN calls, MessagesLoad(i)
    PROVE  ChatInv'
<1> DEFINE c == chat.closed \/ calls[i].closed
           no == FALSE
<1>1. /\ Loads(i, "messages") /\ UNCHANGED <<status, msgs, work, room, down>>
      /\ chat' = [chat EXCEPT !.loading = no, !.shown = calls[i].history, !.closed = c]
      /\ calls' = RemoveAt(calls, i) /\ JoinConversation
      /\ chat \in Pages /\ calls[i] \in ChatRequests
  BY DEF MessagesLoad, ChatInv, ChatTypeOK
<1>2. c \in BOOLEAN /\ no \in BOOLEAN /\ ~no /\ calls[i].history \in Seq(Entries)
  BY <1>1 DEF Pages, ChatRequests
<1> HIDE DEF c, no
<1>3. /\ chat' \in Pages /\ chat'.open = chat.open /\ ~chat'.loading
      /\ chat'.sending = chat.sending /\ chat'.shown = calls[i].history
  BY <1>1, <1>2 DEF Pages
<1>4. QED
  BY <1>1, <1>3, StepShows

(* ... or neither.                                                         *)
LEMMA StepLoadFails ==
    ASSUME ChatInv, NEW i \in DOMAIN calls, LoadFails(i)
    PROVE  ChatInv'
<1> DEFINE yes == TRUE
           no == FALSE
<1>1. /\ UNCHANGED <<status, msgs, work, room, conn, up, down>>
      /\ chat' = [chat EXCEPT !.loading = no, !.lost = yes]
      /\ calls' = RemoveAt(calls, i) /\ chat \in Pages
  BY DEF LoadFails, ChatInv, ChatTypeOK
<1>2. yes \in BOOLEAN /\ yes /\ no \in BOOLEAN /\ ~no
  OBVIOUS
<1> HIDE DEF yes, no
<1>3. /\ calls' \in Seq(ChatRequests) /\ Fewer(calls', calls) /\ ~Has(calls', LoadsAsked)
      /\ Has(calls, Posts) => Has(calls', Posts)
  <2>1. PICK what \in {"conversation", "messages"} : Loads(i, what)
    BY DEF LoadFails
  <2>2. QED
    BY <1>1, <2>1, LoadIsBack
<1>4. /\ chat' \in Pages /\ chat'.open = chat.open /\ chat'.on = chat.on /\ chat'.lost
      /\ chat'.sending = chat.sending /\ chat'.shown = chat.shown
  BY <1>1, <1>2 DEF Pages
<1>5. ChatTypeOK'
  BY <1>1, <1>3, <1>4 DEF ChatInv, ChatTypeOK
<1>6. OneAtWork'
  BY <1>1 DEF ChatInv, OneAtWork, Busy
<1>7. Working' = Working
  BY <1>1, SameWork
<1>8. OnLine'
  BY <1>1, <1>3, <1>4, <1>7 DEF ChatInv, OnLine, Fewer
<1>9. OneLoad'
  BY <1>1, <1>3 DEF ChatInv, OneLoad, Fewer
<1>10. OneSend'
  BY <1>1, <1>3, <1>4, <1>7 DEF ChatInv, OneSend, Fewer
<1>11. IdsKnown'
  BY <1>1, <1>3, <1>4 DEF ChatInv, IdsKnown, Fewer, Known, Marking
<1>12. EachOnce'
  BY <1>1, <1>3, <1>4 DEF ChatInv, EachOnce, Fewer
<1>13. Settled'
  BY <1>4 DEF Settled, Settling
<1>14. QED
  BY <1>5, <1>6, <1>8, <1>9, <1>10, <1>11, <1>12, <1>13 DEF ChatInv

-----------------------------------------------------------------------------
(* The specification                                                       *)

(* At the beginning the page is closed and nothing is under way.           *)
LEMMA InitChat == ChatInit => ChatInv
<1> SUFFICES ASSUME ChatInit PROVE ChatInv
  OBVIOUS
<1>1. /\ status = "ACTIVE" /\ msgs = <<>> /\ work = [p \in ChatHandlers |-> AtRest] /\ room = FALSE
      /\ chat = Away /\ conn = [st |-> "none", join |-> FALSE]
      /\ up = <<>> /\ down = <<>> /\ calls = <<>>
  BY DEF ChatInit
<1>2. AtRest \in HandlerRecords /\ AtRest.pc = "idle"
  BY AnyTextIs DEF AtRest, HandlerRecords, Members
<1>3. work \in [ChatHandlers -> HandlerRecords] /\ \A p \in ChatHandlers : work[p].pc = "idle"
  <2>1. work = [p \in ChatHandlers |-> AtRest]
    BY <1>1
  <2>2. QED
    BY <1>2, <2>1
<1>4. /\ \A T : /\ ~Has(up, T) /\ ~Has(down, T) /\ ~Has(calls, T) /\ ~Has(chat.shown, T)
                /\ Single(up, T) /\ Single(down, T) /\ Single(calls, T) /\ Single(chat.shown, T)
      /\ ~chat.open /\ ~chat.on /\ chat \in Pages
  <2>1. up = <<>> /\ down = <<>> /\ calls = <<>> /\ chat = Away
    BY <1>1
  <2>2. QED
    BY <2>1, HasNothing, AwayIs
<1>5. conn \in Sockets /\ conn.st = "none"
  <2>1. conn = [st |-> "none", join |-> FALSE]
    BY <1>1
  <2>2. QED
    BY <2>1 DEF Sockets
<1>6. ChatTypeOK
  <2>1. (conn.st = "none") = ~chat.open
    BY <1>4, <1>5
  <2>2. \A S : <<>> \in Seq(S)
    OBVIOUS
  <2>3. /\ msgs \in Seq(Messages) /\ up \in Seq(Emits) /\ down \in Seq(Events)
        /\ calls \in Seq(ChatRequests) /\ status \in {"ACTIVE", "CLOSED"}
    <3>1. msgs = <<>> /\ up = <<>> /\ down = <<>> /\ calls = <<>> /\ status = "ACTIVE"
      BY <1>1
    <3>2. QED
      BY <2>2, <3>1
  <2>4. Len(msgs) <= MaxMessages
    <3>1. msgs = <<>>
      BY <1>1
    <3>2. Len(msgs) = 0
      BY <3>1
    <3>3. QED
      BY <3>2, ChatAssumption
  <2>5. room \in BOOLEAN
    <3>1. room = FALSE
      BY <1>1
    <3>2. QED
      BY <3>1
  <2>6. QED
    BY <1>3, <1>4, <1>5, <2>1, <2>3, <2>4, <2>5 DEF ChatTypeOK
<1>7. OneAtWork
  BY <1>3 DEF OneAtWork, Busy
<1>8. ~Working /\ ~room /\ up = <<>> /\ down = <<>>
  BY <1>1, <1>3 DEF Working, Works, Busy
<1>9. OnLine
  BY <1>4, <1>8 DEF OnLine
<1>10. OneLoad
  BY <1>4 DEF OneLoad
<1>11. OneSend
  BY <1>4, <1>8 DEF OneSend
<1>12. IdsKnown
  BY <1>4 DEF IdsKnown
<1>13. EachOnce
  BY <1>4 DEF EachOnce
<1>14. Settled
  BY <1>4 DEF Settled, Settling
<1>15. QED
  BY <1>6, <1>7, <1>9, <1>10, <1>11, <1>12, <1>13, <1>14 DEF ChatInv

(* Nothing happens.                                                        *)
LEMMA StepStays == ASSUME ChatInv, UNCHANGED chatVars PROVE ChatInv'
<1>1. /\ UNCHANGED <<work, room, chat, conn, up, down>> /\ status' \in {"ACTIVE", "CLOSED"}
      /\ msgs' = msgs /\ calls' = calls /\ calls' \in Seq(ChatRequests) /\ msgs' \in Seq(Messages)
  BY DEF chatVars, ChatInv, ChatTypeOK
<1>2. Fewer(calls', calls)
  BY <1>1, FewerSame
<1>3. QED
  BY <1>1, <1>2, StepQuiet

(* The server receives a request.                                          *)
LEMMA StepServed ==
    ASSUME ~ChatOverlap, ChatInv, NEW i \in DOMAIN calls, ServeRequest(i)
    PROVE  ChatInv'
<1>1. CASE ServeConversation(i) \/ ServeMessages(i)
  BY <1>1, StepHistory
<1>2. CASE ServeHide(i)
  BY <1>2, StepServeHide
<1>3. CASE RequestFails(i)
  BY <1>3, StepFails
<1>4. CASE \E p \in ChatHandlers : RestSend(p, i)
  BY <1>4, StepRestSend
<1>5. QED
  BY <1>1, <1>2, <1>3, <1>4 DEF ServeRequest

(* The page reads a reply.                                                 *)
LEMMA StepReplied ==
    ASSUME ChatInv, NEW i \in DOMAIN calls, Reply(i)
    PROVE  ChatInv'
<1>1. CASE ConversationLoads(i)
  BY <1>1, StepConversation
<1>2. CASE MessagesLoad(i)
  BY <1>2, StepMessages
<1>3. CASE LoadFails(i)
  BY <1>3, StepLoadFails
<1>4. CASE RestReply(i)
  BY <1>4, StepRestReply
<1>5. CASE HideReply(i)
  BY <1>5, StepHidden, StepNotHidden
<1>6. QED
  BY <1>1, <1>2, <1>3, <1>4, <1>5 DEF Reply

(* One of the members does something.                                      *)
LEMMA StepPeople == ASSUME ~ChatOverlap, ChatInv, User \/ Peer PROVE ChatInv'
<1>1. CASE Open
  BY <1>1, StepOpens
<1>2. CASE Leave
  BY <1>2, StepLeaves
<1>3. CASE HideAsk
  BY <1>3, StepHideAsk
<1>4. CASE \E t \in Texts : SendMessage(t)
  BY <1>4, StepSend
<1>5. CASE \E i \in DOMAIN msgs : DeleteMessage("me", i) \/ DeleteMessage("peer", i)
  BY <1>5, StepDelete DEF Members
<1>6. CASE \E p \in ChatHandlers, t \in Texts, via \in {"socket", "rest"} : PeerSends(p, t, via)
  BY <1>6, StepPeerSends
<1>7. CASE PeerHides
  BY <1>7, StepPeerHides
<1>8. QED
  BY <1>1, <1>2, <1>3, <1>4, <1>5, <1>6, <1>7 DEF User, Peer

(* Every step keeps the invariant, if the handlers work one after another. *)
LEMMA StepChat == ASSUME ~ChatOverlap, ChatInv, [ChatNext]_chatVars PROVE ChatInv'
<1>1. CASE User \/ Peer
  BY <1>1, StepPeople
<1>2. CASE \E i \in DOMAIN calls : ServeRequest(i) \/ Reply(i)
  BY <1>2, StepServed, StepReplied
<1>3. CASE HandleEmit
  BY <1>3, StepJoin, StepHandleSend DEF HandleEmit
<1>4. CASE ReceiveEvent
  BY <1>4, StepMessage, StepClosedHeard, StepAck, StepNack DEF ReceiveEvent
<1>5. CASE \E p \in ChatHandlers : HandlerStep(p)
  BY <1>5, StepCreate, StepFinish, StepFailsToSend DEF HandlerStep
<1>6. CASE CloseConversation
  BY <1>6, StepClose
<1>7. CASE SocketConnects
  BY <1>7, StepConnects
<1>8. CASE SocketDrops
  BY <1>8, StepDrops
<1>9. CASE UNCHANGED chatVars
  BY <1>9, StepStays
<1>10. QED
  BY <1>1, <1>2, <1>3, <1>4, <1>5, <1>6, <1>7, <1>8, <1>9 DEF ChatNext

(* So it holds always.                                                     *)
LEMMA ChatHolds == ASSUME ~ChatOverlap PROVE ChatSpec => []ChatInv
<1>1. ChatInit => ChatInv
  BY InitChat
<1>2. ChatInv /\ [ChatNext]_chatVars => ChatInv'
  BY StepChat
<1>3. QED
  BY <1>1, <1>2, PTL DEF ChatSpec

(* It says what the two properties say.                                    *)
LEMMA ChatInvMeans == ChatInv => NothingTwice /\ PendingSettles
<1> SUFFICES ASSUME ChatInv PROVE NothingTwice /\ PendingSettles
  OBVIOUS
<1>1. chat.shown \in Seq(Entries) /\ \A x \in Ids : Single(chat.shown, Of(x))
  BY ShownKnown
<1>2. NothingTwice
  <2> SUFFICES ASSUME NEW i \in DOMAIN chat.shown, NEW j \in DOMAIN chat.shown, i # j,
                      chat.shown[i].id = chat.shown[j].id, chat.shown[i].id # 0
               PROVE  FALSE
    BY DEF NothingTwice, IsPending
  <2> DEFINE x == chat.shown[i].id
  <2>1. chat.shown[i] \in Entries /\ chat.shown[j] \in Entries
    BY <1>1
  <2>2. x \in Ids /\ chat.shown[i] \in Of(x) /\ chat.shown[j] \in Of(x)
    BY <2>1 DEF Entries, Of
  <2>3. QED
    BY <1>1, <2>2 DEF Single
<1>3. PendingSettles
  <2> SUFFICES ASSUME Settling, ~chat.sending PROVE PendingPlaces(chat.shown) = {}
    BY DEF PendingSettles, Settling
  <2>1. ~Has(up, Sends) /\ ~Has(down, Answers) /\ ~Has(calls, Posts) /\ ~Working
    BY DEF ChatInv, OneSend
  <2>2. ~Has(down, Nacks) /\ ~Has(down, Acks)
    BY <2>1, HasPart, PartsOfKinds
  <2>3. \A t : ~Ahead(down, MineOf(t), Acks)
    BY <2>2 DEF Ahead, Has
  <2>4. ~Has(chat.shown, Of(0))
    BY <2>1, <2>2, <2>3, NothingPending
  <2>5. QED
    BY <1>1, <2>4, PendingHas
<1>4. QED
  BY <1>2, <1>3

(* NothingTwice, for any number of messages, requests and handlers, any    *)
(* bound on a history, whether or not the socket drops: the list of the    *)
(* chat page has no message twice (ChatService.handleMessage,              *)
(* replacePending and the page's ngOnInit and sendMessage), if the         *)
(* server's handlers do not overlap.                                       *)
THEOREM NoMessageTwice == ASSUME ~ChatOverlap PROVE ChatSpec => []NothingTwice
<1>1. ChatSpec => []ChatInv
  BY ChatHolds
<1>2. ChatInv => NothingTwice
  BY ChatInvMeans
<1>3. QED
  BY <1>1, <1>2, PTL

(* PendingSettles, likewise: on a page whose socket has not dropped since  *)
(* it was loaded, a message that is still pending is still being sent      *)
(* (sendMessage, its acknowledgement and the broadcast that replaces it).  *)
THEOREM PendingIsAnswered == ASSUME ~ChatOverlap PROVE ChatSpec => []PendingSettles
<1>1. ChatSpec => []ChatInv
  BY ChatHolds
<1>2. ChatInv => PendingSettles
  BY ChatInvMeans
<1>3. QED
  BY <1>1, <1>2, PTL
=====================================================================
