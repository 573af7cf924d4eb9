--------------------------- MODULE BrowserSession ---------------------------
(***************************************************************************)
(* Being signed in, as the browser has it: AuthService with its signal and *)
(* the local storage that the tabs share, the interceptor that sends the   *)
(* access token along and answers a 401, and what the server makes of it.  *)
(*                                                                         *)
(* Tokens are numbered as they are issued, an access and a refresh token   *)
(* together; login stands for the registrations too, which end alike.  The *)
(* week after which a refresh token expires is left out, and there is one  *)
(* account: a tab does not look whose tokens the storage has.              *)
(***************************************************************************)
EXTENDS Naturals

CONSTANTS
    Tabs,        \* tabs of the app
    NoTab,       \* the tab of a request whose page is gone
    Slots,       \* requests in flight
    MaxTokens,   \* bound on the tokens ever issued
    Faults       \* TRUE: requests fail, answers are lost

ASSUME BrowserAssumption ==
    /\ NoTab \notin Tabs /\ MaxTokens \in Nat \ {0} /\ Faults \in BOOLEAN

VARIABLES
    store,       \* the three entries of localStorage
    user,        \* user[t]: the signal _user, by the login that set it
    refreshing,  \* refreshing[t]: refreshChain and its request
    req,         \* the other requests in flight
    row,         \* the refresh token the server has for the account, 0: null
    isActive,    \* the account is not suspended
    expired,     \* the access tokens whose 15 minutes are over
    issued,      \* how many tokens were issued
    clean        \* history: nothing was in flight when the last login ended, and
                 \* the account has not been suspended since

vars == <<store, user, refreshing, req, row, isActive, expired, issued, clean>>

-----------------------------------------------------------------------------
Tokens == 1 .. MaxTokens
Stores == [access : {0} \cup Tokens, refresh : {0} \cup Tokens, user : {0} \cup Tokens]
NoStore == [access |-> 0, refresh |-> 0, user |-> 0]

(* What a request carries; token 0 is no header.                           *)
Headers == [token : {0} \cup Tokens, kind : {"access", "refresh"}]
Access(k) == [token |-> k, kind |-> "access"]
RefreshOf(k) == [token |-> k, kind |-> "refresh"]

(* `got`: the tokens that an answer has brought.                           *)
Refreshes == [at : {"no", "sent", "ok", "401", "error"}, header : Headers, got : {0} \cup Tokens]
NoRefresh == [at |-> "no", header |-> Access(0), got |-> 0]

(* `pressed`: a logout the user asked for.  A call that was refused awaits *)
(* the tab's refresh, and is sent once more or becomes a logout.           *)
Requests == [for : {"none", "call", "login", "logout", "change"}, tab : Tabs \cup {NoTab},
             at : {"sent", "ok", "401", "error", "awaiting"}, token : {0} \cup Tokens,
             retried : BOOLEAN, pressed : BOOLEAN]

Idle == [for |-> "none", tab |-> NoTab, at |-> "sent", token |-> 0,
         retried |-> FALSE, pressed |-> FALSE]

Init ==
    /\ store = NoStore
    /\ user = [t \in Tabs |-> 0]
    /\ refreshing = [t \in Tabs |-> NoRefresh]
    /\ req = [s \in Slots |-> Idle]
    /\ row = 0 /\ isActive = TRUE /\ expired = {} /\ issued = 0
    /\ clean = TRUE

-----------------------------------------------------------------------------
(* Sending                                                                 *)

(* Mutant: a header the caller has set is left alone.                      *)
KeepsHeader(own) == IF own.token # 0 THEN own ELSE Access(store.access)

(* authInterceptor: the stored access token replaces whatever header the   *)
(* caller has set.                                                         *)
Header(own) == IF store.access # 0 THEN Access(store.access) ELSE own

Sent(for, t, retried, pressed) ==
    [for |-> for, tab |-> t, at |-> "sent", token |-> Header(Access(0)).token,
     retried |-> retried, pressed |-> pressed]

Send(s, for, t, pressed) ==
    /\ req[s] = Idle
    /\ req' = [req EXCEPT ![s] = Sent(for, t, FALSE, pressed)]
    /\ UNCHANGED <<store, user, refreshing, row, isActive, expired, issued, clean>>

(* A page that authGuard let in asks for something.                        *)
Call(s, t) == user[t] # 0 /\ Send(s, "call", t, FALSE)

PressLogout(s, t) == user[t] # 0 /\ Send(s, "logout", t, TRUE)

ChangePassword(s, t) == user[t] # 0 /\ Send(s, "change", t, FALSE)

(* The login page: guestGuard, and one attempt at a time.                  *)
Login(s, t) ==
    /\ user[t] = 0
    /\ \A q \in Slots : ~(req[q].for = "login" /\ req[q].tab = t)
    /\ Send(s, "login", t, FALSE)

-----------------------------------------------------------------------------
(* What the browser does with an answer                                    *)

Answered(s, for, at) == req[s].for = for /\ req[s].at = at /\ req[s].tab # NoTab

Finish(s) == req' = [req EXCEPT ![s] = Idle]

CallDone(s) ==
    /\ \/ Answered(s, "call", "ok") \/ (Answered(s, "call", "error") /\ ~req[s].retried)
       \/ Answered(s, "login", "401") \/ Answered(s, "login", "error")
       \/ Answered(s, "change", "401") \/ Answered(s, "change", "error")
    /\ Finish(s)
    /\ UNCHANGED <<store, user, refreshing, row, isActive, expired, issued, clean>>

(* The answer to GET or PATCH /users/me goes on with updateUser, which     *)
(* stores the user of this tab's signal, whatever became of the storage.   *)
ProfileDone(s) ==
    /\ Answered(s, "call", "ok") /\ user[req[s].tab] # 0
    /\ store' = [store EXCEPT !.user = user[req[s].tab]]
    /\ Finish(s)
    /\ UNCHANGED <<user, refreshing, row, isActive, expired, issued, clean>>

(* persist *)
LoggedIn(s) ==
    /\ Answered(s, "login", "ok")
    /\ store' = [access |-> req[s].token, refresh |-> req[s].token, user |-> req[s].token]
    /\ user' = [user EXCEPT ![req[s].tab] = req[s].token]
    /\ Finish(s)
    /\ clean' = /\ isActive
                /\ \A q \in Slots \ {s} : req[q] = Idle
                /\ \A t \in Tabs : refreshing[t] = NoRefresh
    /\ UNCHANGED <<refreshing, row, isActive, expired, issued>>

PasswordChanged(s) ==
    /\ Answered(s, "change", "ok")
    /\ store' = [store EXCEPT !.refresh = 0]
    /\ Finish(s)
    /\ UNCHANGED <<user, refreshing, row, isActive, expired, issued, clean>>

(* auth.logout goes on, whatever the answer: clear.                        *)
LoggedOut(s) ==
    /\ req[s].for = "logout" /\ req[s].at \in {"ok", "401", "error"} /\ req[s].tab # NoTab
    /\ store' = NoStore
    /\ user' = [user EXCEPT ![req[s].tab] = 0]
    /\ Finish(s)
    /\ UNCHANGED <<refreshing, row, isActive, expired, issued, clean>>

(* Mutant: the look for 401 is missing.                                    *)
AnyErrorRefused(s) == req[s].for = "call" /\ req[s].tab # NoTab /\ req[s].at \in {"401", "error"}

(* What a call sent once more ends with is not looked at.                  *)
Refused(s) == Answered(s, "call", "401") \/ (req[s].retried /\ Answered(s, "call", "error"))

(* The first time a call waits for a refresh, one for all calls of the     *)
(* tab; the second time it logs out.                                       *)
CallRefused(s) ==
    /\ Refused(s)
    /\ IF req[s].retried
       THEN /\ req' = [req EXCEPT ![s] = Sent("logout", @.tab, FALSE, FALSE)]
            /\ UNCHANGED refreshing
       ELSE /\ req' = [req EXCEPT ![s].at = "awaiting"]
            /\ LET t == req[s].tab
               IN  refreshing' =
                     IF refreshing[t].at # "no" THEN refreshing
                     ELSE [refreshing EXCEPT ![t] =
                             IF store.refresh = 0 THEN [@ EXCEPT !.at = "error"]
                             ELSE [at |-> "sent", header |-> Header(RefreshOf(store.refresh)),
                                   got |-> 0]]
    /\ UNCHANGED <<store, user, row, isActive, expired, issued, clean>>

Awaits(s, t) == req[s].at = "awaiting" /\ req[s].tab = t

(* Mutant: the interceptor treats auth/refresh like any other path, so the *)
(* refresh waits for itself.                                               *)
OtherErrorsOnly(t) == refreshing[t].at = "error"

RefreshRejected(t) == refreshing[t].at \in {"401", "error"}

(* doRefresh goes on, and then each of the calls: with the new token, or   *)
(* with a logout each.                                                     *)
RefreshEnds(t) ==
    LET ok == refreshing[t].at = "ok"
    IN  /\ ok \/ RefreshRejected(t)
        /\ store' = IF ok THEN [store EXCEPT !.access = refreshing[t].got,
                                             !.refresh = refreshing[t].got]
                    ELSE store
        /\ refreshing' = [refreshing EXCEPT ![t] = NoRefresh]
        /\ req' = [s \in Slots |->
                     IF ~Awaits(s, t) THEN req[s]
                     ELSE IF ok THEN [req[s] EXCEPT !.at = "sent", !.token = refreshing[t].got,
                                                    !.retried = TRUE]
                     ELSE Sent("logout", t, FALSE, FALSE)]
        /\ UNCHANGED <<user, row, isActive, expired, issued, clean>>

(* The tab is loaded anew: the constructor reads the stored user.          *)
Reload(t) ==
    /\ user' = [user EXCEPT ![t] = store.user]
    /\ refreshing' = [refreshing EXCEPT ![t] = NoRefresh]
    /\ req' = [s \in Slots |->
                 IF req[s].tab # t THEN req[s]
                 ELSE IF req[s].at = "sent" /\ req[s].for # "call" THEN [req[s] EXCEPT !.tab = NoTab]
                 ELSE Idle]
    /\ UNCHANGED <<store, row, isActive, expired, issued, clean>>

-----------------------------------------------------------------------------
(* The server                                                              *)

(* JwtStrategy: neither an expired token nor a suspended account.          *)
Valid(k) == k # 0 /\ k \notin expired /\ isActive

(* What a request does there: JwtAuthGuard, then logout or changePassword; *)
(* login issues tokens.                                                    *)
Effect(s) ==
    CASE req[s].for = "login" ->
             /\ isActive /\ issued < MaxTokens
             /\ issued' = issued + 1 /\ row' = issued + 1
      [] req[s].for \in {"logout", "change"} /\ Valid(req[s].token) ->
             /\ row' = 0 /\ UNCHANGED issued
      [] OTHER -> UNCHANGED <<issued, row>>

(* `token`: the ones a login's answer brings, otherwise none.              *)
Respond(s, at, token) ==
    req' = [req EXCEPT ![s] = IF @.tab = NoTab THEN Idle
                              ELSE [@ EXCEPT !.at = at, !.token = token]]

(* A wrong password is a 401 too, of login and of password/change; login   *)
(* says the same of a suspended account.                                   *)
Serve(s) ==
    /\ req[s].for # "none" /\ req[s].at = "sent"
    /\ \/ /\ Effect(s)
          /\ IF req[s].for = "login" THEN Respond(s, "ok", issued')
             ELSE Respond(s, IF Valid(req[s].token) THEN "ok" ELSE "401", 0)
       \/ /\ req[s].for \in {"login", "change"}
          /\ Respond(s, "401", 0)
          /\ UNCHANGED <<issued, row>>
    /\ UNCHANGED <<store, user, refreshing, isActive, expired, clean>>

Fail(s) ==
    /\ Faults /\ req[s].for # "none" /\ req[s].at = "sent"
    /\ Respond(s, "error", 0)
    /\ UNCHANGED <<store, user, refreshing, row, isActive, expired, issued, clean>>

(* The answer is a 504 although the request was served: errorInterceptor   *)
(* sends it again as it was.                                               *)
AnswerLost(s) ==
    /\ Faults /\ req[s].for # "none" /\ req[s].at = "sent"
    /\ Effect(s)
    /\ UNCHANGED <<store, user, refreshing, req, isActive, expired, clean>>

(* JwtRefreshGuard wants a refresh token, by its secret (the two secrets   *)
(* differ, as .env.example has them), and refreshTokens a row; that the    *)
(* comparison takes any refresh token of the account is in Accounts.       *)
ServeRefresh(t) ==
    /\ refreshing[t].at = "sent"
    /\ IF refreshing[t].header.kind = "refresh" /\ row # 0
       THEN /\ issued < MaxTokens
            /\ issued' = issued + 1 /\ row' = issued + 1
            /\ refreshing' = [refreshing EXCEPT ![t].at = "ok", ![t].got = issued + 1]
       ELSE /\ refreshing' = [refreshing EXCEPT ![t].at = "401"]
            /\ UNCHANGED <<issued, row>>
    /\ UNCHANGED <<store, user, req, isActive, expired, clean>>

RefreshFails(t) ==
    /\ Faults /\ refreshing[t].at = "sent"
    /\ refreshing' = [refreshing EXCEPT ![t].at = "error"]
    /\ UNCHANGED <<store, user, req, row, isActive, expired, issued, clean>>

Expire(k) ==
    /\ k \in 1 .. issued /\ k \notin expired
    /\ expired' = expired \cup {k}
    /\ UNCHANGED <<store, user, refreshing, req, row, isActive, issued, clean>>

(* setAccountStatus: an admin suspends or reactivates the account.  The    *)
(* refresh token stays, and a refresh does not look at isActive.           *)
SetAccountStatus ==
    /\ isActive' = ~isActive
    /\ clean' = (clean /\ ~isActive)
    /\ UNCHANGED <<store, user, refreshing, req, row, expired, issued>>

-----------------------------------------------------------------------------
Handled(s) ==
    \/ CallDone(s) \/ ProfileDone(s) \/ LoggedIn(s) \/ PasswordChanged(s) \/ LoggedOut(s)
    \/ CallRefused(s)

Next ==
    \/ \E s \in Slots, t \in Tabs :
          Call(s, t) \/ PressLogout(s, t) \/ ChangePassword(s, t) \/ Login(s, t)
    \/ \E s \in Slots : Handled(s) \/ Serve(s) \/ Fail(s) \/ AnswerLost(s)
    \/ \E t \in Tabs : RefreshEnds(t) \/ ServeRefresh(t) \/ RefreshFails(t) \/ Reload(t)
    \/ \E k \in Tokens : Expire(k)
    \/ SetAccountStatus

Spec == Init /\ [][Next]_vars

(* Requests are answered in the end, and answers handled.                  *)
Fairness ==
    /\ \A s \in Slots : WF_vars(Serve(s) \/ Handled(s))
    /\ \A t \in Tabs : WF_vars(ServeRefresh(t) \/ RefreshEnds(t))
=============================================================================
