------------------------------ MODULE Accounts ------------------------------
(***************************************************************************)
(* AuthService of the backend: registration, sign-in, refresh tokens,      *)
(* password changes, and the codes sent by mail that verify an address or  *)
(* reset a password.                                                       *)
(*                                                                         *)
(* A handler is a process of Procs; between its database calls it hashes   *)
(* or compares with bcrypt, which takes a good part of a second, so that   *)
(* other requests get in between.  A refused request changes nothing.      *)
(*                                                                         *)
(* The requests on the accounts of inTurn never overlap.                   *)
(***************************************************************************)
EXTENDS Integers, Sequences, FiniteSets

CONSTANTS
    Accounts,       \* ids of accounts
    Procs,          \* requests being served at the same time
    NoOne,          \* no account, no code
    Codes,          \* ids of verification tokens (a bound)
    MaxPasswords,   \* bound on the times a password is replaced
    MaxTokens,      \* bound on the token pairs of an account
    Faults          \* TRUE: a database call may fail, or the server stop

ASSUME AccountsAssumption ==
    /\ NoOne \notin Accounts \cup Codes
    /\ IsFiniteSet(Codes)
    /\ MaxPasswords \in Nat
    /\ MaxTokens \in Nat
    /\ Faults \in BOOLEAN

VARIABLES
    account,    \* table accounts
    code,       \* table verification_tokens
    tokens,     \* tokens[a]: the token pairs issued to a, each as the
                \* password its chain of refreshes began with
    signIns,    \* signIns[a]: how often a's password opened it
    resets,     \* resets[a]: how often a link replaced a's password
    inTurn,     \* the accounts whose requests come one at a time, for good
    otpTask,    \* otpTask[a]: the mail task registration fired and did not await
    h           \* h[p]: the handler process p is running

vars == <<account, code, tokens, signIns, resets, inTurn, otpTask, h>>

-----------------------------------------------------------------------------
(* Rows *)

NoToken == 0
None == -1

(* password counts replacements; refreshToken is the token, by its number, *)
(* whose hash is stored.                                                   *)
AccountRows ==
    [password : None .. MaxPasswords, refreshToken : 0 .. MaxTokens,
     isActive : BOOLEAN, isEmailVerified : BOOLEAN]

NoAccount == [password |-> None, refreshToken |-> NoToken,
              isActive |-> FALSE, isEmailVerified |-> FALSE]

NewAccount == [password |-> 0, refreshToken |-> NoToken,
               isActive |-> TRUE, isEmailVerified |-> FALSE]

Exists(a) == account[a].password # None

CodeTypes == {"EMAIL_VERIFY", "PASSWORD_RESET"}

(* EXPIRED: past expiresAt and unused; NONE: not there, or deleted.        *)
CodeRows == [st : {"NONE", "LIVE", "EXPIRED", "USED"},
             type : CodeTypes \cup {"NONE"}, account : Accounts \cup {NoOne}]

NoCode == [st |-> "NONE", type |-> "NONE", account |-> NoOne]

CodesOf(a, type, states) ==
    {c \in Codes : code[c].account = a /\ code[c].type = type /\ code[c].st \in states}

(* bcrypt reads 72 bytes.  In a refresh token those are the JWT's header   *)
(* and the start of `sub`, the account's id: the stored hash fits every    *)
(* token of the account.                                                   *)
Fits(token, stored) == stored # NoToken

-----------------------------------------------------------------------------
(* Handlers *)

Places ==
    {"idle", "register.create", "signIn.issue", "refresh.issue", "logout.update",
     "change.update", "forgot.deleteMany", "forgot.create",
     "reset.transaction", "otp.deleteMany", "otp.create", "verify.transaction"}

HandlerRecords ==
    [pc : Places, account : Accounts \cup {NoOne}, code : Codes \cup {NoOne},
     with : None .. MaxPasswords]

Idle == [pc |-> "idle", account |-> NoOne, code |-> NoOne, with |-> None]

(* Process p can take a new request on account a.                          *)
Free(p, a) ==
    /\ h[p].pc = "idle"
    /\ a \in inTurn => \A q \in Procs : h[q].account # a

Start(p, pc, a, c, with) ==
    h' = [h EXCEPT ![p] = [pc |-> pc, account |-> a, code |-> c, with |-> with]]

At(p, pc) == h[p].pc = pc
Goto(p, pc) == h' = [h EXCEPT ![p].pc = pc]
Return(p) == h' = [h EXCEPT ![p] = Idle]

Init ==
    /\ account = [a \in Accounts |-> NoAccount]
    /\ code = [c \in Codes |-> NoCode]
    /\ tokens = [a \in Accounts |-> <<>>]
    /\ signIns = [a \in Accounts |-> 0]
    /\ resets = [a \in Accounts |-> 0]
    /\ inTurn \in SUBSET Accounts
    /\ otpTask = [a \in Accounts |-> "none"]
    /\ h = [p \in Procs |-> Idle]

-----------------------------------------------------------------------------
(* registerUser, registerRider: the phone must be free (the hash follows). *)
RegisterFind(p, a) ==
    /\ Free(p, a)
    /\ ~Exists(a)
    /\ Start(p, "register.create", a, NoOne, 0)
    /\ UNCHANGED <<account, code, tokens, signIns, resets, inTurn, otpTask>>

(* ... the insert, refused if the phone was taken meanwhile; the mail with *)
(* the code is a task nobody awaits.                                       *)
RegisterCreate(p) ==
    /\ At(p, "register.create")
    /\ LET a == h[p].account
       IN  IF Exists(a)
           THEN Return(p) /\ UNCHANGED <<account, otpTask>>
           ELSE /\ account' = [account EXCEPT ![a] = NewAccount]
                /\ otpTask' = [otpTask EXCEPT ![a] = "deleteMany"]
                /\ Goto(p, "signIn.issue")
    /\ UNCHANGED <<code, tokens, signIns, resets, inTurn>>

(* login: an active account and its password of now.                       *)
LoginFind(p, a) ==
    /\ Free(p, a)
    /\ account[a].isActive
    /\ Start(p, "signIn.issue", a, NoOne, account[a].password)
    /\ UNCHANGED <<account, code, tokens, signIns, resets, inTurn, otpTask>>

(* Mutant: a revoked session is not turned away.                           *)
RefreshRevoked(p, a, token) ==
    /\ Free(p, a)
    /\ token \in DOMAIN tokens[a]
    /\ Start(p, "refresh.issue", a, NoOne, tokens[a][token])
    /\ UNCHANGED <<account, code, tokens, signIns, resets, inTurn, otpTask>>

(* refreshTokens, guard included: some token of the account against the    *)
(* stored hash.  A suspended account is not turned away here.              *)
RefreshFind(p, a, token) ==
    /\ Free(p, a)
    /\ token \in DOMAIN tokens[a]
    /\ account[a].refreshToken # NoToken
    /\ Fits(token, account[a].refreshToken)
    /\ Start(p, "refresh.issue", a, NoOne, tokens[a][token])
    /\ UNCHANGED <<account, code, tokens, signIns, resets, inTurn, otpTask>>

(* issueTokens: sign, hash, then store the hash whatever the row is by now.*)
IssueUpdate(p) ==
    /\ At(p, "signIn.issue") \/ At(p, "refresh.issue")
    /\ LET a == h[p].account
       IN  /\ Len(tokens[a]) < MaxTokens
           /\ tokens' = [tokens EXCEPT ![a] = Append(@, h[p].with)]
           /\ account' = [account EXCEPT ![a].refreshToken = Len(tokens[a]) + 1]
           /\ signIns' = [signIns EXCEPT ![a] =
                             IF At(p, "signIn.issue") THEN @ + 1 ELSE @]
    /\ Return(p)
    /\ UNCHANGED <<code, resets, inTurn, otpTask>>

(* logout: behind the access token, which asks for an active account.      *)
LogoutFind(p, a) ==
    /\ Free(p, a)
    /\ account[a].isActive
    /\ Start(p, "logout.update", a, NoOne, None)
    /\ UNCHANGED <<account, code, tokens, signIns, resets, inTurn, otpTask>>

LogoutUpdate(p) ==
    /\ At(p, "logout.update")
    /\ account' = [account EXCEPT ![h[p].account].refreshToken = NoToken]
    /\ Return(p)
    /\ UNCHANGED <<code, tokens, signIns, resets, inTurn, otpTask>>

(* changePassword: the current password is compared, then both columns are *)
(* written by id.                                                          *)
ChangeFind(p, a) ==
    /\ Free(p, a)
    /\ account[a].isActive
    /\ account[a].password < MaxPasswords
    /\ Start(p, "change.update", a, NoOne, account[a].password)
    /\ UNCHANGED <<account, code, tokens, signIns, resets, inTurn, otpTask>>

NewPassword(row, pw) == [row EXCEPT !.password = pw, !.refreshToken = NoToken]

ChangeUpdate(p) ==
    /\ At(p, "change.update")
    /\ account' = [account EXCEPT ![h[p].account] = NewPassword(@, h[p].with + 1)]
    /\ Return(p)
    /\ UNCHANGED <<code, tokens, signIns, resets, inTurn, otpTask>>

-----------------------------------------------------------------------------
(* Codes.  deleteMany takes the unused ones, expired or not.               *)
DeleteUnused(a, type) ==
    code' = [c \in Codes |->
                IF c \in CodesOf(a, type, {"LIVE", "EXPIRED"}) THEN NoCode ELSE code[c]]

CreateCode(a, type) ==
    \E c \in Codes :
        /\ code[c].st = "NONE"
        /\ \A p \in Procs : h[p].code # c      \* ids are not given out again
        /\ code' = [code EXCEPT ![c] = [st |-> "LIVE", type |-> type, account |-> a]]

(* forgotPassword                                                          *)
ForgotFind(p, a) ==
    /\ Free(p, a)
    /\ Exists(a)
    /\ Start(p, "forgot.deleteMany", a, NoOne, None)
    /\ UNCHANGED <<account, code, tokens, signIns, resets, inTurn, otpTask>>

ForgotDeleteMany(p) ==
    /\ At(p, "forgot.deleteMany")
    /\ DeleteUnused(h[p].account, "PASSWORD_RESET")
    /\ Goto(p, "forgot.create")
    /\ UNCHANGED <<account, tokens, signIns, resets, inTurn, otpTask>>

ForgotCreate(p) ==
    /\ At(p, "forgot.create")
    /\ CreateCode(h[p].account, "PASSWORD_RESET")
    /\ Return(p)
    /\ UNCHANGED <<account, tokens, signIns, resets, inTurn, otpTask>>

(* Mutant: a used link is found as well.                                   *)
ResetFindUsed(p, c) ==
    /\ code[c].type = "PASSWORD_RESET"
    /\ code[c].st \in {"LIVE", "USED"}
    /\ Free(p, code[c].account)
    /\ account[code[c].account].password < MaxPasswords
    /\ Start(p, "reset.transaction", code[c].account, c, None)
    /\ UNCHANGED <<account, code, tokens, signIns, resets, inTurn, otpTask>>

(* resetPassword: the rows that are unused and not expired, one of which   *)
(* must fit; two bcrypt calls later the transaction, by id.                *)
ResetFindMany(p, c) ==
    /\ code[c].type = "PASSWORD_RESET"
    /\ code[c].st = "LIVE"
    /\ Free(p, code[c].account)
    /\ account[code[c].account].password < MaxPasswords
    /\ Start(p, "reset.transaction", code[c].account, c, None)
    /\ UNCHANGED <<account, code, tokens, signIns, resets, inTurn, otpTask>>

(* ... a row deleted meanwhile fails it, one used meanwhile does not.      *)
ResetTransaction(p) ==
    /\ At(p, "reset.transaction")
    /\ LET c == h[p].code
           a == h[p].account
       IN  IF code[c].st = "NONE"
           THEN UNCHANGED <<account, code, resets>>
           ELSE /\ account[a].password < MaxPasswords
                /\ code' = [code EXCEPT ![c].st = "USED"]
                /\ account' = [account EXCEPT ![a] = NewPassword(@, account[a].password + 1)]
                /\ resets' = [resets EXCEPT ![a] = @ + 1]
    /\ Return(p)
    /\ UNCHANGED <<tokens, signIns, inTurn, otpTask>>

(* resendVerificationOtp: an account not verified yet; then, awaited here  *)
(* and fired by registration, sendEmailVerificationOtp.                    *)
ResendFind(p, a) ==
    /\ Free(p, a)
    /\ account[a].isActive
    /\ ~account[a].isEmailVerified
    /\ Start(p, "otp.deleteMany", a, NoOne, None)
    /\ UNCHANGED <<account, code, tokens, signIns, resets, inTurn, otpTask>>

OtpDeleteMany(p) ==
    /\ At(p, "otp.deleteMany")
    /\ DeleteUnused(h[p].account, "EMAIL_VERIFY")
    /\ Goto(p, "otp.create")
    /\ UNCHANGED <<account, tokens, signIns, resets, inTurn, otpTask>>

OtpCreate(p) ==
    /\ At(p, "otp.create")
    /\ CreateCode(h[p].account, "EMAIL_VERIFY")
    /\ Return(p)
    /\ UNCHANGED <<account, tokens, signIns, resets, inTurn, otpTask>>

OtpTaskDeletes(a) ==
    /\ otpTask[a] = "deleteMany"
    /\ DeleteUnused(a, "EMAIL_VERIFY")
    /\ otpTask' = [otpTask EXCEPT ![a] = "create"]
    /\ UNCHANGED <<account, tokens, signIns, resets, inTurn, h>>

OtpTaskCreates(a) ==
    /\ otpTask[a] = "create"
    /\ CreateCode(a, "EMAIL_VERIFY")
    /\ otpTask' = [otpTask EXCEPT ![a] = "none"]
    /\ UNCHANGED <<account, tokens, signIns, resets, inTurn, h>>

(* verifyEmail                                                             *)
VerifyFindMany(p, c) ==
    /\ code[c].type = "EMAIL_VERIFY"
    /\ code[c].st = "LIVE"
    /\ Free(p, code[c].account)
    /\ account[code[c].account].isActive
    /\ Start(p, "verify.transaction", code[c].account, c, None)
    /\ UNCHANGED <<account, code, tokens, signIns, resets, inTurn, otpTask>>

(* Mutant: the account is written although the code is gone.               *)
VerifyWithoutTransaction(p) ==
    /\ At(p, "verify.transaction")
    /\ code' = [code EXCEPT ![h[p].code].st = IF @ = "NONE" THEN @ ELSE "USED"]
    /\ account' = [account EXCEPT ![h[p].account].isEmailVerified = TRUE]
    /\ Return(p)
    /\ UNCHANGED <<tokens, signIns, resets, inTurn, otpTask>>

VerifyTransaction(p) ==
    /\ At(p, "verify.transaction")
    /\ IF code[h[p].code].st = "NONE"
       THEN UNCHANGED <<account, code>>
       ELSE /\ code' = [code EXCEPT ![h[p].code].st = "USED"]
            /\ account' = [account EXCEPT ![h[p].account].isEmailVerified = TRUE]
    /\ Return(p)
    /\ UNCHANGED <<tokens, signIns, resets, inTurn, otpTask>>

CodeExpires(c) ==
    /\ code[c].st = "LIVE"
    /\ code' = [code EXCEPT ![c].st = "EXPIRED"]
    /\ UNCHANGED <<account, tokens, signIns, resets, inTurn, otpTask, h>>

-----------------------------------------------------------------------------
(* AdminService.setAccountStatus: the stored hash stays.                   *)
SetActive(a, b) ==
    /\ Exists(a)
    /\ account' = [account EXCEPT ![a].isActive = b]
    /\ UNCHANGED <<code, tokens, signIns, resets, inTurn, otpTask, h>>

(* A call throws, or the server stops.  A mail task just ends.             *)
HandlerFails(p) ==
    /\ Faults
    /\ h[p].pc # "idle"
    /\ Return(p)
    /\ UNCHANGED <<account, code, tokens, signIns, resets, inTurn, otpTask>>

OtpTaskFails(a) ==
    /\ Faults
    /\ otpTask[a] # "none"
    /\ otpTask' = [otpTask EXCEPT ![a] = "none"]
    /\ UNCHANGED <<account, code, tokens, signIns, resets, inTurn, h>>

HandlerStep(p) ==
    \/ RegisterCreate(p) \/ IssueUpdate(p) \/ LogoutUpdate(p) \/ ChangeUpdate(p)
    \/ ForgotDeleteMany(p) \/ ForgotCreate(p) \/ ResetTransaction(p)
    \/ OtpDeleteMany(p) \/ OtpCreate(p) \/ VerifyTransaction(p)

NewRequest(p) ==
    \/ \E a \in Accounts :
          \/ RegisterFind(p, a) \/ LoginFind(p, a) \/ LogoutFind(p, a)
          \/ ChangeFind(p, a) \/ ForgotFind(p, a) \/ ResendFind(p, a)
          \/ \E token \in 1 .. MaxTokens : RefreshFind(p, a, token)
    \/ \E c \in Codes : ResetFindMany(p, c) \/ VerifyFindMany(p, c)

Next ==
    \/ \E p \in Procs : HandlerStep(p) \/ NewRequest(p) \/ HandlerFails(p)
    \/ \E a \in Accounts :
          \/ OtpTaskDeletes(a) \/ OtpTaskCreates(a) \/ OtpTaskFails(a)
          \/ \E b \in BOOLEAN : SetActive(a, b)
    \/ \E c \in Codes : CodeExpires(c)

Spec == Init /\ [][Next]_vars
=============================================================================
