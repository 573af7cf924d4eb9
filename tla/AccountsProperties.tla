------------------------ MODULE AccountsProperties ------------------------
(***************************************************************************)
(* What AuthService should guarantee, on every account or on those whose   *)
(* requests come one at a time.                                            *)
(***************************************************************************)
EXTENDS Accounts

(* The tables hold rows of their types, and every handler record is one.   *)
TypeOK ==
    /\ account \in [Accounts -> AccountRows]
    /\ code \in [Codes -> CodeRows]
    /\ tokens \in [Accounts -> Seq(0 .. MaxPasswords)]
    /\ signIns \in [Accounts -> Nat]
    /\ resets \in [Accounts -> Nat]
    /\ inTurn \subseteq Accounts
    /\ otpTask \in [Accounts -> {"none", "deleteMany", "create"}]
    /\ h \in [Procs -> HandlerRecords]

(* An address counts as verified only if one of the codes sent to it was   *)
(* used, although other requests and the task of registration delete and   *)
(* create codes between verifyEmail's search and its transaction.          *)
VerifiedByCode ==
    \A a \in Accounts :
        account[a].isEmailVerified => CodesOf(a, "EMAIL_VERIFY", {"USED"}) # {}

(* On an account whose requests do not overlap, a link of forgotPassword   *)
(* replaces the password once.                                             *)
LinkWorksOnce ==
    \A a \in inTurn :
        resets[a] = Cardinality(CodesOf(a, "PASSWORD_RESET", {"USED"}))

Sessions ==
    INSTANCE SessionLife WITH
        Users <- Accounts,
        password <- [a \in Accounts |->
                        IF a \in inTurn THEN account[a].password ELSE None],
        signedIn <- [a \in Accounts |->
                        a \in inTurn /\ account[a].refreshToken # NoToken],
        signIns <- [a \in Accounts |-> IF a \in inTurn THEN signIns[a] ELSE 0]

(* ... and once it is signed out, by logout or by a new password, only its *)
(* password signs it in again: a refresh goes on with what there is, in    *)
(* spite of the hashing between what it reads and what it writes.          *)
KeepsSessionPromise == Sessions!LifeSpec

(* "The old refresh token is rotated (invalidated) on each call", and after *)
(* a new password "other devices must sign in again": the session of an    *)
(* account was opened with the password it has.                            *)
SessionKnowsPassword ==
    \A a \in inTurn :
        account[a].refreshToken # NoToken =>
            tokens[a][account[a].refreshToken] = account[a].password
=============================================================================
