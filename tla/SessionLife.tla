---------------------------- MODULE SessionLife ----------------------------
(***************************************************************************)
(* What the owner of an account is promised about being signed in, every   *)
(* operation a single step: only the password of the moment opens the      *)
(* account again once it was signed out, and a new password signs it out.  *)
(***************************************************************************)
EXTENDS Integers

CONSTANT Users

VARIABLES
    password,   \* password[u]: how often it was replaced; -1: no account yet
    signedIn,   \* signedIn[u]: somebody may go on without the password
    signIns     \* signIns[u]: how often the password opened the account

lifeVars == <<password, signedIn, signIns>>

LifeInit ==
    /\ password = [u \in Users |-> -1]
    /\ signedIn = [u \in Users |-> FALSE]
    /\ signIns = [u \in Users |-> 0]

SignUp(u) ==
    /\ password[u] = -1
    /\ password' = [password EXCEPT ![u] = 0]
    /\ UNCHANGED <<signedIn, signIns>>

SignIn(u) ==
    /\ password[u] # -1
    /\ signedIn' = [signedIn EXCEPT ![u] = TRUE]
    /\ signIns' = [signIns EXCEPT ![u] = @ + 1]
    /\ UNCHANGED password

SignOut(u) ==
    /\ signedIn' = [signedIn EXCEPT ![u] = FALSE]
    /\ UNCHANGED <<password, signIns>>

NewPassword(u) ==
    /\ password[u] # -1
    /\ password' = [password EXCEPT ![u] = @ + 1]
    /\ signedIn' = [signedIn EXCEPT ![u] = FALSE]
    /\ UNCHANGED signIns

LifeNext == \E u \in Users : SignUp(u) \/ SignIn(u) \/ SignOut(u) \/ NewPassword(u)

LifeSpec == LifeInit /\ [][LifeNext]_lifeVars
=============================================================================
