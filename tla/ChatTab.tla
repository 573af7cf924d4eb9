------------------------------ MODULE ChatTab ------------------------------
(***************************************************************************)
(* A tab of the browser with the chat page: the calls of the session and   *)
(* the page.  They share no state - the page looks only at whether a call  *)
(* was answered or failed, which the session decides - so that a behaviour *)
(* is of either, and the other part stays as it begins.                    *)
(***************************************************************************)
EXTENDS ChatProperties, BrowserSessionProperties

VARIABLE part   \* the part this behaviour is of

tabVars == <<part, chatVars, vars>>

TabInit == part \in {"session", "page"} /\ Init /\ ChatInit

OnSession == part = "session" /\ Next /\ UNCHANGED <<part, chatVars>>
OnPage == part = "page" /\ ChatNext /\ UNCHANGED <<part, vars>>

TabNext == OnSession \/ OnPage

(* In its initial state neither part has a fair step to take.              *)
TabSpec == TabInit /\ [][TabNext]_tabVars /\ Fairness /\ ChatFairness
=============================================================================
