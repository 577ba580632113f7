----------------------------- MODULE SingleUse -----------------------------
(* What a secret that may be used once promises: it is in force for one stretch
   of time, and whatever is granted for it is granted once, no earlier than when
   it leaves force for good.  Refresh tokens (Sessions) are such secrets. *)
EXTENDS Naturals

CONSTANT Secrets

VARIABLES
  live,    \* secrets in force
  spent,   \* secrets that are never in force again
  granted  \* how often something was granted for each

vars == <<live, spent, granted>>

Init == live = {} /\ spent = {} /\ granted = [x \in Secrets |-> 0]

(* Any number of secrets come and go in one step. *)
Issue == live' \subseteq Secrets \ spent'
Spend == spent \subseteq spent' /\ live \ live' \subseteq spent'
Grant == \A x \in Secrets :
           granted'[x] # granted[x] => granted[x] = 0 /\ granted'[x] = 1 /\ x \in spent'

Next == Issue /\ Spend /\ Grant

Spec == Init /\ [][Next]_vars
============================================================================
