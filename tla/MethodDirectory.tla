-------------------------- MODULE MethodDirectory ---------------------------
(***************************************************************************)
(* What registering methods on a luna handle promises (servicepoint.hpp:   *)
(* "Manages lifetime of a collection of method handlers", "all pending     *)
(* calls and subscriptions will be stopped on object destruction"): a      *)
(* request goes to the ServicePoint that registered its method, for as     *)
(* long as that exists, and gets the "removed" error afterwards, if that   *)
(* can be sent.  While a registration is under way, or when one failed     *)
(* half way, the method is pending and its requests are refused.           *)
(***************************************************************************)
CONSTANTS Points, Methods, Requests

VARIABLES owner,   \* owner[m]: a point, or "none", "pending", "removed"
          wants,   \* wants[r]: the method that was asked for
          answer   \* answer[r]: "no", "asked", or who answered

vars == <<owner, wants, answer>>

Init == /\ owner = [m \in Methods |-> "none"]
        /\ wants \in [Requests -> Methods]
        /\ answer = [r \in Requests |-> "no"]

Begin(m) == /\ owner[m] \notin Points
            /\ owner' = [owner EXCEPT ![m] = "pending"]
            /\ UNCHANGED <<wants, answer>>

Register(p, m) == /\ owner[m] = "pending"
                  /\ owner' = [owner EXCEPT ![m] = p]
                  /\ UNCHANGED <<wants, answer>>

Unregister(m) == /\ owner[m] \in Points
                 /\ owner' = [owner EXCEPT ![m] = "removed"]
                 /\ UNCHANGED <<wants, answer>>

Ask(r) == /\ answer[r] = "no"
          /\ answer' = [answer EXCEPT ![r] = "asked"]
          /\ UNCHANGED <<owner, wants>>

(* Whoever owns the method when the request is dispatched answers it.      *)
Serve(r) == /\ answer[r] = "asked"
            /\ answer' = [answer EXCEPT ![r] = owner[wants[r]]]
            /\ UNCHANGED <<owner, wants>>

Next == \/ \E m \in Methods : \/ Begin(m) \/ Unregister(m)
                              \/ \E p \in Points : Register(p, m)
        \/ \E r \in Requests : Ask(r) \/ Serve(r)

Spec == Init /\ [][Next]_vars
=============================================================================
