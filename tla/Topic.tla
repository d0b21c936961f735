------------------------------- MODULE Topic --------------------------------
(***************************************************************************)
(* What SubscriptionPoint promises (subscriptionpoint.hpp: "a publishing   *)
(* point", "Post payload to all subscribers"): every payload posted while  *)
(* a client is subscribed is owed to it, and it gets what it is owed in    *)
(* the order of the posts, nothing twice, and nothing left out unless the  *)
(* reply to a client failed.                                               *)
(***************************************************************************)
EXTENDS Sequences, Naturals

CONSTANTS Subs, Payloads,
          FailingReplies    \* the clients a reply to whom may fail

VARIABLES members,    \* the subscribed clients
          owed,       \* owed[s]: payloads posted while s was a member
          served,     \* how many of owed[s] have been sent or are lost
          received    \* received[s]: replies sent to s

vars == <<members, owed, served, received>>

Init == /\ members = {}
        /\ owed = [s \in Subs |-> << >>]
        /\ served = [s \in Subs |-> 0]
        /\ received = [s \in Subs |-> << >>]

Join(s) == /\ s \notin members
           /\ members' = members \cup {s}
           /\ UNCHANGED <<owed, served, received>>

Leave(S) == /\ S \subseteq members
            /\ members' = members \ S
            /\ UNCHANGED <<owed, served, received>>

Post(p) == /\ owed' = [s \in Subs |-> IF s \in members THEN Append(owed[s], p)
                                                       ELSE owed[s]]
           /\ UNCHANGED <<members, served, received>>

(* The next payload goes to the clients in S; those in lost miss it, which *)
(* takes one of them whose reply fails.  A member that left is still sent  *)
(* what it was owed.                                                       *)
Deliver(S, lost) ==
  /\ S \cap lost = {}
  /\ lost # {} => lost \cap FailingReplies # {}
  /\ \A s \in S \cup lost : served[s] < Len(owed[s])
  /\ received' = [s \in Subs |-> IF s \in S
                                 THEN Append(received[s], owed[s][served[s] + 1])
                                 ELSE received[s]]
  /\ served' = [s \in Subs |-> IF s \in S \cup lost THEN served[s] + 1 ELSE served[s]]
  /\ UNCHANGED <<members, owed>>

Next == \/ \E s \in Subs : Join(s)
        \/ \E S \in SUBSET Subs : Leave(S) \/ \E lost \in SUBSET Subs : Deliver(S, lost)
        \/ \E p \in Payloads : Post(p)

Spec == Init /\ [][Next]_vars
=============================================================================
