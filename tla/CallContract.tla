---------------------------- MODULE CallContract ----------------------------
(***************************************************************************)
(* What the header of ServicePoint promises about outgoing calls           *)
(* (include/public/ls2-helpers/servicepoint.hpp: the class comment and the *)
(* comments of callOneReply, callMultiReply and cancelCall): a handler     *)
(* runs only between the call and its end, a one-reply call ends with its  *)
(* first reply, a cancelled call and every call of a destroyed             *)
(* ServicePoint have ended.                                                *)
(***************************************************************************)
EXTENDS Naturals

CONSTANT Calls

VARIABLES phase,      \* phase[c]: "new", "open" or "over"
          once,       \* the calls made with callOneReply
          delivered,  \* delivered[c]: how often the handler of c was started
          alive       \* the ServicePoint has not been destroyed

vars == <<phase, once, delivered, alive>>

Init == /\ phase = [c \in Calls |-> "new"]
        /\ once = {}
        /\ delivered = [c \in Calls |-> 0]
        /\ alive = TRUE

Open(c) == /\ alive
           /\ phase[c] = "new"
           /\ phase' = [phase EXCEPT ![c] = "open"]
           /\ once' \in {once, once \cup {c}}
           /\ UNCHANGED <<delivered, alive>>

Deliver(c) == /\ phase[c] = "open"
              /\ delivered' = [delivered EXCEPT ![c] = @ + 1]
              /\ phase' = IF c \in once THEN [phase EXCEPT ![c] = "over"]
                                        ELSE phase
              /\ UNCHANGED <<once, alive>>

Close(c) == /\ phase[c] = "open"
            /\ phase' = [phase EXCEPT ![c] = "over"]
            /\ UNCHANGED <<once, delivered, alive>>

CloseAll == /\ alive
            /\ alive' = FALSE
            /\ phase' = [c \in Calls |-> IF phase[c] = "open" THEN "over"
                                                              ELSE phase[c]]
            /\ UNCHANGED <<once, delivered>>

Next == CloseAll \/ \E c \in Calls : Open(c) \/ Deliver(c) \/ Close(c)

Spec == Init /\ [][Next]_vars
=============================================================================
