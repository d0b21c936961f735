------------------------- MODULE SignalSubscription -------------------------
(***************************************************************************)
(* subscribeToSignal and sendSignal (servicepoint.hpp, servicepoint.cpp)   *)
(* and JsonResponse::handleLunaResponse (jsonresponse.cpp).  A signal      *)
(* subscription is a multi-reply call to the hub, whose first response is  *)
(* the answer to the subscription and whose later ones are signals.  The   *)
(* wrapper that subscribeToSignal puts around the handler swallows the     *)
(* answer; callResponseHandler copies it for every response, so that the   *)
(* flag it looks at has to be shared by the copies.                        *)
(*                                                                         *)
(* An operator marked "Variant" is a wrong version of the definition that  *)
(* follows it; nothing in the specification uses it.                       *)
(***************************************************************************)
EXTENDS Naturals, Sequences, FiniteSets, SequencesExt

CONSTANTS Subscribers, \* calls of subscribeToSignal, for one signal
          Payloads,    \* contents of a signal
          MaxSignals   \* bound: signals sent

ASSUME SignalAssumption == MaxSignals \in Nat

VARIABLES
  state,      \* state[s]: "new", "asked", "matched", "refused", "cancelled"
  first,      \* first[s]: *firstResponse
  inbox,      \* inbox[s]: responses that wait at the loop
  frame,      \* the subscribers whose handler is running (one at most)
  terminated, \* an exception left handleLunaResponse, which is noexcept
  sent,       \* history, sent[s]: signals sent since the hub matched s
  delivered   \* history, delivered[s]: what the handler of s was given

vars == <<state, first, inbox, frame, terminated, sent, delivered>>

\* A response: its kind, whether its payload is JSON, and the payload.
Answer == [kind |-> "answer", json |-> TRUE, payload |-> 0]
HubError == [kind |-> "hubError", json |-> TRUE, payload |-> 0]
Signal(p, json) == [kind |-> "signal", json |-> json, payload |-> p]
Signals == {Signal(p, json) : p \in Payloads, json \in BOOLEAN}
Messages == {Answer, HubError} \cup Signals

(* Type invariant.                                                         *)
TypeOK ==
  /\ state \in [Subscribers -> {"new", "asked", "matched", "refused", "cancelled"}]
  /\ first \in [Subscribers -> BOOLEAN]
  /\ inbox \in [Subscribers -> Seq(Messages)]
  /\ frame \subseteq Subscribers /\ Cardinality(frame) <= 1
  /\ terminated \in BOOLEAN
  /\ sent \in [Subscribers -> Seq(Signals)]
  /\ delivered \in [Subscribers -> Seq({HubError} \cup Signals)]

Init ==
  /\ state = [s \in Subscribers |-> "new"]
  /\ first = [s \in Subscribers |-> TRUE]
  /\ inbox = [s \in Subscribers |-> << >>]
  /\ frame = {} /\ terminated = FALSE
  /\ sent = [s \in Subscribers |-> << >>]
  /\ delivered = [s \in Subscribers |-> << >>]

-----------------------------------------------------------------------------
(* Client code: on any thread, and in handlers.                            *)

(* subscribeToSignal.  (When LSCall fails it throws and nothing changes.)  *)
SubscribeToSignal(s) ==
  /\ state[s] = "new"
  /\ state' = [state EXCEPT ![s] = "asked"]
  /\ first' = [first EXCEPT ![s] = TRUE]
  /\ UNCHANGED <<inbox, frame, terminated, sent, delivered>>

(* cancelCall: luna drops the responses that wait.                         *)
CancelCall(s) ==
  /\ state[s] \in {"asked", "matched", "refused"}
  /\ state' = [state EXCEPT ![s] = "cancelled"]
  /\ inbox' = [inbox EXCEPT ![s] = << >>]
  /\ UNCHANGED <<first, frame, terminated, sent, delivered>>

(* sendSignal, which sends JSON, and other programs, which need not: the   *)
(* hub passes the signal to everyone it has matched.                       *)
SendSignal(p, json) ==
  LET Matched(s) == state[s] = "matched"
      Add(q) == [s \in Subscribers |-> IF Matched(s) THEN Append(q[s], Signal(p, json))
                                                     ELSE q[s]]
  IN /\ \A s \in Subscribers : Len(sent[s]) < MaxSignals
     /\ inbox' = Add(inbox)
     /\ sent' = Add(sent)
     /\ UNCHANGED <<state, first, frame, terminated, delivered>>

-----------------------------------------------------------------------------
(* The hub answers the subscription before it passes any signal on.        *)
HubMatches(s) ==
  /\ state[s] = "asked"
  /\ state' = [state EXCEPT ![s] = "matched"]
  /\ inbox' = [inbox EXCEPT ![s] = Append(@, Answer)]
  /\ UNCHANGED <<first, frame, terminated, sent, delivered>>

(* The hub refuses, or goes away later.                                    *)
HubFails(s) ==
  /\ state[s] \in {"asked", "matched"}
  /\ state' = [state EXCEPT ![s] = "refused"]
  /\ inbox' = [inbox EXCEPT ![s] = Append(@, HubError)]
  /\ UNCHANGED <<first, frame, terminated, sent, delivered>>

-----------------------------------------------------------------------------
(* handleLunaResponse: what isSuccess() will say of a message.             *)
Success(msg) == msg.kind # "hubError" /\ msg.json

(* Variant: the flag is captured by value; each copy of the wrapper clears *)
(* a flag of its own.                                                      *)
ClearCopy(s) == UNCHANGED first

ClearFirst(s) == first' = [first EXCEPT ![s] = FALSE]

(* Variant: the wrapper does not return after the answer.                  *)
DispatchAll(s) ==
  /\ frame = {}
  /\ inbox[s] # << >>
  /\ inbox' = [inbox EXCEPT ![s] = Tail(@)]
  /\ IF first[s] /\ Success(Head(inbox[s])) THEN ClearFirst(s) ELSE UNCHANGED first
  /\ frame' = {s}
  /\ delivered' = [delivered EXCEPT ![s] = Append(@, Head(inbox[s]))]
  /\ UNCHANGED <<state, terminated, sent>>

(* The loop dispatches a response: the wrapper swallows it, or calls the   *)
(* handler.                                                                *)
Dispatch(s) ==
  /\ frame = {}
  /\ inbox[s] # << >>
  /\ inbox' = [inbox EXCEPT ![s] = Tail(@)]
  /\ IF first[s] /\ Success(Head(inbox[s]))
     THEN /\ ClearFirst(s)
          /\ UNCHANGED <<frame, delivered>>
     ELSE /\ frame' = {s}
          /\ delivered' = [delivered EXCEPT ![s] = Append(@, Head(inbox[s]))]
          /\ UNCHANGED first
  /\ UNCHANGED <<state, terminated, sent>>

Endings == {"returns", "JsonParseError", "std::exception", "another exception"}

(* Variant: no catch clause for other exceptions.                          *)
HandlerEscapes(ending) ==
  /\ frame # {}
  /\ frame' = {}
  /\ terminated' = (ending = "another exception")
  /\ UNCHANGED <<state, first, inbox, sent, delivered>>

(* The handler ends; whatever it throws is caught and logged.              *)
HandlerEnds(ending) ==
  /\ frame # {}
  /\ frame' = {}
  /\ terminated' = FALSE
  /\ UNCHANGED <<state, first, inbox, sent, delivered>>

-----------------------------------------------------------------------------
ClientStep == \/ \E s \in Subscribers : SubscribeToSignal(s) \/ CancelCall(s)
              \/ \E p \in Payloads, json \in BOOLEAN : SendSignal(p, json)

HubStep == \E s \in Subscribers : HubMatches(s) \/ HubFails(s)

LoopStep == \/ \E s \in Subscribers : Dispatch(s)
            \/ \E ending \in Endings : HandlerEnds(ending)

Next == ~terminated /\ (ClientStep \/ HubStep \/ LoopStep)

Spec == Init /\ [][Next]_vars

(* Handlers return, and the loop serves responses in the order they came.  *)
FairSpec ==
  /\ Spec
  /\ WF_vars(~terminated /\ \E ending \in Endings : HandlerEnds(ending))
  /\ \A s \in Subscribers : SF_vars(~terminated /\ Dispatch(s))

-----------------------------------------------------------------------------
(* Properties *)

\* What the hub has sent to s for its handler.
Due(s) == IF state[s] = "refused" THEN Append(sent[s], HubError) ELSE sent[s]

\* What waits for the handler of s: the answer of the hub can only be the first.
Waiting(s) == IF inbox[s] # << >> /\ Head(inbox[s]) = Answer THEN Tail(inbox[s])
                                                             ELSE inbox[s]

(* "The response handler receives only signal responses. Or error response *)
(* from hub if there is error while subscribing": until the subscription   *)
(* is cancelled its handler has been given every signal sent since the hub *)
(* matched it but those that still wait, in their order, and a hub error   *)
(* once, at the end; never the answer to the subscription.  When it is     *)
(* cancelled, a beginning of this.                                         *)
SignalsComplete ==
  \A s \in Subscribers :
    IF state[s] = "cancelled" THEN IsPrefix(delivered[s], Append(sent[s], HubError))
    ELSE delivered[s] \o Waiting(s) = Due(s)

(* A subscription stays alive whatever its handler does: a signal that is  *)
(* sent is seen by the handler in the end, unless the call is cancelled.   *)
EventuallyDelivered ==
  \A s \in Subscribers : \A n \in 1 .. MaxSignals :
    Len(sent[s]) = n ~> \/ Len(delivered[s]) >= n
                        \/ state[s] = "cancelled"
=============================================================================
