----------------------- MODULE PersistentSubscription -----------------------
(***************************************************************************)
(* One PersistentSubscription (persistentsubscription.cpp) with the        *)
(* ServerStatus it owns (serverstatus.hpp), used on the thread of the luna *)
(* loop, handlers included.  Luna reports that the service came up or went *)
(* down (notes) and delivers the responses of the call (inbox); nothing    *)
(* orders the one with respect to the other.                               *)
(*                                                                         *)
(* Generations number the calls of subscribe: mResultHandler is the        *)
(* generation whose handler it holds, 0 when it is null.                   *)
(*                                                                         *)
(* An operator marked "Variant" is a wrong version of the definition that  *)
(* follows it; nothing in the specification uses it.                       *)
(***************************************************************************)
EXTENDS Naturals, Sequences, FiniteSets

CONSTANTS MayFail,        \* calls of luna may fail
          MaxGenerations, \* bound: calls of subscribe
          MaxFlips,       \* bound: times the service goes up or down
          MaxInbox        \* bound: responses of a call that are waiting

ASSUME PersistentAssumption ==
  /\ MayFail \in BOOLEAN
  /\ MaxGenerations \in Nat /\ MaxFlips \in Nat /\ MaxInbox \in Nat \ {0}

VARIABLES
  pc,                \* client code: "idle", "cancelled" and "registering" (in
                     \* subscribe), "gone" (destroyed)
  generation,        \* the last generation
  mResultHandler,
  mSubscriptionCall, \* the token, 0 for LSMESSAGE_TOKEN_INVALID
  mCookie,           \* ServerStatus::mCookie is set
  mCallback,         \* ServerStatus::mCallback, by generation; 0: null
  watch,             \* luna: the callback registered, by generation; 0: none
  notes,             \* luna: notifications that are waiting
  up, flips,         \* the service, and how often it went up or down
  madeBy,            \* madeBy[c]: the generation that made call c
  open,              \* luna: the calls not cancelled
  serving,           \* the calls the present instance of the service answers
  inbox,             \* inbox[c]: responses of c that are waiting
  frame,             \* the running handler: its generation and its call
  terminated         \* an exception left a destructor, or went through luna

client == <<pc, generation, mResultHandler>>
status == <<mCookie, mCallback, watch, notes>>
service == <<up, flips>>
calls == <<mSubscriptionCall, madeBy, open, serving, inbox>>
vars == <<client, status, service, calls, frame, terminated>>

NoFrame == [generation |-> 0, call |-> 0]
Generations == 1 .. MaxGenerations
Calls == 1 .. Len(madeBy)

(* Type invariant.                                                         *)
TypeOK ==
  /\ pc \in {"idle", "cancelled", "registering", "gone"}
  /\ generation \in 0 .. MaxGenerations
  /\ mResultHandler \in {0, generation}
  /\ mSubscriptionCall \in {0} \cup Calls
  /\ mCookie \in BOOLEAN /\ (mCookie => watch # 0)
  /\ mCallback \in 0 .. generation /\ watch \in 0 .. generation
  /\ notes \in Seq(BOOLEAN)
  /\ up \in BOOLEAN /\ flips \in 0 .. MaxFlips
  /\ madeBy \in Seq(Generations)
  /\ open \subseteq Calls /\ serving \subseteq Calls
  /\ inbox \in Seq(Seq({"data", "failed"})) /\ Len(inbox) = Len(madeBy)
  /\ frame \in [generation : 0 .. generation, call : {0} \cup Calls]
  /\ terminated \in BOOLEAN

Init ==
  /\ pc = "idle" /\ generation = 0 /\ mResultHandler = 0
  /\ mSubscriptionCall = 0
  /\ mCookie = FALSE /\ mCallback = 0
  /\ watch = 0 /\ notes = << >>
  /\ up \in BOOLEAN /\ flips = 0
  /\ madeBy = << >> /\ open = {} /\ serving = {} /\ inbox = << >>
  /\ frame = NoFrame
  /\ terminated = FALSE

-----------------------------------------------------------------------------
(* Variant: the token is forgotten, the call stays open.                   *)
CancelForgets ==
  /\ mSubscriptionCall' = 0
  /\ UNCHANGED <<madeBy, open, serving, inbox>>

(* cancelSubscription.  LSCallCancel drops the responses that wait.        *)
CancelSubscription ==
  /\ mSubscriptionCall' = 0
  /\ open' = open \ {mSubscriptionCall}
  /\ serving' = serving \ {mSubscriptionCall}
  /\ inbox' = [c \in DOMAIN inbox |-> IF c = mSubscriptionCall THEN << >> ELSE inbox[c]]
  /\ UNCHANGED madeBy

(* Variant: the callback goes, the registration stays.                     *)
CancelCallbackOnly ==
  /\ mCookie' = FALSE
  /\ mCallback' = 0
  /\ UNCHANGED <<watch, notes>>

(* Variant: the cookie is not reset.                                       *)
CancelKeepsCookie ==
  IF mCookie THEN /\ mCallback' = 0 /\ watch' = 0 /\ notes' = << >>
                  /\ UNCHANGED mCookie
             ELSE UNCHANGED status

(* ServerStatus::cancel, when LSCancelServerStatus succeeds.  Without a    *)
(* cookie nothing happens.                                                 *)
CancelStatus ==
  IF mCookie THEN /\ mCookie' = FALSE /\ mCallback' = 0
                  /\ watch' = 0 /\ notes' = << >>
             ELSE UNCHANGED status

(* Client code runs when the loop is idle and in handlers.                 *)
InClient == pc = "idle"

(* cancel.  After the last statement of ~PersistentSubscription the object *)
(* is gone.                                                                *)
Cancel(next) ==
  /\ InClient
  /\ mResultHandler' = 0
  /\ CancelStatus
  /\ CancelSubscription
  /\ pc' = next
  /\ UNCHANGED <<generation, service, frame, terminated>>

(* LSCancelServerStatus fails: cancel throws with the handler gone and the *)
(* call still open; in the destructor that terminates the program.         *)
CancelFails(inDestructor) ==
  /\ MayFail
  /\ InClient
  /\ mCookie
  /\ mResultHandler' = 0
  /\ terminated' = inDestructor
  /\ UNCHANGED <<pc, generation, status, service, calls, frame>>

(* subscribe, from cancel to the registration: without a valid handle,     *)
(* handler, params or uri it throws at this point, as after Cancel("idle").*)
Subscribe ==
  /\ generation < MaxGenerations
  /\ Cancel("cancelled")

(* ServerStatus::set.  Luna reports the state of the service, at once or   *)
(* later, and may do so twice: as the answer to the registration and as a  *)
(* signal.  One that is down need not be reported.                         *)
RegisterStatus ==
  /\ pc = "cancelled"
  /\ generation' = generation + 1
  /\ mResultHandler' = generation'
  /\ mCallback' = generation'
  /\ watch' = generation'
  /\ notes' \in {<<up>>, <<up, up>>} \cup (IF up THEN {} ELSE {<< >>})
  /\ pc' = "registering"
  /\ UNCHANGED <<mCookie, service, calls, frame, terminated>>

(* LSRegisterServerStatusEx fails and subscribe throws.                    *)
RegisterFails ==
  /\ MayFail
  /\ pc = "cancelled"
  /\ generation' = generation + 1
  /\ mResultHandler' = generation'
  /\ mCallback' = generation'
  /\ pc' = "idle"
  /\ UNCHANGED <<mCookie, watch, notes, service, calls, frame, terminated>>

(* LSRegisterServerStatusEx stores the cookie before it returns.           *)
StoreCookie ==
  /\ pc = "registering"
  /\ mCookie' = TRUE
  /\ pc' = "idle"
  /\ UNCHANGED <<generation, mResultHandler, mCallback, watch, notes, service,
                 calls, frame, terminated>>

-----------------------------------------------------------------------------
(* LSCall in onServiceStatusResponse.  A service that is down again by now *)
(* makes luna answer the call with a failure.                              *)
LSCall ==
  /\ madeBy' = Append(madeBy, watch)
  /\ mSubscriptionCall' = Len(madeBy')
  /\ open' = open \cup {Len(madeBy')}
  /\ serving' = IF up THEN serving \cup {Len(madeBy')} ELSE serving
  /\ inbox' = Append(inbox, IF up THEN << >> ELSE <<"failed">>)

(* Variant: the service came up, whatever call there was.                  *)
AlwaysCall(serviceUp) ==
  IF serviceUp THEN LSCall
  ELSE IF mSubscriptionCall # 0 THEN CancelSubscription
  ELSE UNCHANGED calls

(* Variant: the call of an instance that is gone is kept.                  *)
KeepCall(serviceUp) ==
  IF serviceUp /\ mSubscriptionCall = 0 THEN LSCall ELSE UNCHANGED calls

(* onServiceStatusResponse, with an LSCall that succeeds                   *)
OnServiceStatusResponse(serviceUp) ==
  IF serviceUp /\ mSubscriptionCall = 0 THEN LSCall
  ELSE IF ~serviceUp /\ mSubscriptionCall # 0 THEN CancelSubscription
  ELSE UNCHANGED calls

\* Luna calls back from its loop, or within the registration.
MayNotify == /\ watch # 0 /\ notes # << >>
             /\ \/ pc = "registering"
                \/ pc = "idle" /\ frame = NoFrame

(* callbackFunc: the notification that is next.                            *)
DispatchStatus ==
  /\ MayNotify
  /\ notes' = Tail(notes)
  /\ OnServiceStatusResponse(Head(notes))
  /\ UNCHANGED <<client, mCookie, mCallback, watch, service, frame, terminated>>

(* LSCall fails: the exception goes through the C code of luna.            *)
StatusThrows ==
  /\ MayFail
  /\ MayNotify
  /\ Head(notes) /\ mSubscriptionCall = 0
  /\ terminated' = TRUE
  /\ UNCHANGED <<client, status, service, calls, frame>>

(* onCallResponse and JsonResponse::handleLunaResponse: mResultHandler is  *)
(* run by reference; a null one throws an exception that is caught.        *)
DispatchResponse ==
  /\ pc = "idle" /\ frame = NoFrame
  /\ \E c \in open :
       /\ inbox[c] # << >>
       /\ inbox' = [inbox EXCEPT ![c] = Tail(@)]
       /\ frame' = IF mResultHandler = 0 THEN NoFrame
                   ELSE [generation |-> mResultHandler, call |-> c]
  /\ UNCHANGED <<client, status, service, mSubscriptionCall, madeBy, open,
                 serving, terminated>>

HandlerReturns ==
  /\ frame # NoFrame
  /\ pc \in {"idle", "gone"}
  /\ frame' = NoFrame
  /\ UNCHANGED <<client, status, service, calls, terminated>>

-----------------------------------------------------------------------------
(* The service.  One that goes down fails the calls it had.                *)
ServiceFlips ==
  /\ flips < MaxFlips
  /\ flips' = flips + 1
  /\ up' = ~up
  /\ notes' = IF watch # 0 THEN Append(notes, up') ELSE notes
  /\ serving' = {}
  /\ inbox' = [c \in DOMAIN inbox |->
                 IF c \in serving THEN Append(inbox[c], "failed") ELSE inbox[c]]
  /\ UNCHANGED <<client, mCookie, mCallback, watch, mSubscriptionCall, madeBy,
                 open, frame, terminated>>

ServiceReplies ==
  /\ \E c \in serving : /\ Len(inbox[c]) < MaxInbox
                        /\ inbox' = [inbox EXCEPT ![c] = Append(@, "data")]
  /\ UNCHANGED <<client, status, service, mSubscriptionCall, madeBy, open,
                 serving, frame, terminated>>

-----------------------------------------------------------------------------
ClientStep == \/ \E next \in {"idle", "gone"} : Cancel(next)
              \/ \E inDestructor \in BOOLEAN : CancelFails(inDestructor)
              \/ Subscribe
SubscribeStep == RegisterStatus \/ RegisterFails \/ StoreCookie
LoopStep == DispatchStatus \/ StatusThrows \/ DispatchResponse \/ HandlerReturns
ServiceStep == ServiceFlips \/ ServiceReplies

Next == ~terminated /\ (ClientStep \/ SubscribeStep \/ LoopStep \/ ServiceStep)

Spec == Init /\ [][Next]_vars

(* subscribe goes on; handlers return, whatever they do before; the loop   *)
(* serves notifications however many responses arrive.                     *)
FairSpec ==
  /\ Spec
  /\ WF_vars(~terminated /\ SubscribeStep)
  /\ SF_vars(~terminated /\ HandlerReturns)
  /\ SF_vars(~terminated /\ DispatchStatus)

-----------------------------------------------------------------------------
(* Properties *)

(* Of all the calls ever made, the one in mSubscriptionCall is the only    *)
(* one open at luna: none leaks when the service restarts, when            *)
(* notifications repeat themselves or when client code subscribes again.   *)
OneCallOpen == open = {mSubscriptionCall} \ {0}

(* A response goes to the handler that was given with the call it answers, *)
(* never to the handler of a later subscribe, although onCallResponse      *)
(* takes whatever handler there is.                                        *)
HandlerMatchesCall ==
  frame # NoFrame => frame.generation = madeBy[frame.call]

(* Luna's status registration has a callback object behind it, and once    *)
(* subscribe has returned the cookie to cancel it; after destruction there *)
(* is none.                                                                *)
StatusContextLive ==
  watch # 0 => /\ watch = mCallback
               /\ mCookie \/ pc = "registering"
               /\ pc # "gone"

(* "The handler method receives all responses, including a failed response *)
(* if the service is terminated": only client code closes a call that has  *)
(* responses waiting.                                                      *)
ResponsesReceived ==
  [][\A c \in open \ open' : inbox[c] # << >> => mResultHandler' = 0]_vars

(* "performs the call every time the service goes online": when in the end *)
(* the service stays up and the subscription stays, there is a call that   *)
(* the present instance of the service answers.                            *)
EventuallyResubscribed ==
  <>[](up /\ mCookie /\ ~terminated) => <>[](mSubscriptionCall \in serving)
=============================================================================
