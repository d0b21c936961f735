-------------------- MODULE PersistentSubscriptionProofs --------------------
(***************************************************************************)
(* Theorems about PersistentSubscription for every bound on the number of  *)
(* calls of subscribe, restarts of the service and waiting responses.      *)
(***************************************************************************)
EXTENDS PersistentSubscription, SequenceTheorems, TLAPS

-----------------------------------------------------------------------------
(* The invariant.  Registration says when there is a cookie and a callback *)
(* behind luna's registration.  Routing says that the registration, the    *)
(* handler and the call belong to the same subscribe, whatever of them is  *)
(* left after a failed cancel or a failed registration.                    *)

Registration ==
  /\ pc = "idle" => (mCookie <=> watch # 0)
  /\ pc # "idle" => ~mCookie
  /\ pc \in {"cancelled", "gone"} =>
       watch = 0 /\ mResultHandler = 0 /\ mSubscriptionCall = 0
  /\ pc = "registering" => watch # 0
  /\ pc = "cancelled" => generation < MaxGenerations
  /\ watch # 0 => watch = mCallback

Routing ==
  /\ watch # 0 /\ mResultHandler # 0 => watch = mResultHandler
  /\ mSubscriptionCall # 0 /\ mResultHandler # 0 =>
       madeBy[mSubscriptionCall] = mResultHandler
  /\ frame # NoFrame => /\ frame.call # 0
                        /\ frame.generation = madeBy[frame.call]

SubscriptionInv == TypeOK /\ Registration /\ OneCallOpen /\ Routing

-----------------------------------------------------------------------------
(* The calls of luna: what opening and closing one leaves.                 *)

Responses == {"data", "failed"}

CallsOK ==
  /\ mSubscriptionCall \in {0} \cup Calls
  /\ madeBy \in Seq(Generations)
  /\ open \subseteq Calls /\ serving \subseteq Calls
  /\ inbox \in Seq(Seq(Responses)) /\ Len(inbox) = Len(madeBy)

\* The calls there were keep their number and the subscribe that made them.
CallsKept == /\ Calls \subseteq Calls'
             /\ \A c \in Calls : madeBy'[c] = madeBy[c]

(* A function on 1 .. n is a sequence.                                     *)
LEMMA FunctionIsSeq ==
  ASSUME NEW S, NEW n \in Nat, NEW f \in [1 .. n -> S]
  PROVE  f \in Seq(S) /\ Len(f) = n
OBVIOUS

LEMMA CancelSubscriptionCalls ==
  CallsOK /\ CancelSubscription => CallsOK' /\ CallsKept
<1> SUFFICES ASSUME CallsOK, CancelSubscription PROVE CallsOK' /\ CallsKept
  OBVIOUS
<1> USE DEF CallsOK, CallsKept, CancelSubscription
<1>1. /\ Len(inbox) \in Nat /\ DOMAIN inbox = 1 .. Len(inbox)
      /\ \A c \in 1 .. Len(inbox) : inbox[c] \in Seq(Responses)
  BY ElementOfSeq, LenProperties
<1>2. << >> \in Seq(Responses)
  BY EmptySeq
<1>3. inbox' \in [1 .. Len(inbox) -> Seq(Responses)]
  BY <1>1, <1>2
<1>4. inbox' \in Seq(Seq(Responses)) /\ Len(inbox') = Len(inbox)
  BY <1>1, <1>3, FunctionIsSeq
<1> QED
  BY <1>4 DEF Calls

LEMMA LSCallCalls ==
  CallsOK /\ watch \in Generations /\ LSCall =>
    /\ CallsOK' /\ CallsKept
    /\ mSubscriptionCall' # 0 /\ open' = open \cup {mSubscriptionCall'}
    /\ madeBy'[mSubscriptionCall'] = watch
<1> SUFFICES ASSUME CallsOK, watch \in Generations, LSCall
             PROVE  /\ CallsOK' /\ CallsKept
                    /\ mSubscriptionCall' # 0
                    /\ open' = open \cup {mSubscriptionCall'}
                    /\ madeBy'[mSubscriptionCall'] = watch
  OBVIOUS
<1> USE DEF CallsOK, CallsKept, LSCall
<1>1. /\ madeBy' \in Seq(Generations) /\ Len(madeBy') = Len(madeBy) + 1
      /\ \A c \in Calls : madeBy'[c] = madeBy[c]
      /\ madeBy'[Len(madeBy')] = watch
  BY AppendProperties DEF Calls
<1>2. << >> \in Seq(Responses) /\ <<"failed">> \in Seq(Responses)
  BY EmptySeq DEF Responses
<1>3. inbox' \in Seq(Seq(Responses)) /\ Len(inbox') = Len(inbox) + 1
  BY <1>2, AppendProperties
<1>4. Calls \subseteq Calls' /\ Len(madeBy') \in Calls'
  BY <1>1, LenProperties DEF Calls
<1>5. CallsKept /\ mSubscriptionCall' = Len(madeBy')
  BY <1>1, <1>4
<1>6. CallsOK'
  BY <1>1, <1>3, <1>4
<1>7. open' = open \cup {mSubscriptionCall'}
  BY <1>5
<1>8. mSubscriptionCall' # 0
  BY <1>1, <1>5, LenProperties
<1>9. madeBy'[mSubscriptionCall'] = watch
  BY <1>1, <1>5
<1> HIDE DEF CallsOK, CallsKept, LSCall
<1> QED
  BY <1>5, <1>6, <1>7, <1>8, <1>9

LEMMA InitSubscription == Init => SubscriptionInv
<1> SUFFICES ASSUME Init PROVE SubscriptionInv
  OBVIOUS
<1>1. TypeOK
  <2>1. /\ notes \in Seq(BOOLEAN) /\ madeBy \in Seq(Generations)
        /\ inbox \in Seq(Seq({"data", "failed"})) /\ Len(inbox) = Len(madeBy)
    BY EmptySeq DEF Init
  <2>2. frame \in [generation : 0 .. generation, call : {0} \cup Calls]
    BY DEF Init, NoFrame
  <2>3. /\ generation \in 0 .. MaxGenerations /\ flips \in 0 .. MaxFlips
        /\ mCallback \in 0 .. generation /\ watch \in 0 .. generation
        /\ mResultHandler \in {0, generation}
    BY PersistentAssumption DEF Init
  <2>4. /\ pc = "idle" /\ ~mCookie /\ terminated \in BOOLEAN /\ up \in BOOLEAN
        /\ mCookie \in BOOLEAN
    BY DEF Init
  <2>5. mSubscriptionCall \in {0} \cup Calls /\ open \subseteq Calls /\ serving \subseteq Calls
    BY DEF Init
  <2> QED
    BY <2>1, <2>2, <2>3, <2>4, <2>5 DEF TypeOK
<1>2. Registration /\ OneCallOpen /\ Routing
  BY DEF Init, Registration, OneCallOpen, Routing, NoFrame
<1> QED
  BY <1>1, <1>2 DEF SubscriptionInv

-----------------------------------------------------------------------------
LEMMA TypeHasCalls == TypeOK => CallsOK
BY DEF TypeOK, CallsOK, Responses

LEMMA ClientInv == SubscriptionInv /\ ClientStep => SubscriptionInv'
<1> SUFFICES ASSUME SubscriptionInv, ClientStep PROVE SubscriptionInv'
  OBVIOUS
<1> USE DEF SubscriptionInv, Registration, OneCallOpen, Routing
<1>1. ASSUME NEW next \in {"idle", "gone", "cancelled"}, Cancel(next),
             next = "cancelled" => generation < MaxGenerations
      PROVE  SubscriptionInv'
  <2>1. CallsOK' /\ CallsKept
    BY <1>1, TypeHasCalls, CancelSubscriptionCalls DEF Cancel
  <2>2. TypeOK'
    <3>1. notes' \in Seq(BOOLEAN) /\ watch' \in 0 .. generation
          /\ mCallback' \in 0 .. generation /\ mCookie' \in BOOLEAN
          /\ (mCookie' => watch' # 0)
      <4>1. CASE mCookie
        <5>1. notes' = << >> /\ watch' = 0 /\ mCallback' = 0 /\ mCookie' = FALSE
          BY <1>1, <4>1 DEF Cancel, CancelStatus
        <5>2. 0 \in 0 .. generation
          BY PersistentAssumption DEF TypeOK
        <5> QED
          BY <5>1, <5>2, EmptySeq
      <4>2. CASE ~mCookie
        BY <1>1, <4>2 DEF Cancel, CancelStatus, status, TypeOK
      <4> QED
        BY <4>1, <4>2
    <3>2. frame \in [generation : 0 .. generation, call : {0} \cup Calls']
      BY <2>1 DEF TypeOK, CallsKept
    <3> QED
      BY <1>1, <2>1, <3>1, <3>2 DEF Cancel, service, TypeOK, CallsOK, Responses
  <2>3. Registration'
    BY <1>1 DEF Cancel, InClient, CancelStatus, status, CancelSubscription
  <2>4. OneCallOpen'
    BY <1>1 DEF Cancel, CancelSubscription
  <2>5. Routing'
    BY <1>1 DEF Cancel, CancelSubscription
  <2> QED
    BY <2>2, <2>3, <2>4, <2>5
<1>2. ASSUME NEW inDestructor \in BOOLEAN, CancelFails(inDestructor)
      PROVE  SubscriptionInv'
  <2>1. TypeOK'
    BY <1>2 DEF CancelFails, TypeOK, status, service, calls, Calls
  <2> QED
    BY <1>2, <2>1 DEF CancelFails, InClient, status, calls
<1> QED
  BY <1>1, <1>2 DEF ClientStep, Subscribe

LEMMA SubscribeInv == SubscriptionInv /\ SubscribeStep => SubscriptionInv'
<1> SUFFICES ASSUME SubscriptionInv, SubscribeStep PROVE SubscriptionInv'
  OBVIOUS
<1> USE PersistentAssumption
    DEF SubscriptionInv, Registration, OneCallOpen, Routing, service, calls
<1>1. CASE RegisterStatus
  <2>1. \A b \in BOOLEAN : <<b>> \in Seq(BOOLEAN) /\ <<b, b>> \in Seq(BOOLEAN)
    OBVIOUS
  <2>2. notes' \in Seq(BOOLEAN)
    BY <1>1, <2>1, EmptySeq DEF RegisterStatus, TypeOK
  <2>3. TypeOK'
    BY <1>1, <2>2 DEF RegisterStatus, TypeOK, Calls
  <2> QED
    BY <1>1, <2>3 DEF RegisterStatus, TypeOK
<1>2. CASE RegisterFails
  <2>1. TypeOK'
    BY <1>2 DEF RegisterFails, TypeOK, Calls
  <2> QED
    BY <1>2, <2>1 DEF RegisterFails
<1>3. CASE StoreCookie
  <2>1. TypeOK'
    BY <1>3 DEF StoreCookie, TypeOK, Calls
  <2> QED
    BY <1>3, <2>1 DEF StoreCookie
<1> QED
  BY <1>1, <1>2, <1>3 DEF SubscribeStep

(* onServiceStatusResponse opens a call only when none is open, for the    *)
(* subscribe that registered the status callback.                          *)
LEMMA StatusResponseCalls ==
  ASSUME SubscriptionInv, watch # 0, NEW up1 \in BOOLEAN,
         OnServiceStatusResponse(up1)
  PROVE  /\ CallsOK' /\ CallsKept /\ OneCallOpen'
         /\ mSubscriptionCall' \in {0, mSubscriptionCall}
              \/ madeBy'[mSubscriptionCall'] = watch
<1> USE DEF SubscriptionInv, OnServiceStatusResponse, OneCallOpen
<1>1. CASE up1 /\ mSubscriptionCall = 0
  <2>1. LSCall
    BY <1>1
  <2>2. watch \in Generations
    BY PersistentAssumption DEF TypeOK, Generations
  <2> QED
    BY <1>1, <2>1, <2>2, TypeHasCalls, LSCallCalls
<1>2. CASE ~up1 /\ mSubscriptionCall # 0
  <2>1. CancelSubscription
    BY <1>2
  <2>2. CallsOK' /\ CallsKept
    BY <2>1, TypeHasCalls, CancelSubscriptionCalls
  <2> QED
    BY <2>1, <2>2 DEF CancelSubscription
<1>3. CASE (up1 /\ mSubscriptionCall # 0) \/ (~up1 /\ mSubscriptionCall = 0)
  BY <1>3, TypeHasCalls DEF calls, CallsOK, CallsKept, Calls
<1> QED
  BY <1>1, <1>2, <1>3

LEMMA LoopInv == SubscriptionInv /\ LoopStep => SubscriptionInv'
<1> SUFFICES ASSUME SubscriptionInv, LoopStep PROVE SubscriptionInv'
  OBVIOUS
<1> USE DEF SubscriptionInv, Registration, OneCallOpen, Routing, client, status, service
<1>1. CASE DispatchStatus
  <2>1. /\ CallsOK' /\ CallsKept /\ OneCallOpen'
        /\ mSubscriptionCall' \in {0, mSubscriptionCall}
             \/ madeBy'[mSubscriptionCall'] = watch
        /\ notes' \in Seq(BOOLEAN)
    <3>1. notes \in Seq(BOOLEAN) /\ notes # << >> /\ watch # 0
      BY <1>1 DEF DispatchStatus, MayNotify, TypeOK
    <3>2. Head(notes) \in BOOLEAN /\ Tail(notes) \in Seq(BOOLEAN)
      BY <3>1, HeadTailProperties
    <3> QED
      BY <1>1, <3>1, <3>2, StatusResponseCalls DEF DispatchStatus
  <2>2. frame \in [generation : 0 .. generation, call : {0} \cup Calls']
    BY <2>1 DEF TypeOK, CallsKept
  <2>3. TypeOK'
    BY <1>1, <2>1, <2>2 DEF DispatchStatus, TypeOK, CallsOK, Responses
  <2>4. Registration'
    BY <1>1 DEF DispatchStatus, MayNotify
  <2>5. Routing'
    BY <1>1, <2>1 DEF DispatchStatus, MayNotify, TypeOK, CallsKept
  <2> QED
    BY <2>1, <2>3, <2>4, <2>5
<1>2. CASE StatusThrows
  <2>1. TypeOK'
    BY <1>2 DEF StatusThrows, TypeOK, calls, Calls
  <2> QED
    BY <1>2, <2>1 DEF StatusThrows, calls
<1>3. CASE DispatchResponse
  <2> PICK c \in open : /\ inbox[c] # << >>
                        /\ inbox' = [inbox EXCEPT ![c] = Tail(@)]
                        /\ frame' = IF mResultHandler = 0 THEN NoFrame
                                    ELSE [generation |-> mResultHandler, call |-> c]
    BY <1>3 DEF DispatchResponse
  <2>1. /\ inbox \in Seq(Seq(Responses)) /\ c \in 1 .. Len(inbox)
        /\ c \in Calls /\ c # 0 /\ c = mSubscriptionCall
    BY DEF TypeOK, Calls, Responses
  <2>2. inbox[c] \in Seq(Responses)
    BY <2>1, ElementOfSeq
  <2>3. Tail(inbox[c]) \in Seq(Responses)
    BY <2>2, HeadTailProperties
  <2>4. inbox' \in Seq(Seq(Responses)) /\ Len(inbox') = Len(inbox)
    BY <2>1, <2>3, ExceptSeq
  <2>5. frame' \in [generation : 0 .. generation, call : {0} \cup Calls]
    BY <2>1, PersistentAssumption DEF TypeOK, NoFrame
  <2>6. TypeOK'
    BY <1>3, <2>4, <2>5 DEF DispatchResponse, TypeOK, Calls, Responses
  <2> QED
    BY <1>3, <2>1, <2>6 DEF DispatchResponse
<1>4. CASE HandlerReturns
  <2>1. TypeOK'
    BY <1>4, PersistentAssumption DEF HandlerReturns, TypeOK, calls, Calls, NoFrame
  <2> QED
    BY <1>4, <2>1 DEF HandlerReturns, calls
<1> QED
  BY <1>1, <1>2, <1>3, <1>4 DEF LoopStep

LEMMA ServiceInv == SubscriptionInv /\ ServiceStep => SubscriptionInv'
<1> SUFFICES ASSUME SubscriptionInv, ServiceStep PROVE SubscriptionInv'
  OBVIOUS
<1> USE DEF SubscriptionInv, Registration, OneCallOpen, Routing, client, status, service
<1>1. /\ inbox \in Seq(Seq(Responses)) /\ Len(inbox) \in Nat
      /\ DOMAIN inbox = 1 .. Len(inbox)
      /\ \A c \in 1 .. Len(inbox) : inbox[c] \in Seq(Responses)
  BY ElementOfSeq, LenProperties DEF TypeOK, Responses
<1>2. \A c \in 1 .. Len(inbox), r \in Responses : Append(inbox[c], r) \in Seq(Responses)
  BY <1>1, AppendProperties
<1>3. CASE ServiceFlips
  <2>1. inbox' \in [1 .. Len(inbox) -> Seq(Responses)]
    BY <1>1, <1>2, <1>3 DEF ServiceFlips, Responses
  <2>2. inbox' \in Seq(Seq(Responses)) /\ Len(inbox') = Len(inbox)
    BY <1>1, <2>1, FunctionIsSeq
  <2>3. up' \in BOOLEAN /\ notes' \in Seq(BOOLEAN)
    BY <1>3, AppendProperties DEF ServiceFlips, TypeOK
  <2>4. flips' \in 0 .. MaxFlips
    BY <1>3, PersistentAssumption DEF ServiceFlips, TypeOK
  <2>5. TypeOK'
    BY <1>3, <2>2, <2>3, <2>4 DEF ServiceFlips, TypeOK, Calls, Responses
  <2> QED
    BY <1>3, <2>5 DEF ServiceFlips
<1>4. CASE ServiceReplies
  <2> PICK c \in serving : inbox' = [inbox EXCEPT ![c] = Append(@, "data")]
    BY <1>4 DEF ServiceReplies
  <2>1. c \in 1 .. Len(inbox)
    BY DEF TypeOK, Calls
  <2>2. inbox' \in Seq(Seq(Responses)) /\ Len(inbox') = Len(inbox)
    BY <1>1, <1>2, <2>1, ExceptSeq DEF Responses
  <2>3. TypeOK'
    BY <1>4, <2>2 DEF ServiceReplies, TypeOK, Calls, Responses
  <2> QED
    BY <1>4, <2>3 DEF ServiceReplies
<1> QED
  BY <1>3, <1>4 DEF ServiceStep

-----------------------------------------------------------------------------
LEMMA SubscriptionInvariant == Spec => []SubscriptionInv
<1>1. SubscriptionInv /\ UNCHANGED vars => SubscriptionInv'
  BY DEF SubscriptionInv, TypeOK, Registration, OneCallOpen, Routing, vars,
         client, status, service, calls, Calls
<1>2. SubscriptionInv /\ [Next]_vars => SubscriptionInv'
  BY <1>1, ClientInv, SubscribeInv, LoopInv, ServiceInv DEF Next
<1> QED
  BY InitSubscription, <1>2, PTL DEF Spec

(* Every state of the model has the types of PersistentSubscription, its   *)
(* ServerStatus and luna.                                                  *)
THEOREM TypeCorrect == Spec => []TypeOK
<1>1. SubscriptionInv => TypeOK
  BY DEF SubscriptionInv
<1> QED
  BY SubscriptionInvariant, <1>1, PTL

(* No call to the service is left open but the one in mSubscriptionCall,   *)
(* however often the service restarts and client code subscribes.          *)
THEOREM OneCallOpenHolds == Spec => []OneCallOpen
<1>1. SubscriptionInv => OneCallOpen
  BY DEF SubscriptionInv
<1> QED
  BY SubscriptionInvariant, <1>1, PTL

(* onCallResponse, which takes the handler that is in mResultHandler now,  *)
(* never gives it the response of a call of an earlier subscribe.          *)
THEOREM HandlerMatchesCallHolds == Spec => []HandlerMatchesCall
<1>1. SubscriptionInv => HandlerMatchesCall
  BY DEF SubscriptionInv, Routing, HandlerMatchesCall
<1> QED
  BY SubscriptionInvariant, <1>1, PTL

(* Luna's status registration has the callback object it points to, and    *)
(* can be cancelled, also after a failed cancel or a failed registration.  *)
THEOREM StatusContextLiveHolds == Spec => []StatusContextLive
<1>1. SubscriptionInv => StatusContextLive
  BY DEF SubscriptionInv, TypeOK, Registration, StatusContextLive
<1> QED
  BY SubscriptionInvariant, <1>1, PTL
=============================================================================
