------------------------- MODULE ServiceCallsProofs -------------------------
(***************************************************************************)
(* Theorems about ServiceCalls for every set of calls and threads.  The    *)
(* sets Callers, Cancellers and Destroyers say which threads use the       *)
(* ServicePoint; a theorem names the confinement it needs, if any.         *)
(***************************************************************************)
EXTENDS ServiceCalls, TLAPS

-----------------------------------------------------------------------------
(* Every state of the model has the types of ServicePoint and luna.        *)

LEMMA InitType == Init => TypeOK
BY CallsAssumption DEF Init, TypeOK, Idle

LEMMA ClientType == TypeOK /\ ClientStep => TypeOK'
<1> SUFFICES ASSUME TypeOK, ClientStep PROVE TypeOK'
  OBVIOUS
<1> USE DEF TypeOK, pointVars, busVars
<1>1. ASSUME NEW t \in Callers, NEW c \in Calls, NEW k \in {"one", "multi"},
             LSCall(t, c, k) \/ LSCallFails(t, c, k)
      PROVE TypeOK'
  <2>1. t \in Threads
    BY DEF Threads
  <2>2. CASE LSCall(t, c, k)
    BY <2>1, <2>2 DEF LSCall
  <2>3. CASE LSCallFails(t, c, k)
    BY <2>3 DEF LSCallFails
  <2> QED
    BY <1>1, <2>2, <2>3
<1>2. ASSUME NEW t \in Callers, NEW c \in Calls, FireAndForget(t, c)
      PROVE TypeOK'
  BY <1>2 DEF FireAndForget
<1>3. ASSUME NEW t \in Callers, AssignToken(t) \/ TrackCall(t) PROVE TypeOK'
  <2>1. t \in Threads
    BY DEF Threads
  <2>2. CASE AssignToken(t)
    BY <2>2 DEF AssignToken
  <2>3. CASE TrackCall(t)
    BY <2>1, <2>3 DEF TrackCall
  <2> QED
    BY <1>3, <2>2, <2>3
<1>4. ASSUME NEW t \in Cancellers, NEW c \in Calls, CancelCall(t, c)
      PROVE TypeOK'
  BY <1>4 DEF CancelCall, LSCallCancel, Erase
<1>5. ASSUME NEW t \in Destroyers, Destroy(t) PROVE TypeOK'
  BY <1>5 DEF Destroy, LSCallCancel, Erase
<1> QED
  BY <1>1, <1>2, <1>3, <1>4, <1>5 DEF ClientStep, MakeCall

LEMMA BusType == TypeOK /\ BusStep => TypeOK'
<1> SUFFICES ASSUME TypeOK, NEW c \in Calls,
                    Reply(c) \/ DiscardReply(c) \/ Dispatch(c)
             PROVE TypeOK'
  BY DEF BusStep
<1> USE CallsAssumption DEF TypeOK, pointVars, busVars
<1>1. CASE Reply(c)
  BY <1>1 DEF Reply
<1>2. CASE DiscardReply(c)
  BY <1>2 DEF DiscardReply
<1>3. CASE Dispatch(c)
  BY <1>3 DEF Dispatch, Stages
<1> QED
  BY <1>1, <1>2, <1>3

LEMMA HandlerType == TypeOK /\ (HandlerStep \/ Crash) => TypeOK'
<1> SUFFICES ASSUME TypeOK, HandlerStep \/ Crash PROVE TypeOK'
  OBVIOUS
<1> USE DEF TypeOK, pointVars, busVars, Goto, Stages, Idle
<1>1. CASE CopyHandler
  BY <1>1 DEF CopyHandler
<1>2. CASE CancelAnswered
  BY <1>2 DEF CancelAnswered, LSCallCancel, TokenOf
<1>3. CASE EraseAnswered
  BY <1>3 DEF EraseAnswered, Erase, TokenOf
<1>4. CASE InvokeHandler
  BY <1>4 DEF InvokeHandler
<1>5. CASE HandlerReturns
  BY <1>5 DEF HandlerReturns
<1>6. CASE Crash
  BY <1>6 DEF Crash
<1> QED
  BY <1>1, <1>2, <1>3, <1>4, <1>5, <1>6 DEF HandlerStep

LEMMA NextType == TypeOK /\ [Next]_vars => TypeOK'
<1>1. TypeOK /\ UNCHANGED vars => TypeOK'
  BY DEF TypeOK, vars, pointVars, busVars
<1> QED
  BY <1>1, ClientType, BusType, HandlerType DEF Next

THEOREM TypeCorrect == Spec => []TypeOK
BY InitType, NextType, PTL DEF Spec

-----------------------------------------------------------------------------
(* Ownership needs one more fact: a name that makeCall has not used yet    *)
(* has no object.                                                          *)
Fresh == \A c \in Calls : kind[c] = "unused" => heap[c] = "none"

LEMMA InitOwnership == Init => Ownership /\ Fresh
BY CallsAssumption DEF Init, Ownership, Fresh, Makers

LEMMA ClientOwnership ==
  TypeOK /\ Ownership /\ Fresh /\ ClientStep => (Ownership /\ Fresh)'
<1> SUFFICES ASSUME TypeOK, Ownership, Fresh, ClientStep
             PROVE  (Ownership /\ Fresh)'
  OBVIOUS
<1> USE CallsAssumption DEF TypeOK, Ownership, Fresh, Makers, pointVars, busVars
<1>1. ASSUME NEW t \in Callers, NEW c \in Calls, NEW k \in {"one", "multi"},
             LSCall(t, c, k)
      PROVE (Ownership /\ Fresh)'
  BY <1>1 DEF LSCall, InClient, Threads
<1>2. ASSUME NEW t \in Callers, NEW c \in Calls, NEW k \in {"one", "multi"},
             LSCallFails(t, c, k)
      PROVE (Ownership /\ Fresh)'
  BY <1>2 DEF LSCallFails, InClient, Threads
<1>3. ASSUME NEW t \in Callers, NEW c \in Calls, FireAndForget(t, c)
      PROVE (Ownership /\ Fresh)'
  BY <1>3 DEF FireAndForget
<1>4. ASSUME NEW t \in Callers, AssignToken(t) PROVE (Ownership /\ Fresh)'
  BY <1>4 DEF AssignToken
<1>5. ASSUME NEW t \in Callers, TrackCall(t) PROVE (Ownership /\ Fresh)'
  BY <1>5 DEF TrackCall, Threads
<1>6. ASSUME NEW t \in Cancellers, NEW c \in Calls, CancelCall(t, c)
      PROVE (Ownership /\ Fresh)'
  BY <1>6 DEF CancelCall, Erase
<1>7. ASSUME NEW t \in Destroyers, Destroy(t) PROVE (Ownership /\ Fresh)'
  BY <1>7 DEF Destroy, Erase
<1> QED
  BY <1>1, <1>2, <1>3, <1>4, <1>5, <1>6, <1>7 DEF ClientStep, MakeCall

LEMMA NextOwnership ==
  TypeOK /\ Ownership /\ Fresh /\ [Next]_vars => (Ownership /\ Fresh)'
<1> SUFFICES ASSUME TypeOK, Ownership, Fresh, [Next]_vars
             PROVE  (Ownership /\ Fresh)'
  OBVIOUS
<1> USE DEF Ownership, Fresh, Makers, pointVars, busVars
<1>1. CASE ClientStep
  BY <1>1, ClientOwnership
<1>2. CASE BusStep
  BY <1>2 DEF BusStep, Reply, DiscardReply, Dispatch
<1>3. CASE EraseAnswered
  BY <1>3, CallsAssumption DEF EraseAnswered, Erase, TokenOf, TypeOK
<1>4. CASE CopyHandler \/ CancelAnswered \/ InvokeHandler \/ HandlerReturns \/ Crash
  BY <1>4 DEF CopyHandler, CancelAnswered, InvokeHandler, HandlerReturns, Crash
<1>5. CASE UNCHANGED vars
  BY <1>5 DEF vars
<1> QED
  BY <1>1, <1>2, <1>3, <1>4, <1>5 DEF Next, HandlerStep

(* Whatever threads make, cancel and destroy, and in whatever order        *)
(* replies arrive, every Call object has one owner until it is freed.      *)
THEOREM OwnershipHolds == Spec => []Ownership
<1>1. Spec => [](TypeOK /\ Ownership /\ Fresh)
  BY InitType, InitOwnership, NextType, NextOwnership, PTL DEF Spec
<1> QED
  BY <1>1, PTL
-----------------------------------------------------------------------------
(* cancelCall on the loop thread only.  A cancelled call is closed at luna *)
(* and is not the one being dispatched; it stays so because its name is    *)
(* used and only a fresh call is opened.                                   *)
Dispatching(c) == frame.call = c /\ frame.at \in {"enter", "drop", "erase", "copied"}

CancelledOver ==
  \A c \in Calls :
    /\ c \in cancelled => bus[c] # "open" /\ kind[c] # "unused" /\ ~Dispatching(c)
    /\ bus[c] = "open" \/ runs[c] > 0 \/ frame.call = c => kind[c] # "unused"

LEMMA InitCancelled == Init => CancelledOver
BY CallsAssumption DEF Init, CancelledOver, Dispatching, Idle

LEMMA ClientCancelled ==
  ASSUME Cancellers = {Loop}
  PROVE  TypeOK /\ CancelledOver /\ ClientStep => CancelledOver'
<1> SUFFICES ASSUME TypeOK, CancelledOver, ClientStep PROVE CancelledOver'
  OBVIOUS
<1> USE DEF TypeOK, CancelledOver, Dispatching, pointVars, busVars
<1>1. ASSUME NEW t \in Callers, NEW c \in Calls, NEW k \in {"one", "multi"},
             LSCall(t, c, k) \/ LSCallFails(t, c, k)
      PROVE CancelledOver'
  BY <1>1 DEF LSCall, LSCallFails
<1>2. ASSUME NEW t \in Callers, NEW c \in Calls, FireAndForget(t, c)
      PROVE CancelledOver'
  BY <1>2 DEF FireAndForget
<1>3. ASSUME NEW t \in Callers, AssignToken(t) \/ TrackCall(t) PROVE CancelledOver'
  BY <1>3 DEF AssignToken, TrackCall
<1>4. ASSUME NEW c \in Calls, CancelCall(Loop, c) PROVE CancelledOver'
  BY <1>4 DEF CancelCall, LSCallCancel, InClient, Known
<1>5. ASSUME NEW t \in Destroyers, Destroy(t) PROVE CancelledOver'
  BY <1>5 DEF Destroy, LSCallCancel
<1> QED
  BY <1>1, <1>2, <1>3, <1>4, <1>5 DEF ClientStep, MakeCall

LEMMA NextCancelled ==
  ASSUME Cancellers = {Loop}
  PROVE  TypeOK /\ CancelledOver /\ [Next]_vars => CancelledOver'
<1> SUFFICES ASSUME TypeOK, CancelledOver, [Next]_vars PROVE CancelledOver'
  OBVIOUS
<1> USE DEF TypeOK, CancelledOver, Dispatching, pointVars, busVars, Goto, Idle
<1>1. CASE ClientStep
  BY <1>1, ClientCancelled
<1>2. CASE BusStep
  <2> SUFFICES ASSUME NEW c \in Calls, Reply(c) \/ DiscardReply(c) \/ Dispatch(c)
               PROVE  CancelledOver'
    BY <1>2 DEF BusStep
  <2>1. CASE Reply(c) \/ DiscardReply(c)
    BY <2>1 DEF Reply, DiscardReply
  <2>2. CASE Dispatch(c)
    BY <2>2 DEF Dispatch
  <2> QED
    BY <2>1, <2>2
<1>3. CASE CancelAnswered
  BY <1>3 DEF CancelAnswered, LSCallCancel
<1>4. CASE CopyHandler \/ EraseAnswered
  BY <1>4 DEF CopyHandler, EraseAnswered
<1>5. CASE InvokeHandler
  BY <1>5 DEF InvokeHandler
<1>6. CASE HandlerReturns \/ Crash
  BY <1>6, CallsAssumption DEF HandlerReturns, Crash
<1>7. CASE UNCHANGED vars
  BY <1>7 DEF vars
<1> QED
  BY <1>1, <1>2, <1>3, <1>4, <1>5, <1>6, <1>7 DEF Next, HandlerStep

(* Only InvokeHandler starts a handler.                                    *)
LEMMA OnlyInvokeRuns ==
  ASSUME TypeOK, [Next]_vars
  PROVE  runs' = runs \/ InvokeHandler
BY DEF Next, ClientStep, MakeCall, LSCall, LSCallFails, FireAndForget,
       AssignToken, TrackCall, CancelCall, Destroy, BusStep, Reply,
       DiscardReply, Dispatch, HandlerStep, CopyHandler, CancelAnswered,
       EraseAnswered, HandlerReturns, Crash, vars

LEMMA CancelledNeverRuns ==
  ASSUME TypeOK, CancelledOver, [Next]_vars
  PROVE  \A c \in cancelled : runs'[c] = runs[c]
<1>1. CASE runs' = runs
  BY <1>1
<1>2. CASE InvokeHandler
  BY <1>2 DEF InvokeHandler, TypeOK, CancelledOver, Dispatching, Idle
<1> QED
  BY <1>1, <1>2, OnlyInvokeRuns

(* cancelCall keeps its promise ("the handler method will not be called    *)
(* after this") in every program that cancels on the loop thread, wherever *)
(* it makes its calls and deletes the ServicePoint.                        *)
THEOREM CancelIsFinal ==
  ASSUME Cancellers = {Loop}
  PROVE  Spec => NoHandlerAfterCancel
<1>1. Spec => [](TypeOK /\ CancelledOver)
  BY InitType, InitCancelled, NextType, NextCancelled, PTL DEF Spec
<1>2. TypeOK /\ CancelledOver /\ [Next]_vars
        => [\A c \in cancelled : runs'[c] = runs[c]]_vars
  BY CancelledNeverRuns
<1> QED
  BY <1>1, <1>2, PTL DEF Spec, NoHandlerAfterCancel

-----------------------------------------------------------------------------
(* makeCall on the loop thread only.  No reply is dispatched before        *)
(* makeCall has returned, so a call that luna may answer is tracked or is  *)
(* being made, and an answered one-reply call is closed before it is run.  *)
OneReplyOver ==
  \A c \in Calls :
    /\ \A t \in Threads : making[t] = c => t = Loop
    /\ making[Loop] = c =>
         runs[c] = 0 /\ kind[c] \in {"one", "multi"} /\ frame.call # c
    /\ kind[c] = "unused" =>
         bus[c] = "idle" /\ runs[c] = 0 /\ frame.call # c /\ c \notin mCalls
    /\ c \in mCalls => token[c] /\ kind[c] \in {"one", "multi"}
    /\ bus[c] = "open" /\ Handled(c) => c \in mCalls \/ making[Loop] = c
    /\ frame.call = c => Handled(c) /\ token[c]
    /\ frame.call = c /\ frame.at \in {"drop", "erase"} => kind[c] = "one"
    /\ inbox[c] > 0 => Handled(c)
    /\ c \in cancelled =>
         c \notin mCalls /\ making[Loop] # c /\ kind[c] # "unused"
    /\ kind[c] = "one" => /\ runs[c] <= 1
                          /\ runs[c] = 1 => bus[c] # "open" /\ c \notin mCalls
                                              /\ ~Dispatching(c)
                          /\ frame.call = c /\ frame.at \in {"erase", "copied", "run"}
                               => bus[c] # "open"
                          /\ frame.call = c /\ frame.at \in {"copied", "run"}
                               => c \notin mCalls

LEMMA InitOneReply == Init => OneReplyOver
BY CallsAssumption DEF Init, OneReplyOver, Dispatching, Handled, Idle, Threads

LEMMA ClientOneReply ==
  ASSUME Callers = {Loop}
  PROVE  TypeOK /\ OneReplyOver /\ ClientStep => OneReplyOver'
<1> SUFFICES ASSUME TypeOK, OneReplyOver, ClientStep PROVE OneReplyOver'
  OBVIOUS
<1> USE DEF TypeOK, OneReplyOver, Dispatching, Handled, pointVars, busVars
<1>1. ASSUME NEW c \in Calls, NEW k \in {"one", "multi"}, LSCall(Loop, c, k)
      PROVE OneReplyOver'
  BY <1>1, CallsAssumption DEF LSCall, InClient, Threads
<1>2. ASSUME NEW c \in Calls, NEW k \in {"one", "multi"}, LSCallFails(Loop, c, k)
      PROVE OneReplyOver'
  BY <1>2 DEF LSCallFails, InClient
<1>3. ASSUME NEW c \in Calls, FireAndForget(Loop, c) PROVE OneReplyOver'
  BY <1>3 DEF FireAndForget, InClient
<1>4. CASE AssignToken(Loop)
  BY <1>4 DEF AssignToken
<1>5. CASE TrackCall(Loop)
  BY <1>5, CallsAssumption DEF TrackCall, Threads
<1>6. ASSUME NEW t \in Cancellers, NEW c \in Calls, CancelCall(t, c)
      PROVE OneReplyOver'
  BY <1>6 DEF CancelCall, LSCallCancel, Erase, Known, Threads
<1>7. ASSUME NEW t \in Destroyers, Destroy(t) PROVE OneReplyOver'
  BY <1>7 DEF Destroy, LSCallCancel, Erase
<1> QED
  BY <1>1, <1>2, <1>3, <1>4, <1>5, <1>6, <1>7 DEF ClientStep, MakeCall

LEMMA NextOneReply ==
  ASSUME Callers = {Loop}
  PROVE  TypeOK /\ OneReplyOver /\ [Next]_vars => OneReplyOver'
<1> SUFFICES ASSUME TypeOK, OneReplyOver, [Next]_vars PROVE OneReplyOver'
  OBVIOUS
<1> USE DEF TypeOK, OneReplyOver, Dispatching, Handled, Goto, Idle, Stages,
            pointVars, busVars
<1>1. CASE ClientStep
  BY <1>1, ClientOneReply
<1>2. CASE BusStep
  <2> SUFFICES ASSUME NEW c \in Calls, Reply(c) \/ DiscardReply(c) \/ Dispatch(c)
               PROVE  OneReplyOver'
    BY <1>2 DEF BusStep
  <2>1. CASE Reply(c)
    BY <2>1 DEF Reply
  <2>2. CASE DiscardReply(c)
    BY <2>2 DEF DiscardReply
  <2>3. CASE Dispatch(c)
    BY <2>3, CallsAssumption DEF Dispatch
  <2> QED
    BY <2>1, <2>2, <2>3
<1>3. CASE CopyHandler
  BY <1>3 DEF CopyHandler
<1>4. CASE CancelAnswered
  BY <1>4 DEF CancelAnswered, LSCallCancel, TokenOf
<1>5. CASE EraseAnswered
  BY <1>5 DEF EraseAnswered, Erase, TokenOf
<1>6. CASE InvokeHandler
  BY <1>6 DEF InvokeHandler
<1>7. CASE HandlerReturns
  BY <1>7, CallsAssumption DEF HandlerReturns
<1>8. CASE Crash
  BY <1>8 DEF Crash
<1>9. CASE UNCHANGED vars
  BY <1>9 DEF vars
<1> QED
  BY <1>1, <1>2, <1>3, <1>4, <1>5, <1>6, <1>7, <1>8, <1>9 DEF Next, HandlerStep

(* The handler of a one-reply call is started at most once in every        *)
(* program that makes its calls on the loop thread, whatever other threads *)
(* cancel and destroy.                                                     *)
THEOREM OneReplyIsOne ==
  ASSUME Callers = {Loop}
  PROVE  Spec => []OneReplyOnce
<1>1. Spec => [](TypeOK /\ OneReplyOver)
  BY InitType, InitOneReply, NextType, NextOneReply, PTL DEF Spec
<1>2. OneReplyOver => OneReplyOnce
  BY DEF OneReplyOver, OneReplyOnce
<1> QED
  BY <1>1, <1>2, PTL

(* In such a program mCalls holds no call that is finished.                *)
THEOREM FinishedLeaveMap ==
  ASSUME Callers = {Loop}
  PROVE  Spec => []FinishedNotTracked
<1>1. Spec => [](TypeOK /\ OneReplyOver)
  BY InitType, InitOneReply, NextType, NextOneReply, PTL DEF Spec
<1>2. TypeOK /\ OneReplyOver => FinishedNotTracked
  BY DEF TypeOK, OneReplyOver, FinishedNotTracked
<1> QED
  BY <1>1, <1>2, PTL

(* In such a program luna never holds a freed Call object as the context   *)
(* of an open call.                                                        *)
THEOREM ContextOutlivesCall ==
  ASSUME Callers = {Loop}
  PROVE  Spec => []BusContextLive
<1>1. Spec => [](TypeOK /\ OneReplyOver)
  BY InitType, InitOneReply, NextType, NextOneReply, PTL DEF Spec
<1>2. OneReplyOver /\ Ownership => BusContextLive
  BY DEF OneReplyOver, Ownership, BusContextLive, Handled, Makers, Threads
<1> QED
  BY <1>1, <1>2, OwnershipHolds, PTL

-----------------------------------------------------------------------------
(* Calls made and the ServicePoint deleted on the loop thread only.  The   *)
(* destructor then never meets callResponseHandler between its first line  *)
(* and the handler, and it closes every call that could be dispatched.     *)
GoneIsQuiet ==
  point = "gone" => /\ mCalls = {}
                    /\ \A t \in Threads : making[t] = None
                    /\ frame.at \in {"none", "run"}

LEMMA InitGone == Init => GoneIsQuiet
BY DEF Init, GoneIsQuiet

LEMMA NextGone ==
  ASSUME Callers = {Loop}, Destroyers = {Loop}
  PROVE  TypeOK /\ OneReplyOver /\ GoneIsQuiet /\ [Next]_vars => GoneIsQuiet'
<1> SUFFICES ASSUME TypeOK, OneReplyOver, GoneIsQuiet, [Next]_vars
             PROVE  GoneIsQuiet'
  OBVIOUS
<1> USE DEF TypeOK, GoneIsQuiet, Goto, Idle, pointVars, busVars
<1>1. CASE MakeCall(Loop) \/ AssignToken(Loop) \/ TrackCall(Loop)
  BY <1>1, CallsAssumption DEF MakeCall, LSCall, LSCallFails, FireAndForget,
       AssignToken, TrackCall, InClient, Threads
<1>2. ASSUME NEW t \in Cancellers, NEW c \in Calls, CancelCall(t, c)
      PROVE GoneIsQuiet'
  BY <1>2 DEF CancelCall, Erase
<1>3. CASE Destroy(Loop)
  BY <1>3 DEF Destroy, Erase, InClient
<1>4. ASSUME NEW c \in Calls, Reply(c) \/ DiscardReply(c) \/ Dispatch(c)
      PROVE GoneIsQuiet'
  BY <1>4, CallsAssumption DEF Reply, DiscardReply, Dispatch, OneReplyOver, Threads
<1>5. CASE EraseAnswered
  BY <1>5 DEF EraseAnswered, Erase
<1>6. CASE CopyHandler \/ CancelAnswered \/ InvokeHandler \/ HandlerReturns \/ Crash
  BY <1>6 DEF CopyHandler, CancelAnswered, InvokeHandler, HandlerReturns, Crash
<1>7. CASE UNCHANGED vars
  BY <1>7 DEF vars
<1> QED
  BY <1>1, <1>2, <1>3, <1>4, <1>5, <1>6, <1>7
     DEF Next, ClientStep, BusStep, HandlerStep

(* A destroyed ServicePoint stays silent: no response handler starts after *)
(* its destructor, in every program that makes calls and deletes the       *)
(* ServicePoint on the loop thread.                                        *)
THEOREM DestroyIsFinal ==
  ASSUME Callers = {Loop}, Destroyers = {Loop}
  PROVE  Spec => NoHandlerAfterDestroy
<1>1. Spec => [](TypeOK /\ OneReplyOver /\ GoneIsQuiet)
  BY InitType, InitOneReply, InitGone, NextType, NextOneReply, NextGone, PTL
     DEF Spec
<1>2. ASSUME TypeOK, GoneIsQuiet, [Next]_vars
      PROVE  [point # "up" => runs' = runs]_vars
  <2>1. CASE InvokeHandler
    BY <2>1, <1>2 DEF InvokeHandler, Running, GoneIsQuiet, TypeOK
  <2> QED
    BY <2>1, <1>2, OnlyInvokeRuns
<1> QED
  BY <1>1, <1>2, PTL DEF Spec, NoHandlerAfterDestroy

-----------------------------------------------------------------------------
(* Everything on the loop thread: the Call object in use by                *)
(* callResponseHandler is still owned by mCalls.                           *)
FrameTracked == UsesContext => frame.call \in mCalls /\ point = "up"

LEMMA NextFrame ==
  ASSUME Callers = {Loop}, Cancellers = {Loop}, Destroyers = {Loop}
  PROVE  TypeOK /\ Ownership /\ OneReplyOver /\ GoneIsQuiet /\ FrameTracked
           /\ [Next]_vars => FrameTracked'
<1> SUFFICES ASSUME TypeOK, Ownership, OneReplyOver, GoneIsQuiet, FrameTracked,
                    [Next]_vars
             PROVE  FrameTracked'
  OBVIOUS
<1> USE DEF TypeOK, FrameTracked, UsesContext, Goto, Idle, pointVars, busVars
<1>1. ASSUME NEW c \in Calls, NEW k \in {"one", "multi"},
             LSCall(Loop, c, k) \/ LSCallFails(Loop, c, k) \/ FireAndForget(Loop, c)
      PROVE FrameTracked'
  BY <1>1 DEF LSCall, LSCallFails, FireAndForget
<1>2. CASE AssignToken(Loop) \/ TrackCall(Loop)
  BY <1>2 DEF AssignToken, TrackCall
<1>3. CASE Destroy(Loop) \/ \E c \in Calls : CancelCall(Loop, c)
  BY <1>3 DEF CancelCall, Destroy, InClient
<1>4. ASSUME NEW c \in Calls, Reply(c) \/ DiscardReply(c) PROVE FrameTracked'
  BY <1>4 DEF Reply, DiscardReply
<1>5. ASSUME NEW c \in Calls, Dispatch(c) PROVE FrameTracked'
  <2>1. c \in mCalls
    BY <1>5, CallsAssumption DEF Dispatch, OneReplyOver, Handled
  <2> QED
    BY <1>5, <2>1 DEF Dispatch, GoneIsQuiet, Running
<1>6. CASE EraseAnswered
  BY <1>6 DEF EraseAnswered
<1>7. CASE CopyHandler \/ CancelAnswered \/ InvokeHandler \/ HandlerReturns
  BY <1>7 DEF CopyHandler, CancelAnswered, InvokeHandler, HandlerReturns
<1>8. CASE Crash
  BY <1>8 DEF Crash, Ownership
<1>9. CASE UNCHANGED vars
  BY <1>9 DEF vars
<1> QED
  BY <1>1, <1>2, <1>3, <1>4, <1>5, <1>6, <1>7, <1>8, <1>9
     DEF Next, ClientStep, MakeCall, BusStep, HandlerStep

(* callResponseHandler never touches a freed Call object or ServicePoint   *)
(* in a program that uses the ServicePoint on the loop thread only.        *)
THEOREM FrameContextIsLive ==
  ASSUME Callers = {Loop}, Cancellers = {Loop}, Destroyers = {Loop}
  PROVE  Spec => []FrameContextLive
<1>1. Init => FrameTracked
  BY DEF Init, FrameTracked, UsesContext, Idle
<1>2. Spec => [](TypeOK /\ OneReplyOver /\ GoneIsQuiet /\ FrameTracked)
  BY <1>1, InitType, InitOneReply, InitGone, NextType, NextOneReply, NextGone,
     NextFrame, OwnershipHolds, PTL DEF Spec
<1>3. TypeOK /\ Ownership /\ FrameTracked => FrameContextLive
  BY DEF TypeOK, Ownership, FrameTracked, FrameContextLive
<1> QED
  BY <1>2, <1>3, OwnershipHolds, PTL

-----------------------------------------------------------------------------
(* The contract of the header.  What the refinement mapping needs beyond   *)
(* the invariants above: a call that was never opened has no history, and  *)
(* a multi-reply call stays open while its reply is dispatched.            *)
Pristine ==
  \A c \in Calls :
    /\ bus[c] = "idle" => runs[c] = 0 /\ frame.call # c
    /\ Dispatching(c) /\ kind[c] # "one" => bus[c] = "open"

Confined == /\ TypeOK /\ Ownership
            /\ OneReplyOver /\ CancelledOver /\ GoneIsQuiet /\ FrameTracked

LEMMA InitPristine == Init => Pristine
BY CallsAssumption DEF Init, Pristine, Dispatching, Idle

LEMMA NextPristine ==
  ASSUME Callers = {Loop}, Cancellers = {Loop}, Destroyers = {Loop}
  PROVE  Confined /\ Pristine /\ [Next]_vars => Pristine'
<1> SUFFICES ASSUME Confined, Pristine, [Next]_vars PROVE Pristine'
  OBVIOUS
<1> USE DEF Confined, TypeOK, Pristine, Dispatching, Goto, Idle, pointVars, busVars
<1>1. ASSUME NEW c \in Calls, NEW k \in {"one", "multi"},
             LSCall(Loop, c, k) \/ LSCallFails(Loop, c, k)
      PROVE Pristine'
  BY <1>1 DEF LSCall, LSCallFails, OneReplyOver
<1>2. ASSUME NEW c \in Calls, FireAndForget(Loop, c) PROVE Pristine'
  BY <1>2 DEF FireAndForget, OneReplyOver
<1>3. CASE AssignToken(Loop) \/ TrackCall(Loop)
  BY <1>3 DEF AssignToken, TrackCall
<1>4. ASSUME NEW c \in Calls, CancelCall(Loop, c) PROVE Pristine'
  BY <1>4 DEF CancelCall, LSCallCancel, InClient
<1>5. CASE Destroy(Loop)
  BY <1>5 DEF Destroy, LSCallCancel, InClient
<1>6. ASSUME NEW c \in Calls, Reply(c) \/ DiscardReply(c) PROVE Pristine'
  BY <1>6 DEF Reply, DiscardReply, OneReplyOver, Handled
<1>7. ASSUME NEW c \in Calls, Dispatch(c) PROVE Pristine'
  BY <1>7, CallsAssumption DEF Dispatch
<1>8. CASE CopyHandler \/ EraseAnswered \/ Crash
  BY <1>8 DEF CopyHandler, EraseAnswered, Crash
<1>9. CASE CancelAnswered
  BY <1>9 DEF CancelAnswered, LSCallCancel, TokenOf, OneReplyOver
<1>10. CASE InvokeHandler
  BY <1>10 DEF InvokeHandler
<1>11. CASE HandlerReturns
  BY <1>11, CallsAssumption DEF HandlerReturns
<1>12. CASE UNCHANGED vars
  BY <1>12 DEF vars
<1> QED
  BY <1>1, <1>2, <1>3, <1>4, <1>5, <1>6, <1>7, <1>8, <1>9, <1>10, <1>11, <1>12
     DEF Next, ClientStep, MakeCall, BusStep, HandlerStep

LEMMA ContractInit == Init => Contract!Init
BY CallsAssumption DEF Init, Contract!Init, Pending, Idle

(* Opening a call in luna's map opens it in the contract.                  *)
LEMMA OpenMaps ==
  ASSUME TypeOK, NEW c \in Calls, NEW k,
         point = "up", bus[c] = "idle", c \notin cancelled,
         UNCHANGED <<point, cancelled, frame, runs>>,
         bus' = [bus EXCEPT ![c] = "open"],
         kind' = [kind EXCEPT ![c] = k]
  PROVE  Contract!Open(c)
<1> DEFINE Phase(d) == IF bus[d] = "idle" THEN "new"
                       ELSE IF Pending(d) THEN "open" ELSE "over"
<1>1. \A d \in Calls : Phase(d)' = IF d = c THEN "open" ELSE Phase(d)
  BY DEF TypeOK, Pending
<1>2. {d \in Calls : kind[d] = "one" /\ bus[d] # "idle"}'
        \in {{d \in Calls : kind[d] = "one" /\ bus[d] # "idle"},
            {d \in Calls : kind[d] = "one" /\ bus[d] # "idle"} \cup {c}}
  <2>1. CASE k = "one"
    BY <2>1 DEF TypeOK
  <2>2. CASE k # "one"
    BY <2>2 DEF TypeOK
  <2> QED
    BY <2>1, <2>2
<1>3. Phase(c) = "new"
  OBVIOUS
<1>4. [d \in Calls |-> Phase(d)]' = [[d \in Calls |-> Phase(d)] EXCEPT ![c] = "open"]
  <2> HIDE DEF Phase
  <2> QED
    BY <1>1
<1> QED
  BY <1>2, <1>3, <1>4 DEF Contract!Open

(* Closing a call, or marking it cancelled, closes it in the contract      *)
(* unless it was over already.                                             *)
LEMMA CloseMaps ==
  ASSUME TypeOK, NEW c \in Calls, bus[c] # "idle",
         UNCHANGED <<point, kind, frame, runs>>,
         cancelled' \in {cancelled, cancelled \cup {c}},
         \A d \in Calls : bus'[d] = IF d = c /\ bus[d] = "open" THEN "closed"
                                                           ELSE bus[d],
         frame.call # c \/ frame.at \in {"none", "run"}
  PROVE  Contract!Close(c) \/ UNCHANGED Contract!vars
<1> DEFINE Phase(d) == IF bus[d] = "idle" THEN "new"
                       ELSE IF Pending(d) THEN "open" ELSE "over"
<1>1. \A d \in Calls : Phase(d)' = IF d = c THEN "over" ELSE Phase(d)
  BY DEF TypeOK, Pending
<1>2. {d \in Calls : kind[d] = "one" /\ bus[d] # "idle"}'
        = {d \in Calls : kind[d] = "one" /\ bus[d] # "idle"}
  OBVIOUS
<1>3. Phase(c) \in {"open", "over"}
  OBVIOUS
<1>4. [d \in Calls |-> Phase(d)]' = [[d \in Calls |-> Phase(d)] EXCEPT ![c] = "over"]
  <2> HIDE DEF Phase
  <2> QED
    BY <1>1
<1>5. CASE Phase(c) = "open"
  BY <1>2, <1>4, <1>5 DEF Contract!Close
<1>6. CASE Phase(c) = "over"
  <2>1. [d \in Calls |-> Phase(d)]' = [d \in Calls |-> Phase(d)]
    <3> HIDE DEF Phase
    <3> QED
      BY <1>1, <1>6
  <2> QED
    BY <1>2, <2>1 DEF Contract!vars
<1> QED
  BY <1>3, <1>5, <1>6

LEMMA ContractStep ==
  ASSUME Callers = {Loop}, Cancellers = {Loop}, Destroyers = {Loop}
  PROVE  Confined /\ Pristine /\ [Next]_vars => [Contract!Next]_(Contract!vars)
<1> SUFFICES ASSUME Confined, Pristine, [Next]_vars
             PROVE  [Contract!Next]_(Contract!vars)
  OBVIOUS
<1> USE DEF Confined, TypeOK, Pending, Goto, Idle, Stages, pointVars, busVars
<1>1. ASSUME NEW c \in Calls, NEW k \in {"one", "multi"}, LSCall(Loop, c, k)
      PROVE Contract!Open(c)
  <2>1. /\ point = "up" /\ bus[c] = "idle"
        /\ UNCHANGED <<point, cancelled, frame, runs>>
        /\ bus' = [bus EXCEPT ![c] = "open"]
        /\ kind' = [kind EXCEPT ![c] = k]
    BY <1>1 DEF LSCall, InClient, OneReplyOver
  <2>2. c \notin cancelled
    BY <1>1 DEF LSCall, CancelledOver
  <2> QED
    BY <2>1, <2>2, OpenMaps
<1>2. ASSUME NEW c \in Calls, NEW k \in {"one", "multi"}, LSCallFails(Loop, c, k)
      PROVE UNCHANGED Contract!vars
  BY <1>2 DEF LSCallFails, Contract!vars, OneReplyOver
<1>3. ASSUME NEW c \in Calls, FireAndForget(Loop, c) PROVE Contract!Open(c)
  <2>1. /\ point = "up" /\ bus[c] = "idle"
        /\ UNCHANGED <<point, cancelled, frame, runs>>
        /\ bus' = [bus EXCEPT ![c] = "open"]
        /\ kind' = [kind EXCEPT ![c] = "forget"]
    BY <1>3 DEF FireAndForget, InClient, OneReplyOver
  <2>2. c \notin cancelled
    BY <1>3 DEF FireAndForget, CancelledOver
  <2> QED
    BY <2>1, <2>2, OpenMaps
<1>4. CASE AssignToken(Loop) \/ TrackCall(Loop)
  BY <1>4 DEF AssignToken, TrackCall, Contract!vars
<1>5. ASSUME NEW c \in Calls, CancelCall(Loop, c)
      PROVE Contract!Close(c) \/ UNCHANGED Contract!vars
  <2>1. /\ UNCHANGED <<point, kind, frame, runs>>
        /\ cancelled' = cancelled \cup {c}
        /\ \A d \in Calls : bus'[d] = IF d = c /\ bus[d] = "open" THEN "closed"
                                                              ELSE bus[d]
        /\ bus[c] # "idle"
    BY <1>5 DEF CancelCall, LSCallCancel, InClient, Known, Pristine
  <2>2. frame.at \in {"none", "run"}
    BY <1>5 DEF CancelCall, InClient
  <2> QED
    BY <2>1, <2>2, CloseMaps
<1>6. CASE Destroy(Loop)
  <2>1. Contract!CloseAll
    BY <1>6 DEF Destroy, LSCallCancel, InClient, Contract!CloseAll
  <2> QED
    BY <2>1 DEF Contract!Next
<1>7. ASSUME NEW c \in Calls, Reply(c) PROVE UNCHANGED Contract!vars
  BY <1>7 DEF Reply, Contract!vars
<1>8. ASSUME NEW c \in Calls, DiscardReply(c)
      PROVE Contract!Close(c) \/ UNCHANGED Contract!vars
  <2>1. /\ UNCHANGED <<point, kind, frame, runs, cancelled>>
        /\ \A d \in Calls : bus'[d] = IF d = c /\ bus[d] = "open" THEN "closed"
                                                              ELSE bus[d]
        /\ bus[c] # "idle"
    BY <1>8 DEF DiscardReply
  <2>2. frame.call # c
    BY <1>8 DEF DiscardReply, OneReplyOver, Handled
  <2> QED
    BY <2>1, <2>2, CloseMaps
<1>9. ASSUME NEW c \in Calls, Dispatch(c) PROVE UNCHANGED Contract!vars
  BY <1>9, CallsAssumption DEF Dispatch, Contract!vars
<1>10. CASE CopyHandler \/ EraseAnswered
  BY <1>10 DEF CopyHandler, EraseAnswered, Contract!vars
<1>11. CASE CancelAnswered
  BY <1>11 DEF CancelAnswered, LSCallCancel, TokenOf, Contract!vars
<1>12. ASSUME NEW e \in Calls, frame.call = e, InvokeHandler
       PROVE  Contract!Deliver(e)
  <2> DEFINE Phase(d) == IF bus[d] = "idle" THEN "new"
                         ELSE IF Pending(d) THEN "open" ELSE "over"
             Once == {d \in Calls : kind[d] = "one" /\ bus[d] # "idle"}
  <2>1. /\ frame' = [frame EXCEPT !.at = "run"]
        /\ UNCHANGED <<kind, bus, point, cancelled>>
        /\ runs' = [runs EXCEPT ![e] = @ + 1]
        /\ frame.at = "copied"
    BY <1>12 DEF InvokeHandler
  <2>2. point = "up" /\ e \notin cancelled /\ bus[e] # "idle" /\ Pending(e)
    BY <1>12, <2>1 DEF InvokeHandler, Running, Pristine, Dispatching,
       CancelledOver, GoneIsQuiet
  <2>3. bus[e] = "open" <=> e \notin Once
    BY <1>12, <2>1, <2>2 DEF Pristine, Dispatching, OneReplyOver
  <2>4. \A d \in Calls : Phase(d)' = IF d = e /\ e \in Once THEN "over" ELSE Phase(d)
    BY <1>12, <2>1, <2>2, <2>3
  <2>5. [d \in Calls |-> Phase(d)]'
          = IF e \in Once THEN [[d \in Calls |-> Phase(d)] EXCEPT ![e] = "over"]
                          ELSE [d \in Calls |-> Phase(d)]
    <3> HIDE DEF Phase, Once
    <3> QED
      BY <2>1, <2>4
  <2>6. Once' = Once
    BY <2>1
  <2> QED
    BY <2>1, <2>2, <2>5, <2>6 DEF Contract!Deliver
<1>13. CASE HandlerReturns
  BY <1>13, CallsAssumption DEF HandlerReturns, Contract!vars
<1>14. CASE Crash
  BY <1>14 DEF Crash, UsesContext, FrameTracked, Ownership
<1>15. CASE UNCHANGED vars
  BY <1>15 DEF vars, Contract!vars
<1>16. InvokeHandler => frame.call \in Calls
  BY DEF InvokeHandler
<1> QED
  BY <1>1, <1>2, <1>3, <1>4, <1>5, <1>6, <1>7, <1>8, <1>9, <1>10, <1>11, <1>12,
     <1>13, <1>14, <1>15, <1>16
     DEF Next, ClientStep, MakeCall, BusStep, HandlerStep, Contract!Next

(* A program that uses the ServicePoint on the loop thread only gets       *)
(* everything the header promises: each behaviour of the code is one of    *)
(* CallContract.                                                           *)
THEOREM CodeImplementsContract ==
  ASSUME Callers = {Loop}, Cancellers = {Loop}, Destroyers = {Loop}
  PROVE  Spec => ImplementsContract
<1>1. Init => FrameTracked
  BY DEF Init, FrameTracked, UsesContext, Idle
<1>2. Spec => [](Confined /\ Pristine)
  BY <1>1, InitType, InitOneReply, InitCancelled, InitGone, InitPristine,
     NextType, NextOneReply, NextCancelled, NextGone, NextFrame, NextPristine,
     OwnershipHolds, PTL DEF Spec, Confined
<1> QED
  BY <1>2, ContractInit, ContractStep, PTL DEF Spec, ImplementsContract, Contract!Spec
=============================================================================
