--------------------------- MODULE ServiceMethods ---------------------------
(***************************************************************************)
(* The methods of several ServicePoints on one luna handle                 *)
(* (servicepoint.cpp): registerMethod, the destructor, and the two         *)
(* callbacks methodHandler and removedMethodHandler.  Luna keeps one route *)
(* per method: a callback, and the data that is passed to it, here the     *)
(* MethodInfo of a ServicePoint.  Callback and data are set by two calls.  *)
(*                                                                         *)
(* What happens after freed memory was used is not modelled.               *)
(*                                                                         *)
(* An operator marked "Variant" is a wrong version of the definition that  *)
(* follows it; nothing in the specification uses it.                       *)
(***************************************************************************)
EXTENDS FiniteSets

CONSTANTS Points,     \* the ServicePoints, which exist from the beginning
          Methods,    \* category and name
          Requests,   \* calls from the bus
          Loop,       \* the thread of the luna event loop
          Registrars, \* the threads that call registerMethod
          Shared,     \* several points at a time may register one method
          SelfDelete, \* a handler may delete the point it belongs to
          MayFail,    \* registerCategoryAppend, setMethodData and respond may throw
          None

Threads == {Loop} \cup Registrars
Infos == Points \X Methods

ASSUME MethodsAssumption ==
  /\ None \notin Infos /\ None \notin Points /\ None \notin Requests
  /\ Shared \in BOOLEAN /\ SelfDelete \in BOOLEAN /\ MayFail \in BOOLEAN
  /\ {"none", "pending", "removed", "refused", "no", "asked"} \cap Points = {}

VARIABLES
  point,      \* point[p]: "up", "dying", "gone"
  mMethods,   \* mMethods[p]: the methods whose MethodInfo p owns
  heap,       \* the MethodInfo objects that exist
  route,      \* route[m]: luna's callback and data of m
  setup,      \* setup[t]: how far t is in registerMethod or ~ServicePoint
  wants,      \* wants[r]: the method r calls
  answer,     \* answer[r]: "no", "asked", a point, "none" or "pending" (luna
              \* refuses it), "removed" (the error), "refused" (not sent)
  frame,      \* the callback on the loop: the request and its data
  terminated  \* an exception left a destructor

vars == <<point, mMethods, heap, route, setup, wants, answer, frame, terminated>>

Idle == [at |-> "idle", point |-> None, method |-> None, left |-> {}]
NoFrame == [at |-> "none", request |-> None, info |-> None]

(* Type invariant.                                                         *)
TypeOK ==
  /\ point \in [Points -> {"up", "dying", "gone"}]
  /\ mMethods \in [Points -> SUBSET Methods]
  /\ heap \subseteq Infos
  /\ \A p \in Points : \A m \in mMethods[p] : <<p, m>> \in heap
  /\ route \in [Methods -> [callback : {"none", "methodHandler", "removedMethodHandler"},
                            data : Infos \cup {None}]]
  /\ setup \in [Threads -> [at : {"idle", "register", "destroy", "unregister"},
                            point : Points \cup {None}, method : Methods \cup {None},
                            left : SUBSET Methods]]
  /\ wants \in [Requests -> Methods]
  /\ answer \in [Requests -> Points \cup {"no", "asked", "none", "pending", "removed", "refused"}]
  /\ frame \in [at : {"none", "methodHandler", "removedMethodHandler", "handler"},
                request : Requests \cup {None}, info : Infos \cup {None}]
  /\ terminated \in BOOLEAN

Init ==
  /\ point = [p \in Points |-> "up"]
  /\ mMethods = [p \in Points |-> {}]
  /\ heap = {}
  /\ route = [m \in Methods |-> [callback |-> "none", data |-> None]]
  /\ setup = [t \in Threads |-> Idle]
  /\ wants \in [Requests -> Methods]
  /\ answer = [r \in Requests |-> "no"]
  /\ frame = NoFrame
  /\ terminated = FALSE

-----------------------------------------------------------------------------
(* Client code runs on its threads and in handlers.                        *)
InClient(t) ==
  /\ setup[t] = Idle
  /\ t = Loop => frame.at \in {"none", "handler"}

\* "registerMethod [is] not thread safe": one thread at a time per point.
InUse(p) == \E t \in Threads : setup[t].point = p

Taken(m) == \/ \E p \in Points : m \in mMethods[p]
            \/ \E t \in Threads : setup[t].at = "register" /\ setup[t].method = m

(* luna's registerCategoryAppend: the callback of m is replaced.  Whether  *)
(* the data of an earlier registration stays is left open.                 *)
CategoryAppend(m, callback) ==
  \E data \in {route[m].data, None} :
    route' = [route EXCEPT ![m] = [callback |-> callback, data |-> data]]

\* luna's setMethodData
SetData(m, data) == route' = [route EXCEPT ![m].data = data]

(* registerMethod, up to registerCategoryAppend.  A method p has already   *)
(* is refused with a logic_error, and an invalid name with an LS::Error,   *)
(* before anything changes.                                                *)
RegisterAppend(t, p, m) ==
  /\ t \in Registrars /\ InClient(t)
  /\ point[p] = "up" /\ ~InUse(p)
  /\ m \notin mMethods[p]
  /\ Shared \/ ~Taken(m)
  /\ heap' = heap \cup {<<p, m>>}
  /\ CategoryAppend(m, "methodHandler")
  /\ setup' = [setup EXCEPT ![t] = [at |-> "register", point |-> p, method |-> m,
                                    left |-> {}]]
  /\ UNCHANGED <<point, mMethods, wants, answer, frame, terminated>>

(* Variant: the object is stored, but luna is not given it.                *)
RegisterWithoutData(t) ==
  /\ setup[t].at = "register"
  /\ mMethods' = [mMethods EXCEPT ![setup[t].point] = @ \cup {setup[t].method}]
  /\ setup' = [setup EXCEPT ![t] = Idle]
  /\ UNCHANGED <<point, heap, route, wants, answer, frame, terminated>>

(* setMethodData, and the object goes to mMethods.                         *)
RegisterData(t) ==
  /\ setup[t].at = "register"
  /\ SetData(setup[t].method, <<setup[t].point, setup[t].method>>)
  /\ mMethods' = [mMethods EXCEPT ![setup[t].point] = @ \cup {setup[t].method}]
  /\ setup' = [setup EXCEPT ![t] = Idle]
  /\ UNCHANGED <<point, heap, wants, answer, frame, terminated>>

(* Variant: the object of a failed registration is leaked into mMethods.   *)
RegisterFailsLate(t) ==
  /\ MayFail
  /\ setup[t].at = "register"
  /\ mMethods' = [mMethods EXCEPT ![setup[t].point] = @ \cup {setup[t].method}]
  /\ heap' = heap \ {<<setup[t].point, setup[t].method>>}
  /\ setup' = [setup EXCEPT ![t] = Idle]
  /\ UNCHANGED <<point, route, wants, answer, frame, terminated>>

(* setMethodData throws: the object is freed, the callback stays.          *)
RegisterFails(t) ==
  /\ MayFail
  /\ setup[t].at = "register"
  /\ heap' = heap \ {<<setup[t].point, setup[t].method>>}
  /\ setup' = [setup EXCEPT ![t] = Idle]
  /\ UNCHANGED <<point, mMethods, route, wants, answer, frame, terminated>>

(* ~ServicePoint: unregisterMethodImpl for each method, in any order here; *)
(* "left" are those the loop has not come to.                              *)
Destroy(p) ==
  /\ InClient(Loop)
  /\ point[p] = "up" /\ ~InUse(p)
  /\ frame.at = "handler" /\ frame.info[1] = p => SelfDelete
  /\ point' = [point EXCEPT ![p] = "dying"]
  /\ setup' = [setup EXCEPT ![Loop] = [at |-> "destroy", point |-> p, method |-> None,
                                       left |-> mMethods[p]]]
  /\ UNCHANGED <<mMethods, heap, route, wants, answer, frame, terminated>>

UnregisterAppend ==
  /\ setup[Loop].at = "destroy"
  /\ \E m \in setup[Loop].left :
       /\ CategoryAppend(m, "removedMethodHandler")
       /\ setup' = [setup EXCEPT ![Loop].at = "unregister", ![Loop].method = m,
                                 ![Loop].left = @ \ {m}]
  /\ UNCHANGED <<point, mMethods, heap, wants, answer, frame, terminated>>

(* Variant: the data is left in place.                                     *)
UnregisterKeeps ==
  /\ setup[Loop].at = "unregister"
  /\ setup' = [setup EXCEPT ![Loop].at = "destroy", ![Loop].method = None]
  /\ UNCHANGED <<point, mMethods, heap, route, wants, answer, frame, terminated>>

UnregisterData ==
  /\ setup[Loop].at = "unregister"
  /\ SetData(setup[Loop].method, None)
  /\ setup' = [setup EXCEPT ![Loop].at = "destroy", ![Loop].method = None]
  /\ UNCHANGED <<point, mMethods, heap, wants, answer, frame, terminated>>

(* Either call of unregisterMethodImpl throws, in a destructor.            *)
UnregisterThrows ==
  /\ MayFail
  /\ \/ setup[Loop].at = "unregister"
     \/ setup[Loop].at = "destroy" /\ setup[Loop].left # {}
  /\ terminated' = TRUE
  /\ UNCHANGED <<point, mMethods, heap, route, setup, wants, answer, frame>>

(* Variant: the objects are destroyed before the last unregistration.      *)
DestroyEarly ==
  LET p == setup[Loop].point
  IN /\ setup[Loop].at = "destroy"
     /\ point' = [point EXCEPT ![p] = "gone"]
     /\ heap' = {info \in heap : info[1] # p}
     /\ mMethods' = [mMethods EXCEPT ![p] = {}]
     /\ setup' = [setup EXCEPT ![Loop] = Idle]
     /\ UNCHANGED <<route, wants, answer, frame, terminated>>

(* The members are destroyed, and with mMethods the MethodInfo objects.    *)
DestroyMembers ==
  LET p == setup[Loop].point
  IN /\ setup[Loop].at = "destroy"
     /\ setup[Loop].left = {}
     /\ point' = [point EXCEPT ![p] = "gone"]
     /\ heap' = {info \in heap : info[1] # p}
     /\ mMethods' = [mMethods EXCEPT ![p] = {}]
     /\ setup' = [setup EXCEPT ![Loop] = Idle]
     /\ UNCHANGED <<route, wants, answer, frame, terminated>>

-----------------------------------------------------------------------------
(* Luna and the callbacks *)

Ask(r) ==
  /\ answer[r] = "no"
  /\ answer' = [answer EXCEPT ![r] = "asked"]
  /\ UNCHANGED <<point, mMethods, heap, route, setup, wants, frame, terminated>>

(* The loop is free: luna looks the route up and calls the callback with   *)
(* the data.  A method without a route is refused by luna itself.          *)
Dispatch(r) ==
  /\ frame = NoFrame /\ setup[Loop] = Idle
  /\ answer[r] = "asked"
  /\ IF route[wants[r]].callback = "none"
     THEN /\ answer' = [answer EXCEPT ![r] = "none"]
          /\ UNCHANGED frame
     ELSE /\ frame' = [at |-> route[wants[r]].callback, request |-> r,
                       info |-> route[wants[r]].data]
          /\ UNCHANGED answer
  /\ UNCHANGED <<point, mMethods, heap, route, setup, wants, terminated>>

(* methodHandler without data returns false; otherwise it runs the         *)
(* handler in place, by reference to the MethodInfo.                       *)
MethodHandler ==
  /\ frame.at = "methodHandler"
  /\ IF frame.info = None
     THEN /\ answer' = [answer EXCEPT ![frame.request] = "pending"]
          /\ frame' = NoFrame
     ELSE /\ answer' = [answer EXCEPT ![frame.request] = frame.info[1]]
          /\ frame' = [frame EXCEPT !.at = "handler"]
  /\ UNCHANGED <<point, mMethods, heap, route, setup, wants, terminated>>

HandlerReturns ==
  /\ frame.at = "handler" /\ setup[Loop] = Idle
  /\ frame' = NoFrame
  /\ UNCHANGED <<point, mMethods, heap, route, setup, wants, answer, terminated>>

(* Variant: nothing is sent.                                               *)
RemovedSilently ==
  /\ frame.at = "removedMethodHandler"
  /\ frame' = NoFrame
  /\ UNCHANGED <<point, mMethods, heap, route, setup, wants, answer, terminated>>

(* removedMethodHandler sends the error.  When respond throws, it returns  *)
(* false, and luna refuses the request.                                    *)
RemovedMethodHandler ==
  /\ frame.at = "removedMethodHandler"
  /\ \E sent \in {"removed"} \cup (IF MayFail THEN {"refused"} ELSE {}) :
       answer' = [answer EXCEPT ![frame.request] = sent]
  /\ frame' = NoFrame
  /\ UNCHANGED <<point, mMethods, heap, route, setup, wants, terminated>>

-----------------------------------------------------------------------------
SetupStep(t) == \/ \E p \in Points, m \in Methods : RegisterAppend(t, p, m)
                \/ RegisterData(t) \/ RegisterFails(t)

DestroyStep == \/ \E p \in Points : Destroy(p)
               \/ UnregisterAppend \/ UnregisterData \/ UnregisterThrows
               \/ DestroyMembers

BusStep == \/ \E r \in Requests : Ask(r) \/ Dispatch(r)
           \/ MethodHandler \/ HandlerReturns \/ RemovedMethodHandler

Next == ~terminated /\ ((\E t \in Threads : SetupStep(t)) \/ DestroyStep \/ BusStep)

Spec == Init /\ [][Next]_vars

(* The loop goes on: callbacks and destructors return, handlers return in  *)
(* the end whatever they register before, requests are dispatched in their *)
(* order; a thread in registerMethod goes on.                              *)
FairSpec ==
  /\ Spec
  /\ WF_vars(~terminated /\ (MethodHandler \/ RemovedMethodHandler))
  /\ SF_vars(~terminated /\ HandlerReturns)
  /\ WF_vars(~terminated /\ (UnregisterAppend \/ UnregisterData \/ DestroyMembers))
  /\ \A t \in Threads : WF_vars(~terminated /\ RegisterData(t))
  /\ \A r \in Requests : SF_vars(~terminated /\ Dispatch(r))

-----------------------------------------------------------------------------
(* Properties *)

(* "Ensuring no access after free conditions": luna never holds the        *)
(* MethodInfo of a ServicePoint that was deleted, or of a registration     *)
(* that failed.                                                            *)
RouteToLive ==
  \A m \in Methods : route[m].data # None => route[m].data \in heap

(* The MethodInfo, and the handler that runs from it by reference, exist   *)
(* as long as the callback uses them.                                      *)
FrameInfoLive ==
  frame.at \in {"methodHandler", "handler"} /\ frame.info # None =>
    frame.info \in heap

(* The methods are a directory: see MethodDirectory.  A method belongs to  *)
(* the point that has it in mMethods until its callback is replaced.  A    *)
(* request is served when it is dispatched; for the directory it does not  *)
(* matter whether the error could be sent.                                 *)
OwnerOf(m) ==
  LET owners == {p \in Points : m \in mMethods[p]}
  IN CASE route[m].callback = "none" -> "none"
       [] route[m].callback = "removedMethodHandler" -> "removed"
       [] OTHER -> IF owners = {} THEN "pending" ELSE CHOOSE p \in owners : TRUE

AnswerOf(r) ==
  IF frame.request # r THEN (IF answer[r] = "refused" THEN "removed" ELSE answer[r])
  ELSE IF frame.at = "removedMethodHandler" THEN "removed"
  ELSE IF frame.info = None THEN "pending" ELSE frame.info[1]

Directory == INSTANCE MethodDirectory
  WITH owner <- [m \in Methods |-> OwnerOf(m)],
       answer <- [r \in Requests |-> AnswerOf(r)]

ImplementsDirectory == Directory!Spec

(* Every request is answered or refused, also when its method is removed   *)
(* while it waits.                                                         *)
EventuallyAnswered ==
  \A r \in Requests :
    answer[r] = "asked" ~> answer[r] # "asked" \/ terminated
=============================================================================
