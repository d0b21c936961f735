------------------------ MODULE ServiceMethodsProofs ------------------------
(***************************************************************************)
(* Theorems about ServiceMethods for every set of ServicePoints, methods,  *)
(* requests and threads.  A theorem that needs handlers that do not delete *)
(* their own point, or one point per method, says so.                      *)
(***************************************************************************)
EXTENDS ServiceMethods, TLAPS

-----------------------------------------------------------------------------
(* The invariant.                                                          *)

\* The loop is in the destructor of p.
Destroying(p) == /\ setup[Loop].at \in {"destroy", "unregister"}
                 /\ setup[Loop].point = p

\* unregisterMethodImpl was entered, or is over, for m.
Entered(p, m) == Destroying(p) /\ m \notin setup[Loop].left
Over(p, m) == /\ Entered(p, m)
              /\ setup[Loop].at = "unregister" => m # setup[Loop].method

(* One thread at a time uses a point; what it registers is not in mMethods *)
(* yet, what it unregisters still is.                                      *)
SetupOK ==
  \A t \in Threads :
    /\ setup[t].at = "idle" => setup[t] = Idle
    /\ setup[t].at # "idle" =>
         /\ setup[t].point \in Points
         /\ \A u \in Threads : setup[u].point = setup[t].point => u = t
    /\ setup[t].at = "register" =>
         /\ setup[t].method \in Methods \ mMethods[setup[t].point]
         /\ <<setup[t].point, setup[t].method>> \in heap
    /\ setup[t].at \in {"destroy", "unregister"} =>
         t = Loop /\ setup[t].left \subseteq mMethods[setup[t].point]
    /\ setup[t].at = "unregister" =>
         setup[t].method \in mMethods[setup[t].point] \ setup[t].left

(* Luna's data of a method belong to a point that has it and has not yet   *)
(* withdrawn it.                                                           *)
RouteOwned ==
  \A m \in Methods : route[m].data # None =>
    \E p \in Points : /\ route[m].data = <<p, m>>
                      /\ m \in mMethods[p] /\ ~Over(p, m)

(* The callback on the loop has an unanswered request until it answers;    *)
(* only a handler runs client code, and so a destructor, under it.         *)
FrameOK ==
  /\ frame.at = "none" => frame = NoFrame
  /\ frame.at # "none" => frame.request \in Requests /\ answer[frame.request] # "no"
  /\ frame.at \in {"methodHandler", "removedMethodHandler"} => setup[Loop] = Idle
  /\ frame.at = "handler" =>
       frame.info \in Infos /\ answer[frame.request] = frame.info[1]

MethodsInv == TypeOK /\ SetupOK /\ RouteOwned /\ FrameOK

(* With handlers that do not delete their own point.                       *)
FrameOwned ==
  frame.at \in {"methodHandler", "handler"} /\ frame.info # None =>
    /\ frame.info[2] \in mMethods[frame.info[1]]
    /\ ~Destroying(frame.info[1])

(* With one point per method.                                              *)
OnePoint ==
  /\ \A m \in Methods, p \in Points : m \in mMethods[p] =>
       /\ \A q \in Points : m \in mMethods[q] => q = p
       /\ \A t \in Threads : setup[t].at = "register" => setup[t].method # m
       /\ Entered(p, m) => route[m].callback = "removedMethodHandler"
       /\ ~Entered(p, m) =>
            route[m].callback = "methodHandler" /\ route[m].data = <<p, m>>
  /\ \A t \in Threads : setup[t].at = "register" =>
       /\ route[setup[t].method].callback = "methodHandler"
       /\ \A u \in Threads :
            setup[u].at = "register" /\ setup[u].method = setup[t].method => u = t

-----------------------------------------------------------------------------
LEMMA InitMethods == Init => MethodsInv /\ FrameOwned /\ OnePoint
<1> SUFFICES ASSUME Init PROVE MethodsInv /\ FrameOwned /\ OnePoint
  OBVIOUS
<1>1. TypeOK
  BY MethodsAssumption DEF Init, TypeOK, Idle, NoFrame
<1>2. SetupOK /\ RouteOwned
  BY MethodsAssumption DEF Init, SetupOK, RouteOwned, Idle
<1>3. FrameOK /\ FrameOwned
  BY MethodsAssumption DEF Init, FrameOK, FrameOwned, NoFrame, Idle
<1>4. OnePoint
  BY MethodsAssumption DEF Init, OnePoint, Idle
<1> QED
  BY <1>1, <1>2, <1>3, <1>4 DEF MethodsInv

Routes == [Methods -> [callback : {"none", "methodHandler", "removedMethodHandler"},
                       data : Infos \cup {None}]]
Setups == [at : {"idle", "register", "destroy", "unregister"},
           point : Points \cup {None}, method : Methods \cup {None},
           left : SUBSET Methods]
Frames == [at : {"none", "methodHandler", "removedMethodHandler", "handler"},
           request : Requests \cup {None}, info : Infos \cup {None}]

(* Replacing the callback of m, or its data, touches no other route.       *)
LEMMA CategoryAppendRoute ==
  ASSUME TypeOK, NEW m \in Methods,
         NEW callback \in {"methodHandler", "removedMethodHandler"},
         CategoryAppend(m, callback)
  PROVE  /\ route' \in Routes
         /\ route'[m].callback = callback
         /\ route'[m].data \in {route[m].data, None}
         /\ \A n \in Methods \ {m} : route'[n] = route[n]
BY DEF TypeOK, CategoryAppend, Routes

LEMMA SetDataRoute ==
  ASSUME TypeOK, NEW m \in Methods, NEW data \in Infos \cup {None}, SetData(m, data)
  PROVE  /\ route' \in Routes
         /\ route'[m].callback = route[m].callback /\ route'[m].data = data
         /\ \A n \in Methods \ {m} : route'[n] = route[n]
BY DEF TypeOK, SetData, Routes

LEMMA SetupType ==
  ASSUME MethodsInv, NEW t \in Threads, SetupStep(t) PROVE TypeOK'
<1> USE MethodsAssumption DEF MethodsInv
<1>1. ASSUME NEW p \in Points, NEW m \in Methods, RegisterAppend(t, p, m)
      PROVE  TypeOK'
  <2>1. route' \in Routes
    BY <1>1, CategoryAppendRoute DEF RegisterAppend
  <2> QED
    BY <1>1, <2>1 DEF RegisterAppend, TypeOK, Infos, Routes
<1>2. CASE RegisterData(t)
  <2> DEFINE p == setup[t].point m == setup[t].method
  <2>1. p \in Points /\ m \in Methods /\ <<p, m>> \in heap
    BY <1>2 DEF RegisterData, SetupOK
  <2>2. route' \in Routes
    BY <1>2, <2>1, SetDataRoute DEF RegisterData, Infos
  <2> QED
    BY <1>2, <2>1, <2>2 DEF RegisterData, TypeOK, Idle, Routes
<1>3. CASE RegisterFails(t)
  <2> DEFINE p == setup[t].point m == setup[t].method
  <2>1. m \notin mMethods[p]
    BY <1>3 DEF RegisterFails, SetupOK
  <2> QED
    BY <1>3, <2>1 DEF RegisterFails, TypeOK, Idle
<1> QED
  BY <1>1, <1>2, <1>3 DEF SetupStep

LEMMA DestroyType == MethodsInv /\ DestroyStep => TypeOK'
<1> SUFFICES ASSUME MethodsInv, DestroyStep PROVE TypeOK'
  OBVIOUS
<1> USE MethodsAssumption DEF MethodsInv
<1>0. Loop \in Threads
  BY DEF Threads
<1>1. ASSUME NEW p \in Points, Destroy(p) PROVE TypeOK'
  BY <1>1 DEF Destroy, TypeOK
<1>2. CASE UnregisterAppend
  <2> PICK m \in setup[Loop].left :
             /\ CategoryAppend(m, "removedMethodHandler")
             /\ setup' = [setup EXCEPT ![Loop].at = "unregister", ![Loop].method = m,
                                       ![Loop].left = @ \ {m}]
    BY <1>2 DEF UnregisterAppend
  <2>1. m \in Methods
    BY <1>0 DEF TypeOK
  <2>2. route' \in Routes
    BY <2>1, CategoryAppendRoute
  <2>3. setup[Loop] \in Setups
    BY <1>0 DEF TypeOK, Setups
  <2>4. [setup[Loop] EXCEPT !.at = "unregister", !.method = m,
                            !.left = setup[Loop].left \ {m}] \in Setups
    BY <2>1, <2>3 DEF Setups
  <2>5. setup' \in [Threads -> Setups]
    BY <1>0, <2>4 DEF TypeOK, Setups
  <2> QED
    BY <1>2, <2>2, <2>5 DEF UnregisterAppend, TypeOK, Routes, Setups
<1>3. CASE UnregisterData
  <2>1. setup[Loop].method \in Methods
    BY <1>0, <1>3 DEF UnregisterData, SetupOK, TypeOK
  <2>2. route' \in Routes
    BY <1>3, <2>1, SetDataRoute DEF UnregisterData
  <2>3. setup[Loop] \in Setups
    BY <1>0 DEF TypeOK, Setups
  <2>4. [setup[Loop] EXCEPT !.at = "destroy", !.method = None] \in Setups
    BY <2>3 DEF Setups
  <2>5. setup' \in [Threads -> Setups]
    BY <1>0, <1>3, <2>4 DEF UnregisterData, TypeOK, Setups
  <2> QED
    BY <1>3, <2>2, <2>5 DEF UnregisterData, TypeOK, Routes, Setups
<1>4. CASE UnregisterThrows
  BY <1>4 DEF UnregisterThrows, TypeOK
<1>5. CASE DestroyMembers
  BY <1>5 DEF DestroyMembers, TypeOK, Idle
<1> QED
  BY <1>1, <1>2, <1>3, <1>4, <1>5 DEF DestroyStep

LEMMA BusType == MethodsInv /\ BusStep => TypeOK'
<1> SUFFICES ASSUME MethodsInv, BusStep PROVE TypeOK'
  OBVIOUS
<1> USE DEF MethodsInv, TypeOK
<1>1. ASSUME NEW r \in Requests, Ask(r) PROVE TypeOK'
  BY <1>1 DEF Ask
<1>2. ASSUME NEW r \in Requests, Dispatch(r) PROVE TypeOK'
  BY <1>2 DEF Dispatch
<1>3. CASE MethodHandler
  <2>1. frame.info # None => frame.info[1] \in Points
    BY DEF Infos
  <2>2. answer' \in [Requests -> Points \cup {"no", "asked", "none", "pending", "removed", "refused"}]
    BY <1>3, <2>1 DEF MethodHandler
  <2>3. NoFrame \in Frames /\ [frame EXCEPT !.at = "handler"] \in Frames
    BY DEF Frames, NoFrame
  <2>4. frame' \in Frames
    BY <1>3, <2>3 DEF MethodHandler
  <2> QED
    BY <1>3, <2>2, <2>4 DEF MethodHandler, Frames
<1>4. CASE HandlerReturns \/ RemovedMethodHandler
  BY <1>4 DEF HandlerReturns, RemovedMethodHandler, NoFrame
<1> QED
  BY <1>1, <1>2, <1>3, <1>4 DEF BusStep

-----------------------------------------------------------------------------
LEMMA SetupPreserved == MethodsInv /\ [Next]_vars => SetupOK'
<1> SUFFICES ASSUME MethodsInv, [Next]_vars PROVE SetupOK'
  OBVIOUS
<1>0. Loop \in Threads
  BY DEF Threads
<1> USE <1>0, MethodsAssumption DEF MethodsInv, TypeOK, SetupOK
<1>1. ASSUME NEW t \in Threads, NEW p \in Points, NEW m \in Methods,
             RegisterAppend(t, p, m)
      PROVE  SetupOK'
  BY <1>1 DEF RegisterAppend, InClient, InUse, Idle
<1>2. ASSUME NEW t \in Threads, RegisterData(t) PROVE SetupOK'
  BY <1>2 DEF RegisterData, Idle
<1>3. ASSUME NEW t \in Threads, RegisterFails(t) PROVE SetupOK'
  BY <1>3 DEF RegisterFails, Idle
<1>4. ASSUME NEW p \in Points, Destroy(p) PROVE SetupOK'
  BY <1>4 DEF Destroy, InClient, InUse, Idle
<1>5. CASE UnregisterAppend
  BY <1>5 DEF UnregisterAppend
<1>6. CASE UnregisterData
  BY <1>6 DEF UnregisterData
<1>7. CASE DestroyMembers
  BY <1>7 DEF DestroyMembers, Idle
<1>8. CASE UnregisterThrows \/ UNCHANGED vars
  BY <1>8 DEF UnregisterThrows, vars
<1>9. ASSUME NEW r \in Requests, Ask(r) \/ Dispatch(r) PROVE SetupOK'
  BY <1>9 DEF Ask, Dispatch
<1>10. CASE MethodHandler \/ HandlerReturns \/ RemovedMethodHandler
  BY <1>10 DEF MethodHandler, HandlerReturns, RemovedMethodHandler
<1> QED
  BY <1>1, <1>2, <1>3, <1>4, <1>5, <1>6, <1>7, <1>8, <1>9, <1>10
     DEF Next, SetupStep, DestroyStep, BusStep

LEMMA RoutePreserved == MethodsInv /\ [Next]_vars => RouteOwned'
<1> SUFFICES ASSUME MethodsInv, [Next]_vars PROVE RouteOwned'
  OBVIOUS
<1>0. Loop \in Threads
  BY DEF Threads
<1>a. TypeOK /\ SetupOK /\ RouteOwned
  BY DEF MethodsInv
<1> USE <1>0, <1>a, MethodsAssumption
    DEF RouteOwned, Over, Entered, Destroying
<1>1. ASSUME NEW t \in Threads, NEW p \in Points, NEW m \in Methods,
             RegisterAppend(t, p, m)
      PROVE  RouteOwned'
  BY <1>1, CategoryAppendRoute DEF RegisterAppend, InClient, Idle, TypeOK, SetupOK
<1>2. ASSUME NEW t \in Threads, RegisterData(t) PROVE RouteOwned'
  <2> DEFINE p == setup[t].point m == setup[t].method
  <2>1. p \in Points /\ m \in Methods /\ <<p, m>> \in Infos /\ SetData(m, <<p, m>>)
    BY <1>2 DEF RegisterData, Infos, TypeOK, SetupOK
  <2>2. /\ route'[m].data = <<p, m>>
        /\ \A n \in Methods \ {m} : route'[n] = route[n]
    BY <2>1, SetDataRoute
  <2>3. m \in mMethods'[p] /\ \A q \in Points : mMethods[q] \subseteq mMethods'[q]
    BY <1>2, <2>1 DEF RegisterData, TypeOK, SetupOK
  <2>4. /\ t # Loop => setup'[Loop] = setup[Loop]
        /\ t = Loop => setup'[Loop] = Idle
        /\ setup[Loop].at \in {"destroy", "unregister"} => t # Loop /\ setup[Loop].point # p
    BY <1>2 DEF RegisterData, TypeOK, SetupOK
  <2> QED
    BY <2>1, <2>2, <2>3, <2>4 DEF Idle
<1>3. ASSUME NEW t \in Threads, RegisterFails(t) PROVE RouteOwned'
  BY <1>3 DEF RegisterFails, Idle, TypeOK, SetupOK
<1>4. ASSUME NEW p \in Points, Destroy(p) PROVE RouteOwned'
  BY <1>4 DEF Destroy, InClient, InUse, Idle, TypeOK, SetupOK
<1>5. CASE UnregisterAppend
  BY <1>5, CategoryAppendRoute DEF UnregisterAppend, TypeOK, SetupOK
<1>6. CASE UnregisterData
  <2> DEFINE m == setup[Loop].method
  <2>1. m \in Methods /\ SetData(m, None)
    BY <1>6 DEF UnregisterData, TypeOK, SetupOK
  <2>2. /\ route'[m].data = None
        /\ \A n \in Methods \ {m} : route'[n] = route[n]
    BY <2>1, SetDataRoute
  <2>3. /\ setup'[Loop].at = "destroy" /\ setup'[Loop].point = setup[Loop].point
        /\ setup'[Loop].left = setup[Loop].left
        /\ setup[Loop].at = "unregister" /\ mMethods' = mMethods
    BY <1>6 DEF UnregisterData, TypeOK, SetupOK
  <2>5. m \notin setup[Loop].left /\ m \in mMethods[setup[Loop].point]
        /\ setup[Loop].point \in Points
    BY <1>6 DEF UnregisterData, SetupOK
  <2> QED
    BY <2>1, <2>2, <2>3, <2>5
<1>7. CASE DestroyMembers
  BY <1>7 DEF DestroyMembers, Idle, TypeOK, SetupOK
<1>8. CASE UnregisterThrows \/ UNCHANGED vars
  BY <1>8 DEF UnregisterThrows, vars, TypeOK, SetupOK
<1>9. ASSUME NEW r \in Requests, Ask(r) \/ Dispatch(r) PROVE RouteOwned'
  BY <1>9 DEF Ask, Dispatch, TypeOK, SetupOK
<1>10. CASE MethodHandler \/ HandlerReturns \/ RemovedMethodHandler
  BY <1>10 DEF MethodHandler, HandlerReturns, RemovedMethodHandler, TypeOK, SetupOK
<1> QED
  BY <1>1, <1>2, <1>3, <1>4, <1>5, <1>6, <1>7, <1>8, <1>9, <1>10
     DEF Next, SetupStep, DestroyStep, BusStep

LEMMA FramePreserved == MethodsInv /\ [Next]_vars => FrameOK'
<1> SUFFICES ASSUME MethodsInv, [Next]_vars PROVE FrameOK'
  OBVIOUS
<1>0. Loop \in Threads
  BY DEF Threads
<1> USE <1>0, MethodsAssumption DEF MethodsInv, TypeOK, SetupOK, FrameOK
<1>1. ASSUME NEW t \in Threads, NEW p \in Points, NEW m \in Methods,
             RegisterAppend(t, p, m)
      PROVE  FrameOK'
  BY <1>1 DEF RegisterAppend, InClient, InUse, Idle
<1>2. ASSUME NEW t \in Threads, RegisterData(t) PROVE FrameOK'
  BY <1>2 DEF RegisterData, Idle
<1>3. ASSUME NEW t \in Threads, RegisterFails(t) PROVE FrameOK'
  BY <1>3 DEF RegisterFails, Idle
<1>4. ASSUME NEW p \in Points, Destroy(p) PROVE FrameOK'
  BY <1>4 DEF Destroy, InClient, InUse, Idle
<1>5. CASE UnregisterAppend
  BY <1>5 DEF UnregisterAppend
<1>6. CASE UnregisterData
  BY <1>6 DEF UnregisterData, Idle
<1>7. CASE DestroyMembers
  BY <1>7 DEF DestroyMembers, Idle
<1>8. CASE UnregisterThrows \/ UNCHANGED vars
  BY <1>8 DEF UnregisterThrows, vars
<1>9. ASSUME NEW r \in Requests, Ask(r) \/ Dispatch(r) PROVE FrameOK'
  BY <1>9 DEF Ask, Dispatch, NoFrame
<1>10. CASE MethodHandler \/ HandlerReturns \/ RemovedMethodHandler
  <2>1. CASE MethodHandler
    <3>1. CASE frame.info = None
      BY <2>1, <3>1 DEF MethodHandler, NoFrame
    <3>2. CASE frame.info # None
      BY <2>1, <3>2 DEF MethodHandler, Infos
    <3> QED
      BY <3>1, <3>2
  <2>2. CASE HandlerReturns \/ RemovedMethodHandler
    BY <2>2 DEF HandlerReturns, RemovedMethodHandler, NoFrame
  <2> QED
    BY <1>10, <2>1, <2>2
<1> QED
  BY <1>1, <1>2, <1>3, <1>4, <1>5, <1>6, <1>7, <1>8, <1>9, <1>10
     DEF Next, SetupStep, DestroyStep, BusStep

LEMMA FrameOwnedPreserved ==
  ~SelfDelete /\ MethodsInv /\ FrameOwned /\ [Next]_vars => FrameOwned'
<1> SUFFICES ASSUME ~SelfDelete, MethodsInv, FrameOwned, [Next]_vars
             PROVE  FrameOwned'
  OBVIOUS
<1>0. Loop \in Threads
  BY DEF Threads
<1> USE <1>0, MethodsAssumption
    DEF MethodsInv, TypeOK, SetupOK, FrameOK, FrameOwned, Destroying
<1>1. ASSUME NEW t \in Threads, NEW p \in Points, NEW m \in Methods,
             RegisterAppend(t, p, m)
      PROVE  FrameOwned'
  BY <1>1 DEF RegisterAppend, InClient, InUse, Idle
<1>2. ASSUME NEW t \in Threads, RegisterData(t) PROVE FrameOwned'
  BY <1>2 DEF RegisterData, Idle
<1>3. ASSUME NEW t \in Threads, RegisterFails(t) PROVE FrameOwned'
  BY <1>3 DEF RegisterFails, Idle
<1>4. ASSUME NEW p \in Points, Destroy(p) PROVE FrameOwned'
  BY <1>4 DEF Destroy, InClient, InUse, Idle
<1>5. CASE UnregisterAppend
  BY <1>5 DEF UnregisterAppend
<1>6. CASE UnregisterData
  BY <1>6 DEF UnregisterData, Idle
<1>7. CASE DestroyMembers
  BY <1>7 DEF DestroyMembers, Idle
<1>8. CASE UnregisterThrows \/ UNCHANGED vars
  BY <1>8 DEF UnregisterThrows, vars
<1>9. ASSUME NEW r \in Requests, Ask(r) \/ Dispatch(r) PROVE FrameOwned'
  <2>1. CASE Ask(r)
    BY <2>1 DEF Ask
  <2>2. CASE Dispatch(r)
    <3>1. setup[Loop] = Idle /\ wants[r] \in Methods
      BY <2>2 DEF Dispatch
    <3>2. route[wants[r]].data # None =>
            \E q \in Points : /\ route[wants[r]].data = <<q, wants[r]>>
                              /\ wants[r] \in mMethods[q]
      BY <3>1 DEF RouteOwned
    <3> QED
      BY <2>2, <3>1, <3>2 DEF Dispatch, Idle
  <2> QED
    BY <1>9, <2>1, <2>2
<1>10. CASE MethodHandler \/ HandlerReturns \/ RemovedMethodHandler
  <2>1. CASE MethodHandler
    BY <2>1, MethodsAssumption DEF MethodHandler, NoFrame, Infos, FrameOwned, Destroying, FrameOK, Idle
  <2>2. CASE HandlerReturns \/ RemovedMethodHandler
    BY <2>2 DEF HandlerReturns, RemovedMethodHandler, NoFrame
  <2> QED
    BY <1>10, <2>1, <2>2
<1> QED
  BY <1>1, <1>2, <1>3, <1>4, <1>5, <1>6, <1>7, <1>8, <1>9, <1>10
     DEF Next, SetupStep, DestroyStep, BusStep

LEMMA OnePointPreserved ==
  ~Shared /\ MethodsInv /\ OnePoint /\ [Next]_vars => OnePoint'
<1> SUFFICES ASSUME ~Shared, MethodsInv, OnePoint, [Next]_vars
             PROVE  OnePoint'
  OBVIOUS
<1>0. Loop \in Threads
  BY DEF Threads
<1>a. TypeOK /\ SetupOK
  BY DEF MethodsInv
<1>b. \A t \in Threads : setup[t].at = "register" => setup[t].method \in Methods
  BY <1>a DEF SetupOK
<1> USE <1>0, <1>a, <1>b, MethodsAssumption
    DEF OnePoint, Entered, Destroying
<1>1. ASSUME NEW t \in Threads, NEW p \in Points, NEW m \in Methods,
             RegisterAppend(t, p, m)
      PROVE  OnePoint'
  <2>1. /\ route'[m].callback = "methodHandler"
        /\ \A n \in Methods \ {m} : route'[n] = route[n]
    BY <1>1, CategoryAppendRoute DEF RegisterAppend, TypeOK, SetupOK
  <2>2. /\ \A q \in Points : m \notin mMethods[q]
        /\ \A u \in Threads : setup[u].at = "register" => setup[u].method # m
    BY <1>1 DEF RegisterAppend, Taken, TypeOK, SetupOK
  <2>3. /\ setup[t].at = "idle" /\ mMethods' = mMethods
        /\ setup'[t].at = "register" /\ setup'[t].method = m
        /\ \A u \in Threads \ {t} : setup'[u] = setup[u]
    BY <1>1 DEF RegisterAppend, InClient, Idle, TypeOK, SetupOK
  <2> QED
    BY <2>1, <2>2, <2>3
<1>2. ASSUME NEW t \in Threads, RegisterData(t) PROVE OnePoint'
  <2> DEFINE p == setup[t].point m == setup[t].method
  <2>1. p \in Points /\ m \in Methods /\ <<p, m>> \in Infos /\ SetData(m, <<p, m>>)
    BY <1>2 DEF RegisterData, Infos, TypeOK, SetupOK
  <2>2. /\ route'[m].data = <<p, m>> /\ route'[m].callback = "methodHandler"
        /\ \A n \in Methods \ {m} : route'[n] = route[n]
    BY <1>2, <2>1, SetDataRoute DEF RegisterData, TypeOK, SetupOK
  <2>3. /\ \A q \in Points : m \notin mMethods[q]
        /\ \A u \in Threads \ {t} : setup[u].at = "register" => setup[u].method # m
    BY <1>2, <2>1 DEF RegisterData, TypeOK, SetupOK
  <2>4. /\ mMethods'[p] = mMethods[p] \cup {m}
        /\ \A q \in Points \ {p} : mMethods'[q] = mMethods[q]
    BY <1>2, <2>1 DEF RegisterData, TypeOK, SetupOK
  <2>5. /\ setup'[t].at = "idle" /\ \A u \in Threads \ {t} : setup'[u] = setup[u]
        /\ setup[Loop].at \in {"destroy", "unregister"} => t # Loop /\ setup[Loop].point # p
    BY <1>2 DEF RegisterData, Idle, TypeOK, SetupOK
  <2> QED
    BY <2>1, <2>2, <2>3, <2>4, <2>5
<1>3. ASSUME NEW t \in Threads, RegisterFails(t) PROVE OnePoint'
  BY <1>3 DEF RegisterFails, Idle, TypeOK, SetupOK
<1>4. ASSUME NEW p \in Points, Destroy(p) PROVE OnePoint'
  BY <1>4 DEF Destroy, InClient, InUse, Idle, TypeOK, SetupOK
<1>5. CASE UnregisterAppend
  BY <1>5, CategoryAppendRoute DEF UnregisterAppend, TypeOK, SetupOK
<1>6. CASE UnregisterData
  <2> DEFINE m == setup[Loop].method
  <2>1. m \in Methods /\ SetData(m, None)
    BY <1>6 DEF UnregisterData, TypeOK, SetupOK
  <2>2. /\ route'[m].data = None /\ route'[m].callback = route[m].callback
        /\ \A n \in Methods \ {m} : route'[n] = route[n]
    BY <2>1, SetDataRoute
  <2>3. /\ setup'[Loop].at = "destroy" /\ setup'[Loop].point = setup[Loop].point
        /\ setup'[Loop].left = setup[Loop].left
        /\ setup[Loop].at = "unregister" /\ mMethods' = mMethods
    BY <1>6 DEF UnregisterData, TypeOK, SetupOK
  <2>4. \A u \in Threads \ {Loop} : setup'[u] = setup[u]
    BY <1>6 DEF UnregisterData, TypeOK
  <2>5. m \notin setup[Loop].left /\ m \in mMethods[setup[Loop].point]
        /\ setup[Loop].point \in Points
    BY <1>6 DEF UnregisterData, SetupOK
  <2> QED
    BY <2>1, <2>2, <2>3, <2>4, <2>5
<1>7. CASE DestroyMembers
  BY <1>7 DEF DestroyMembers, Idle, TypeOK, SetupOK
<1>8. CASE UnregisterThrows \/ UNCHANGED vars
  BY <1>8 DEF UnregisterThrows, vars, TypeOK, SetupOK
<1>9. ASSUME NEW r \in Requests, Ask(r) \/ Dispatch(r) PROVE OnePoint'
  BY <1>9 DEF Ask, Dispatch, TypeOK, SetupOK
<1>10. CASE MethodHandler \/ HandlerReturns \/ RemovedMethodHandler
  BY <1>10 DEF MethodHandler, HandlerReturns, RemovedMethodHandler, TypeOK, SetupOK
<1> QED
  BY <1>1, <1>2, <1>3, <1>4, <1>5, <1>6, <1>7, <1>8, <1>9, <1>10
     DEF Next, SetupStep, DestroyStep, BusStep

-----------------------------------------------------------------------------
(* The refinement: what each step does to the owner of a method and to the *)
(* answer of a request.                                                    *)

LEMMA OneOwner == \A p : (CHOOSE q \in {p} : TRUE) = p
OBVIOUS

LEMMA DirectoryInit == Init => Directory!Init
BY MethodsAssumption DEF Init, Directory!Init, OwnerOf, AnswerOf, NoFrame

(* A method without a route, withdrawn, half registered, or owned.         *)
OwnerMeaning ==
  \A m \in Methods :
    /\ route[m].callback = "none" => OwnerOf(m) = "none"
    /\ route[m].callback = "removedMethodHandler" => OwnerOf(m) = "removed"
    /\ route[m].callback = "methodHandler" /\ (\A p \in Points : m \notin mMethods[p])
         => OwnerOf(m) = "pending"
    /\ \A p \in Points :
         /\ route[m].callback = "methodHandler" /\ m \in mMethods[p]
         /\ \A q \in Points : m \in mMethods[q] => q = p
         => OwnerOf(m) = p

LEMMA Owners == OwnerMeaning
<1>1. ASSUME NEW m \in Methods, NEW p \in Points, m \in mMethods[p],
             \A q \in Points : m \in mMethods[q] => q = p
      PROVE  {q \in Points : m \in mMethods[q]} = {p}
  BY <1>1
<1> QED
  BY <1>1, OneOwner DEF OwnerOf, OwnerMeaning

\* A step that changes the owner of m, or the answer of r, and nothing else.
OwnerBecomes(m, owner) ==
  /\ \A n \in Methods : OwnerOf(n)' = IF n = m THEN owner ELSE OwnerOf(n)
  /\ \A q \in Requests : AnswerOf(q)' = AnswerOf(q)
  /\ wants' = wants
AnswerBecomes(r, by) ==
  /\ \A q \in Requests : AnswerOf(q)' = IF q = r THEN by ELSE AnswerOf(q)
  /\ \A n \in Methods : OwnerOf(n)' = OwnerOf(n)
  /\ wants' = wants
Same ==
  /\ \A q \in Requests : AnswerOf(q)' = AnswerOf(q)
  /\ \A n \in Methods : OwnerOf(n)' = OwnerOf(n)
  /\ wants' = wants

LEMMA Changes ==
  ASSUME NEW m \in Methods, NEW r \in Requests, NEW value
  PROVE  /\ OwnerBecomes(m, value) =>
              /\ [n \in Methods |-> OwnerOf(n)]' =
                   [[n \in Methods |-> OwnerOf(n)] EXCEPT ![m] = value]
              /\ UNCHANGED <<wants, [q \in Requests |-> AnswerOf(q)]>>
         /\ AnswerBecomes(r, value) =>
              /\ [q \in Requests |-> AnswerOf(q)]' =
                   [[q \in Requests |-> AnswerOf(q)] EXCEPT ![r] = value]
              /\ UNCHANGED <<wants, [n \in Methods |-> OwnerOf(n)]>>
BY DEF OwnerBecomes, AnswerBecomes

LEMMA SameStutters == Same => UNCHANGED Directory!vars
BY DEF Same, Directory!vars

LEMMA SetupStepDirectory ==
  ASSUME MethodsInv, OnePoint, OnePoint', ~Shared, NEW t \in Threads, SetupStep(t)
  PROVE  [Directory!Next]_(Directory!vars)
<1>1. OwnerMeaning /\ OwnerMeaning'
  BY Owners, PTL
<1>2. TypeOK /\ SetupOK
  BY DEF MethodsInv
<1>3. ASSUME NEW p \in Points, NEW m \in Methods, RegisterAppend(t, p, m)
      PROVE  Directory!Begin(m)
  <2>1. /\ route'[m].callback = "methodHandler" /\ mMethods' = mMethods
        /\ \A n \in Methods \ {m} : route'[n] = route[n]
    BY <1>2, <1>3, CategoryAppendRoute DEF RegisterAppend
  <2>2. \A q \in Points : m \notin mMethods[q]
    BY <1>3 DEF RegisterAppend, Taken
  <2>3. OwnerOf(m)' = "pending" /\ OwnerOf(m) \in {"none", "pending", "removed"}
    BY <1>1, <1>2, <2>1, <2>2 DEF OwnerMeaning, TypeOK
  <2>4. \A n \in Methods \ {m} : OwnerOf(n)' = OwnerOf(n)
    BY <2>1 DEF OwnerOf
  <2>5. UNCHANGED <<frame, answer, wants>>
    BY <1>3 DEF RegisterAppend
  <2>6. OwnerBecomes(m, "pending")
    BY <2>3, <2>4, <2>5 DEF OwnerBecomes, AnswerOf
  <2> QED
    BY <2>3, <2>6, MethodsAssumption DEF OwnerBecomes, Directory!Begin
<1>4. CASE RegisterData(t)
  <2> PICK p \in Points, m \in Methods : p = setup[t].point /\ m = setup[t].method
    BY <1>2, <1>4 DEF RegisterData, SetupOK
  <2>1. /\ p \in Points /\ m \in Methods /\ <<p, m>> \in Infos
        /\ SetData(m, <<p, m>>)
        /\ route[m].callback = "methodHandler" /\ \A q \in Points : m \notin mMethods[q]
    BY <1>2, <1>4 DEF RegisterData, Infos, SetupOK, OnePoint
  <2>2. /\ route'[m].callback = "methodHandler"
        /\ \A n \in Methods : route'[n].callback = route[n].callback
    BY <1>2, <2>1, SetDataRoute
  <2>3. /\ mMethods'[p] = mMethods[p] \cup {m}
        /\ \A q \in Points \ {p} : mMethods'[q] = mMethods[q]
    BY <1>2, <1>4, <2>1 DEF RegisterData, TypeOK
  <2>4. OwnerOf(m) = "pending" /\ OwnerOf(m)' = p
    BY <1>1, <2>1, <2>2, <2>3 DEF OwnerMeaning
  <2>5. ASSUME NEW n \in Methods \ {m} PROVE OwnerOf(n)' = OwnerOf(n)
    <3>1. \A q \in Points : n \in mMethods'[q] <=> n \in mMethods[q]
      BY <2>3
    <3>2. \A q, u \in Points : n \in mMethods[q] /\ n \in mMethods[u] => u = q
      BY DEF OnePoint
    <3>3. route[n].callback \in {"none", "methodHandler", "removedMethodHandler"}
      BY <1>2 DEF TypeOK
    <3> QED
      BY <1>1, <2>2, <3>1, <3>2, <3>3 DEF OwnerMeaning
  <2>6. UNCHANGED <<frame, answer, wants>>
    BY <1>4 DEF RegisterData
  <2>7. OwnerBecomes(m, p)
    BY <2>4, <2>5, <2>6 DEF OwnerBecomes, AnswerOf
  <2>8. Directory!Register(p, m)
    BY <2>1, <2>4, <2>7 DEF OwnerBecomes, Directory!Register
  <2> QED
    BY <2>1, <2>8 DEF Directory!Next
<1>5. CASE RegisterFails(t)
  <2>1. Same
    BY <1>5 DEF RegisterFails, Same, OwnerOf, AnswerOf
  <2> QED
    BY <2>1, SameStutters
<1> QED
  BY <1>3, <1>4, <1>5 DEF SetupStep, Directory!Next

LEMMA DestroyStepDirectory ==
  ASSUME MethodsInv, OnePoint, OnePoint', ~Shared, DestroyStep
  PROVE  [Directory!Next]_(Directory!vars)
<1>1. OwnerMeaning /\ OwnerMeaning'
  BY Owners, PTL
<1>2. TypeOK /\ SetupOK /\ Loop \in Threads
  BY DEF MethodsInv, Threads
<1>3. CASE UnregisterAppend
  <2> PICK m \in setup[Loop].left : CategoryAppend(m, "removedMethodHandler")
    BY <1>3 DEF UnregisterAppend
  <2> PICK p \in Points : p = setup[Loop].point
    BY <1>2, <1>3 DEF UnregisterAppend, SetupOK
  <2>1. m \in Methods /\ m \in mMethods[p]
    BY <1>2, <1>3 DEF UnregisterAppend, SetupOK, TypeOK
  <2>2. /\ route[m].callback = "methodHandler"
        /\ \A q \in Points : m \in mMethods[q] => q = p
    BY <1>3, <2>1 DEF UnregisterAppend, OnePoint, Entered, Destroying
  <2>3. /\ route'[m].callback = "removedMethodHandler"
        /\ \A n \in Methods \ {m} : route'[n] = route[n]
    BY <1>2, <2>1, CategoryAppendRoute
  <2>4. UNCHANGED <<mMethods, frame, answer, wants>>
    BY <1>3 DEF UnregisterAppend
  <2>5. OwnerOf(m) = p /\ OwnerOf(m)' = "removed"
    BY <1>1, <2>1, <2>2, <2>3 DEF OwnerMeaning
  <2>6. \A n \in Methods \ {m} : OwnerOf(n)' = OwnerOf(n)
    BY <2>3, <2>4 DEF OwnerOf
  <2>7. OwnerBecomes(m, "removed")
    BY <2>4, <2>5, <2>6 DEF OwnerBecomes, AnswerOf
  <2>8. Directory!Unregister(m)
    BY <2>1, <2>5, <2>7 DEF OwnerBecomes, Directory!Unregister
  <2> QED
    BY <2>1, <2>8 DEF Directory!Next
<1>4. CASE UnregisterData
  <2> PICK m \in Methods : m = setup[Loop].method
    BY <1>2, <1>4 DEF UnregisterData, SetupOK, TypeOK
  <2>1. SetData(m, None) /\ UNCHANGED <<mMethods, frame, answer, wants>>
    BY <1>4 DEF UnregisterData
  <2>2. \A n \in Methods : route'[n].callback = route[n].callback
    BY <1>2, <2>1, SetDataRoute
  <2>3. Same
    BY <2>1, <2>2 DEF Same, OwnerOf, AnswerOf
  <2> QED
    BY <2>3, SameStutters
<1>5. CASE DestroyMembers
  <2> PICK p \in Points : p = setup[Loop].point
    BY <1>2, <1>5 DEF DestroyMembers, SetupOK
  <2>1. /\ mMethods'[p] = {} /\ \A q \in Points \ {p} : mMethods'[q] = mMethods[q]
        /\ UNCHANGED <<route, frame, answer, wants>>
    BY <1>2, <1>5 DEF DestroyMembers, TypeOK
  <2>2. \A n \in mMethods[p] : n \in Methods => route[n].callback = "removedMethodHandler"
    BY <1>5 DEF DestroyMembers, OnePoint, Entered, Destroying
  <2>3. ASSUME NEW n \in Methods PROVE OwnerOf(n)' = OwnerOf(n)
    <3>1. CASE route[n].callback # "methodHandler"
      BY <1>1, <1>2, <2>1, <3>1 DEF OwnerMeaning, TypeOK
    <3>2. CASE route[n].callback = "methodHandler"
      <4>1. \A q \in Points : n \in mMethods'[q] <=> n \in mMethods[q]
        BY <2>1, <2>2, <3>2
      <4>2. \A q, u \in Points : n \in mMethods[q] /\ n \in mMethods[u] => u = q
        BY DEF OnePoint
      <4> QED
        BY <1>1, <2>1, <3>2, <4>1, <4>2 DEF OwnerMeaning
    <3> QED
      BY <3>1, <3>2
  <2>4. Same
    BY <2>1, <2>3 DEF Same, AnswerOf
  <2> QED
    BY <2>4, SameStutters
<1>6. ASSUME NEW p \in Points, Destroy(p) PROVE UNCHANGED Directory!vars
  <2>1. Same
    BY <1>6 DEF Destroy, Same, OwnerOf, AnswerOf
  <2> QED
    BY <2>1, SameStutters
<1>7. CASE UnregisterThrows
  <2>1. Same
    BY <1>7 DEF UnregisterThrows, Same, OwnerOf, AnswerOf
  <2> QED
    BY <2>1, SameStutters
<1> QED
  BY <1>3, <1>4, <1>5, <1>6, <1>7 DEF DestroyStep

LEMMA BusStepDirectory ==
  ASSUME MethodsInv, OnePoint, BusStep
  PROVE  [Directory!Next]_(Directory!vars)
<1>1. OwnerMeaning
  BY Owners
<1>2. TypeOK /\ FrameOK
  BY DEF MethodsInv
<1>3. \A r \in Requests : r # None
  BY MethodsAssumption
<1>4. ASSUME NEW r \in Requests, Ask(r) PROVE Directory!Ask(r)
  <2>1. /\ answer[r] = "no" /\ answer'[r] = "asked"
        /\ \A q \in Requests \ {r} : answer'[q] = answer[q]
        /\ UNCHANGED <<route, mMethods, frame, wants>>
    BY <1>2, <1>4 DEF Ask, TypeOK
  <2>2. frame.request # r
    BY <1>2, <1>3, <2>1 DEF FrameOK, NoFrame
  <2>3. AnswerOf(r) = "no" /\ AnswerBecomes(r, "asked")
    BY <2>1, <2>2 DEF AnswerBecomes, AnswerOf, OwnerOf
  <2> QED
    BY <2>3 DEF AnswerBecomes, Directory!Ask
<1>5. ASSUME NEW r \in Requests, Dispatch(r) PROVE Directory!Serve(r)
  <2> PICK m \in Methods : m = wants[r]
    BY <1>2 DEF TypeOK
  <2>1. /\ frame = NoFrame /\ setup[Loop] = Idle /\ answer[r] = "asked"
        /\ UNCHANGED <<route, mMethods, wants>>
    BY <1>5 DEF Dispatch
  <2>2. AnswerOf(r) = "asked"
    BY <1>3, <2>1 DEF AnswerOf, NoFrame
  <2>3. ASSUME NEW q \in Requests, q # r PROVE AnswerOf(q)' = AnswerOf(q)
    BY <1>2, <1>3, <1>5, <2>3 DEF Dispatch, AnswerOf, NoFrame, TypeOK
  <2>4. route[m].callback \in {"none", "methodHandler", "removedMethodHandler"}
    BY <1>2 DEF TypeOK
  <2>5. ASSUME route[m].callback = "none" PROVE AnswerOf(r)' = OwnerOf(m)
    <3>1. OwnerOf(m) = "none"
      BY <1>1, <2>5 DEF OwnerMeaning
    <3>2. frame' = NoFrame /\ answer'[r] = "none"
      BY <1>2, <1>5, <2>1, <2>5 DEF Dispatch, TypeOK
    <3>3. AnswerOf(r)' = "none"
      BY <1>3, <3>2 DEF AnswerOf, NoFrame
    <3> QED
      BY <3>1, <3>3
  <2>6. ASSUME route[m].callback = "removedMethodHandler" PROVE AnswerOf(r)' = OwnerOf(m)
    <3>1. OwnerOf(m) = "removed"
      BY <1>1, <2>6 DEF OwnerMeaning
    <3>2. frame'.request = r /\ frame'.at = "removedMethodHandler"
      BY <1>5, <2>6 DEF Dispatch
    <3> QED
      BY <3>1, <3>2 DEF AnswerOf
  <2>7. ASSUME route[m].callback = "methodHandler" PROVE AnswerOf(r)' = OwnerOf(m)
    <3>1. /\ frame'.request = r /\ frame'.at = "methodHandler"
          /\ frame'.info = route[m].data
      BY <1>5, <2>7 DEF Dispatch
    <3>2. CASE route[m].data = None
      <4>1. ASSUME NEW p \in Points, m \in mMethods[p] PROVE FALSE
        <5>1. route[m].data = <<p, m>>
          BY <2>7, <4>1 DEF OnePoint
        <5> QED
          BY <3>2, <5>1, MethodsAssumption DEF Infos
      <4>2. OwnerOf(m) = "pending"
        BY <1>1, <2>7, <4>1 DEF OwnerMeaning
      <4> QED
        BY <3>1, <3>2, <4>2 DEF AnswerOf
    <3>3. CASE route[m].data # None
      <4> PICK p \in Points : route[m].data = <<p, m>> /\ m \in mMethods[p]
        BY <3>3 DEF MethodsInv, RouteOwned
      <4>1. OwnerOf(m) = p
        BY <1>1, <2>7 DEF OwnerMeaning, OnePoint
      <4>2. frame'.info # None /\ frame'.info[1] = p
        BY <3>1, <3>3
      <4> QED
        BY <3>1, <4>1, <4>2 DEF AnswerOf
    <3> QED
      BY <3>2, <3>3
  <2>8. AnswerOf(r)' = OwnerOf(m)
    BY <2>4, <2>5, <2>6, <2>7
  <2>9. AnswerBecomes(r, OwnerOf(m))
    BY <2>1, <2>3, <2>8 DEF AnswerBecomes, OwnerOf
  <2> QED
    BY <2>2, <2>9 DEF AnswerBecomes, Directory!Serve
<1>6. CASE MethodHandler \/ HandlerReturns \/ RemovedMethodHandler
  <2>1. frame.request \in Requests /\ UNCHANGED <<route, mMethods, wants>>
    BY <1>2, <1>6 DEF MethodHandler, HandlerReturns, RemovedMethodHandler, FrameOK
  <2>2. ASSUME NEW q \in Requests PROVE AnswerOf(q)' = AnswerOf(q)
    <3>1. CASE MethodHandler /\ frame.info = None
      BY <1>2, <1>3, <2>1, <3>1 DEF MethodHandler, AnswerOf, NoFrame, TypeOK
    <3>2. CASE MethodHandler /\ frame.info # None
      BY <1>2, <1>3, <2>1, <3>2 DEF MethodHandler, AnswerOf, TypeOK
    <3>3. CASE HandlerReturns
      <4>1. frame.info # None /\ frame.info[1] \in Points
        BY <1>2, <3>3, MethodsAssumption DEF HandlerReturns, FrameOK, Infos
      <4>2. answer[frame.request] = frame.info[1] /\ frame.info[1] # "refused"
        BY <1>2, <3>3, <4>1, MethodsAssumption DEF HandlerReturns, FrameOK
      <4>3. None \notin Requests /\ frame.at = "handler"
        BY <3>3, MethodsAssumption DEF HandlerReturns
      <4> QED
        BY <2>1, <3>3, <4>1, <4>2, <4>3 DEF HandlerReturns, AnswerOf, NoFrame
    <3>4. CASE RemovedMethodHandler
      BY <1>2, <1>3, <2>1, <3>4 DEF RemovedMethodHandler, AnswerOf, NoFrame, TypeOK
    <3> QED
      BY <1>6, <3>1, <3>2, <3>3, <3>4
  <2>3. Same
    BY <2>1, <2>2 DEF Same, OwnerOf
  <2> QED
    BY <2>3, SameStutters
<1> QED
  BY <1>4, <1>5, <1>6 DEF BusStep, Directory!Next

-----------------------------------------------------------------------------
LEMMA NextMethods == MethodsInv /\ [Next]_vars => MethodsInv'
<1>1. TypeOK /\ UNCHANGED vars => TypeOK'
  BY DEF TypeOK, vars
<1>2. MethodsInv /\ [Next]_vars => TypeOK'
  BY <1>1, SetupType, DestroyType, BusType DEF Next, MethodsInv
<1> QED
  BY <1>2, SetupPreserved, RoutePreserved, FramePreserved DEF MethodsInv

LEMMA MethodsInvariant == Spec => []MethodsInv
BY InitMethods, NextMethods, PTL DEF Spec

(* Every state of the model has the types of the ServicePoints and luna.   *)
THEOREM TypeCorrect == Spec => []TypeOK
<1>1. MethodsInv => TypeOK
  BY DEF MethodsInv
<1> QED
  BY MethodsInvariant, <1>1, PTL

(* Luna never holds a MethodInfo that is gone, also when several points    *)
(* register one method, when handlers delete their point and when calls of *)
(* luna fail, as long as one thread at a time uses a point.                *)
THEOREM RouteToLiveHolds == Spec => []RouteToLive
<1>1. ASSUME MethodsInv, NEW m \in Methods, route[m].data # None
      PROVE  route[m].data \in heap
  <2> PICK p \in Points : route[m].data = <<p, m>> /\ m \in mMethods[p]
    BY <1>1 DEF MethodsInv, RouteOwned
  <2> QED
    BY <1>1 DEF MethodsInv, TypeOK
<1>2. MethodsInv => RouteToLive
  BY <1>1 DEF RouteToLive
<1> QED
  BY MethodsInvariant, <1>2, PTL

(* The MethodInfo outlives the callback that uses it, for handlers that do *)
(* not delete their own ServicePoint.                                      *)
THEOREM FrameInfoLiveHolds ==
  ASSUME ~SelfDelete
  PROVE  Spec => []FrameInfoLive
<1>1. Spec => [](MethodsInv /\ FrameOwned)
  BY InitMethods, NextMethods, FrameOwnedPreserved, PTL DEF Spec
<1>2. MethodsInv /\ FrameOwned => FrameInfoLive
  BY DEF MethodsInv, TypeOK, FrameOwned, FrameInfoLive, Infos
<1> QED
  BY <1>1, <1>2, PTL

(* While every method belongs to one ServicePoint at a time, whatever the  *)
(* threads register and delete and whatever fails, a request is answered   *)
(* by the owner of its method at the time of its dispatch.                 *)
THEOREM MethodsImplementDirectory ==
  ASSUME ~Shared
  PROVE  Spec => ImplementsDirectory
<1>1. Spec => [](MethodsInv /\ OnePoint)
  BY InitMethods, NextMethods, OnePointPreserved, PTL DEF Spec
<1>2. MethodsInv /\ OnePoint /\ OnePoint' /\ [Next]_vars =>
        [Directory!Next]_(Directory!vars)
  <2>1. UNCHANGED vars => UNCHANGED Directory!vars
    BY DEF vars, Directory!vars, OwnerOf, AnswerOf
  <2> QED
    BY <2>1, SetupStepDirectory, DestroyStepDirectory, BusStepDirectory DEF Next
<1> QED
  BY <1>1, <1>2, DirectoryInit, PTL DEF Spec, ImplementsDirectory, Directory!Spec
=============================================================================
