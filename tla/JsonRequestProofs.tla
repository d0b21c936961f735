------------------------- MODULE JsonRequestProofs --------------------------
(***************************************************************************)
(* Theorems about JsonRequest for every set of worker threads: how many    *)
(* replies a luna call gets, and of which kind.                            *)
(***************************************************************************)
EXTENDS JsonRequest, SequenceTheorems, TLAPS

-----------------------------------------------------------------------------
(* The invariant.  Lifetime relates the owners of the object and its flags *)
(* to the point handleLunaCall has reached; Sent says what replies are     *)
(* there at this point.                                                    *)

InTry == {"handler", "ok"} \cup Outcomes

AllEarly == \A i \in 1 .. Len(replies) : replies[i] = "early"
StockSent == \E i \in 1 .. Len(replies) : replies[i] = "stock"

Lifetime ==
  /\ frame <=> pc \in InTry
  /\ pc = "received" => copies = {} /\ replies = << >>
  /\ copies # {} => mDeferred
  /\ ~mResponded /\ ~Gone => pc \in {"received", "ok", "true"} /\ mDeferred

Sent ==
  /\ calling # {} => replies # << >>
  /\ pc \in {"ok", "true"} /\ mResponded => replies # << >>
  /\ ~mDeferred /\ pc \notin {"ok", "true"} => replies = << >>
  /\ ~mDeferred /\ pc \in {"ok", "true"} => replies # << >>
  /\ pc \in {"handler", "object", "notObject"} => AllEarly
  /\ ~mResponded /\ ~Gone /\ calling = {} => AllEarly
  /\ StockSent => Gone /\ pc = "true"

RequestInv == /\ TypeOK /\ Lifetime /\ Sent
              /\ NoSilence /\ OneReplyUnlessDeferred /\ StockOnlyIfSilent

-----------------------------------------------------------------------------
(* A reply that is sent comes after the replies that were there.           *)
Kinds == {"result", "error", "early", "deferred", "stock"}

LEMMA Sending ==
  ASSUME TypeOK, NEW kind \in Kinds, replies' = Append(replies, kind)
  PROVE  /\ replies' \in Seq(Kinds) /\ replies' # << >>
         /\ Len(replies') = Len(replies) + 1
         /\ \A i \in 1 .. Len(replies) : replies'[i] = replies[i]
         /\ replies'[Len(replies) + 1] = kind
BY AppendProperties DEF TypeOK, Kinds

LEMMA InitRequest == Init => RequestInv
<1> SUFFICES ASSUME Init PROVE RequestInv
  OBVIOUS
<1>1. Len(replies) = 0
  BY DEF Init
<1>2. TypeOK
  BY EmptySeq DEF Init, TypeOK
<1>3. Lifetime
  BY DEF Init, Lifetime, InTry, Outcomes, Gone
<1>4. Sent
  BY <1>1 DEF Init, Sent, StockSent, AllEarly, Done, Gone
<1>5. NoSilence /\ OneReplyUnlessDeferred /\ StockOnlyIfSilent
  BY <1>1 DEF Init, NoSilence, OneReplyUnlessDeferred, StockOnlyIfSilent
<1> QED
  BY <1>2, <1>3, <1>4, <1>5 DEF RequestInv

LEMMA TypePreserved == TypeOK /\ [Next]_vars => TypeOK'
<1> SUFFICES ASSUME TypeOK, [Next]_vars PROVE TypeOK'
  OBVIOUS
<1>0. \A kind \in Kinds : replies' = Append(replies, kind) => replies' \in Seq(Kinds)
  BY Sending
<1> USE DEF TypeOK, Outcomes, Done, Kinds
<1>1. CASE RejectPayload \/ StartHandler \/ LeaveDeferred
  BY <1>1 DEF RejectPayload, StartHandler, LeaveDeferred
<1>2. CASE \E outcome \in Outcomes : EndHandler(outcome)
  BY <1>2 DEF EndHandler
<1>3. CASE RespondResult \/ CatchError
  BY <1>0, <1>3 DEF RespondResult, CatchError
<1>4. CASE LeaveTry
  BY <1>0, <1>4 DEF LeaveTry, Destructor
<1>5. CASE Defer
  BY <1>5 DEF Defer, Threads
<1>6. ASSUME NEW t \in Threads, NEW u \in Threads, CopyFunction(t, u) PROVE TypeOK'
  BY <1>6 DEF CopyFunction
<1>7. ASSUME NEW t \in Threads, CallFunction(t) PROVE TypeOK'
  BY <1>0, <1>7 DEF CallFunction
<1>8. ASSUME NEW t \in Threads, RecordResponse(t) PROVE TypeOK'
  BY <1>8 DEF RecordResponse
<1>9. ASSUME NEW t \in Threads, DropFunction(t) PROVE TypeOK'
  BY <1>0, <1>9 DEF DropFunction, Destructor, InClient
<1>10. CASE UNCHANGED vars
  BY <1>10 DEF vars
<1> QED
  BY <1>1, <1>2, <1>3, <1>4, <1>5, <1>6, <1>7, <1>8, <1>9, <1>10
     DEF Next, HandleLunaCall, ClientStep, FunctionStep

LEMMA LifetimePreserved == TypeOK /\ Lifetime /\ [Next]_vars => Lifetime'
<1> SUFFICES ASSUME TypeOK, Lifetime, [Next]_vars PROVE Lifetime'
  OBVIOUS
<1> USE DEF TypeOK, Lifetime, InTry, Outcomes, Done, Gone
<1>1. CASE RejectPayload \/ StartHandler \/ LeaveDeferred
  BY <1>1 DEF RejectPayload, StartHandler, LeaveDeferred
<1>2. CASE \E outcome \in Outcomes : EndHandler(outcome)
  BY <1>2 DEF EndHandler
<1>3. CASE RespondResult \/ CatchError
  BY <1>3 DEF RespondResult, CatchError
<1>4. CASE LeaveTry
  BY <1>4 DEF LeaveTry
<1>5. CASE Defer
  BY <1>5 DEF Defer
<1>6. ASSUME NEW t \in Threads, NEW u \in Threads, CopyFunction(t, u)
      PROVE Lifetime'
  BY <1>6 DEF CopyFunction
<1>7. ASSUME NEW t \in Threads, CallFunction(t) PROVE Lifetime'
  BY <1>7 DEF CallFunction
<1>8. ASSUME NEW t \in Threads, RecordResponse(t) PROVE Lifetime'
  BY <1>8 DEF RecordResponse
<1>9. ASSUME NEW t \in Threads, DropFunction(t) PROVE Lifetime'
  BY <1>9 DEF DropFunction
<1>10. CASE UNCHANGED vars
  BY <1>10 DEF vars
<1> QED
  BY <1>1, <1>2, <1>3, <1>4, <1>5, <1>6, <1>7, <1>8, <1>9, <1>10
     DEF Next, HandleLunaCall, ClientStep, FunctionStep

LEMMA SentPreserved == TypeOK /\ Lifetime /\ Sent /\ [Next]_vars => Sent'
<1> SUFFICES ASSUME TypeOK, Lifetime, Sent, [Next]_vars PROVE Sent'
  OBVIOUS
<1> USE DEF TypeOK, Lifetime, Sent, InTry, Outcomes, Done, Gone, AllEarly,
            StockSent, Kinds
<1>1. CASE RejectPayload \/ StartHandler \/ LeaveDeferred
  BY <1>1 DEF RejectPayload, StartHandler, LeaveDeferred
<1>2. CASE \E outcome \in Outcomes : EndHandler(outcome)
  BY <1>2 DEF EndHandler
<1>3. CASE RespondResult
  BY <1>3, Sending DEF RespondResult
<1>4. CASE CatchError
  BY <1>4, Sending DEF CatchError
<1>5. CASE LeaveTry
  BY <1>5, Sending DEF LeaveTry, Destructor
<1>6. CASE Defer
  BY <1>6 DEF Defer
<1>7. ASSUME NEW t \in Threads, NEW u \in Threads, CopyFunction(t, u)
      PROVE Sent'
  BY <1>7 DEF CopyFunction
<1>8. ASSUME NEW t \in Threads, CallFunction(t) PROVE Sent'
  BY <1>8, Sending DEF CallFunction
<1>9. ASSUME NEW t \in Threads, RecordResponse(t) PROVE Sent'
  BY <1>9 DEF RecordResponse
<1>10. ASSUME NEW t \in Threads, DropFunction(t) PROVE Sent'
  BY <1>10, Sending DEF DropFunction, Destructor, InClient
<1>11. CASE UNCHANGED vars
  BY <1>11 DEF vars
<1> QED
  BY <1>1, <1>2, <1>3, <1>4, <1>5, <1>6, <1>7, <1>8, <1>9, <1>10, <1>11
     DEF Next, HandleLunaCall, ClientStep, FunctionStep

LEMMA RepliesPreserved ==
  RequestInv /\ [Next]_vars =>
    (NoSilence /\ OneReplyUnlessDeferred /\ StockOnlyIfSilent)'
<1> DEFINE Promise == NoSilence /\ OneReplyUnlessDeferred /\ StockOnlyIfSilent
<1> SUFFICES ASSUME RequestInv, [Next]_vars PROVE Promise'
  OBVIOUS
<1> USE DEF RequestInv, TypeOK, Lifetime, Sent, InTry, Outcomes, Done, Gone,
            AllEarly, StockSent, Kinds, NoSilence, OneReplyUnlessDeferred,
            StockOnlyIfSilent
<1>1. CASE RejectPayload \/ StartHandler \/ LeaveDeferred
  BY <1>1 DEF RejectPayload, StartHandler, LeaveDeferred
<1>2. CASE \E outcome \in Outcomes : EndHandler(outcome)
  BY <1>2 DEF EndHandler
<1>3. CASE RespondResult
  BY <1>3, Sending DEF RespondResult
<1>4. CASE CatchError
  BY <1>4, Sending DEF CatchError
<1>5. CASE LeaveTry
  BY <1>5, Sending DEF LeaveTry, Destructor
<1>6. CASE Defer
  BY <1>6 DEF Defer
<1>7. ASSUME NEW t \in Threads, NEW u \in Threads, CopyFunction(t, u)
      PROVE Promise'
  BY <1>7 DEF CopyFunction
<1>8. ASSUME NEW t \in Threads, CallFunction(t) PROVE Promise'
  BY <1>8, Sending DEF CallFunction
<1>9. ASSUME NEW t \in Threads, RecordResponse(t) PROVE Promise'
  BY <1>9 DEF RecordResponse
<1>10. ASSUME NEW t \in Threads, DropFunction(t) PROVE Promise'
  BY <1>10, Sending DEF DropFunction, Destructor, InClient
<1>11. CASE UNCHANGED vars
  BY <1>11 DEF vars
<1> QED
  BY <1>1, <1>2, <1>3, <1>4, <1>5, <1>6, <1>7, <1>8, <1>9, <1>10, <1>11
     DEF Next, HandleLunaCall, ClientStep, FunctionStep

-----------------------------------------------------------------------------
LEMMA RequestInvariant == Spec => []RequestInv
<1>1. RequestInv /\ [Next]_vars => RequestInv'
  BY TypePreserved, LifetimePreserved, SentPreserved, RepliesPreserved
     DEF RequestInv
<1> QED
  BY InitRequest, <1>1, PTL DEF Spec

(* Every state of the model has the types of JsonRequest and its owners.   *)
THEOREM TypeCorrect == Spec => []TypeOK
<1>1. RequestInv => TypeOK
  BY DEF RequestInv
<1> QED
  BY RequestInvariant, <1>1, PTL

(* A request that handleLunaCall reports as handled is answered by the     *)
(* time the last owner of the JsonRequest goes, on whatever thread that    *)
(* is and wherever the deferred functions were copied.                     *)
THEOREM NoSilenceHolds == Spec => []NoSilence
<1>1. RequestInv => NoSilence
  BY DEF RequestInv
<1> QED
  BY RequestInvariant, <1>1, PTL

(* Without a deferral no path through the handler, the catch clauses and   *)
(* the destructor answers twice, one reply has been sent when              *)
(* handleLunaCall returns true, and none when it returns false or throws.  *)
THEOREM OneReplyHolds == Spec => []OneReplyUnlessDeferred
<1>1. RequestInv => OneReplyUnlessDeferred
  BY DEF RequestInv
<1> QED
  BY RequestInvariant, <1>1, PTL

(* The stock response is sent once, last, and only when every reply before *)
(* it was sent while the handler was still running.                        *)
THEOREM StockOnlyIfSilentHolds == Spec => []StockOnlyIfSilent
<1>1. RequestInv => StockOnlyIfSilent
  BY DEF RequestInv
<1> QED
  BY RequestInvariant, <1>1, PTL
=============================================================================
