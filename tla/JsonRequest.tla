----------------------------- MODULE JsonRequest -----------------------------
(***************************************************************************)
(* One luna request (src/jsonrequest.cpp): handleLunaCall on the event     *)
(* loop, the JsonRequest object it creates, and the functions returned by  *)
(* defer(), which client code copies to other places and other threads.    *)
(* The object is owned by shared pointers: one in handleLunaCall, one in   *)
(* every copy of a deferred function; the last one to go runs the          *)
(* destructor.                                                             *)
(*                                                                         *)
(* An operator marked "Variant" is a wrong version of the definition that  *)
(* follows it; nothing in the specification uses it.                       *)
(***************************************************************************)
EXTENDS Naturals, Sequences, FiniteSets

CONSTANTS Loop,        \* the thread of the luna event loop
          Workers,     \* other threads that get a deferred function
          MaxReplies   \* bound: replies after which client code stops calling

Threads == {Loop} \cup Workers

ASSUME RequestAssumption ==
  /\ Loop \notin Workers
  /\ MaxReplies \in Nat \ {0}

VARIABLES
  pc,          \* how far handleLunaCall is
  mDeferred,
  mResponded,
  frame,       \* handleLunaCall holds its shared pointer
  copies,      \* threads that hold a copy of the deferred function
  calling,     \* threads inside it, between the reply and mResponded = true
  replyable,   \* LS::Message::respond works; otherwise it throws LS::Error
  replies,     \* history: the kinds of the replies sent to the client
  terminated   \* an exception left a destructor: std::terminate

vars == <<pc, mDeferred, mResponded, frame, copies, calling, replyable,
          replies, terminated>>

Outcomes == {"object", "notObject", "error", "other"}
Done == {"true", "false", "escaped"}

(* Type invariant.                                                         *)
TypeOK ==
  /\ pc \in {"received", "handler", "ok", "catch"} \cup Outcomes \cup Done
  /\ mDeferred \in BOOLEAN /\ mResponded \in BOOLEAN
  /\ frame \in BOOLEAN
  /\ copies \subseteq Threads /\ calling \subseteq copies
  /\ replyable \in BOOLEAN /\ terminated \in BOOLEAN
  /\ replies \in Seq({"result", "error", "early", "deferred", "stock"})

Init ==
  /\ pc = "received"
  /\ mDeferred = FALSE /\ mResponded = FALSE
  /\ frame = FALSE
  /\ copies = {} /\ calling = {}
  /\ replyable \in BOOLEAN
  /\ replies = << >>
  /\ terminated = FALSE

-----------------------------------------------------------------------------
(* handleLunaCall *)

(* The payload is not JSON or does not match the schema: throw.            *)
RejectPayload ==
  /\ pc = "received"
  /\ pc' = "catch"
  /\ UNCHANGED <<mDeferred, mResponded, frame, copies, calling, replyable,
                 replies, terminated>>

(* Variant: mResponded keeps its initial value.                            *)
StartUnmarked ==
  /\ pc = "received"
  /\ pc' = "handler"
  /\ frame' = TRUE
  /\ UNCHANGED <<mDeferred, mResponded, copies, calling, replyable, replies,
                 terminated>>

(* The request is created and the handler entered.  mResponded is set, so  *)
(* that the destructor keeps quiet when the handler throws.                *)
StartHandler ==
  /\ pc = "received"
  /\ pc' = "handler"
  /\ mDeferred' = FALSE
  /\ mResponded' = TRUE
  /\ frame' = TRUE
  /\ UNCHANGED <<copies, calling, replyable, replies, terminated>>

(* The handler returns a result ("notObject" is neither an object nor      *)
(* true), throws an ErrorResponse or a JsonParseError, or anything else.   *)
EndHandler(outcome) ==
  /\ pc = "handler"
  /\ Loop \notin calling
  /\ pc' = outcome
  /\ UNCHANGED <<mDeferred, mResponded, frame, copies, calling, replyable,
                 replies, terminated>>

(* respond(result).  A failure is an LS::Error, caught as std::exception.  *)
RespondResult ==
  /\ pc \in {"object", "notObject"}
  /\ ~mDeferred
  /\ IF pc = "object" /\ replyable
     THEN /\ replies' = Append(replies, "result")
          /\ mResponded' = TRUE
          /\ pc' = "ok"
     ELSE /\ pc' = "other"
          /\ UNCHANGED <<replies, mResponded>>
  /\ UNCHANGED <<mDeferred, frame, copies, calling, replyable, terminated>>

(* Variant: mResponded keeps the value it had while the handler ran.       *)
KeepResponded ==
  /\ pc \in {"object", "notObject"}
  /\ mDeferred
  /\ pc' = "ok"
  /\ UNCHANGED <<mDeferred, mResponded, frame, copies, calling, replyable,
                 replies, terminated>>

(* The request was deferred: mResponded is cleared.                        *)
LeaveDeferred ==
  /\ pc \in {"object", "notObject"}
  /\ mDeferred
  /\ mResponded' = FALSE
  /\ pc' = "ok"
  /\ UNCHANGED <<mDeferred, frame, copies, calling, replyable, replies, terminated>>

(* ~JsonRequest, when the last owner goes.                                 *)
Destructor(last) ==
  IF last /\ ~mResponded
  THEN IF replyable THEN /\ replies' = Append(replies, "stock")
                         /\ UNCHANGED terminated
                    ELSE /\ terminated' = TRUE
                         /\ UNCHANGED replies
  ELSE UNCHANGED <<replies, terminated>>

(* The end of the try block, reached normally or by unwinding: the shared  *)
(* pointer goes before a catch clause runs.                                *)
LeaveTry ==
  /\ pc \in {"ok", "error", "other"}
  /\ frame' = FALSE
  /\ Destructor(copies = {})
  /\ pc' = CASE pc = "ok" -> "true" [] pc = "error" -> "catch" [] OTHER -> "false"
  /\ UNCHANGED <<mDeferred, mResponded, copies, calling, replyable>>

(* Variant: an error clause that only logs.                                *)
CatchLogs ==
  /\ pc = "catch"
  /\ pc' = "true"
  /\ UNCHANGED <<mDeferred, mResponded, frame, copies, calling, replyable,
                 replies, terminated>>

(* catch (JsonParseError), catch (ErrorResponse): the error is sent.  When *)
(* that throws, the exception leaves handleLunaCall.                       *)
CatchError ==
  /\ pc = "catch"
  /\ IF replyable THEN /\ replies' = Append(replies, "error")
                       /\ pc' = "true"
                  ELSE /\ pc' = "escaped"
                       /\ UNCHANGED replies
  /\ UNCHANGED <<mDeferred, mResponded, frame, copies, calling, replyable, terminated>>

-----------------------------------------------------------------------------
(* Client code with deferred functions *)

InClient(t) == /\ t \notin calling
               /\ t = Loop => pc \in {"handler"} \cup Done

(* defer(), in the handler.  A second call is only logged.                 *)
Defer ==
  /\ pc = "handler"
  /\ InClient(Loop)
  /\ mDeferred' = TRUE
  /\ copies' = copies \cup {Loop}
  /\ UNCHANGED <<pc, mResponded, frame, calling, replyable, replies, terminated>>

CopyFunction(t, u) ==
  /\ t \in copies /\ InClient(t)
  /\ copies' = copies \cup {u}
  /\ UNCHANGED <<pc, mDeferred, mResponded, frame, calling, replyable, replies,
                 terminated>>

(* The function is called with a valid response, perhaps before the        *)
(* handler has returned and mDeferred was looked at: respond sends it ...  *)
CallFunction(t) ==
  /\ t \in copies /\ InClient(t)
  /\ replyable
  /\ Len(replies) < MaxReplies
  /\ replies' = Append(replies, IF pc \in {"handler", "object", "notObject"}
                                THEN "early" ELSE "deferred")
  /\ calling' = calling \cup {t}
  /\ UNCHANGED <<pc, mDeferred, mResponded, frame, copies, replyable, terminated>>

(* Variant: the deferred reply is not recorded.                            *)
ForgetResponse(t) ==
  /\ t \in calling
  /\ calling' = calling \ {t}
  /\ UNCHANGED <<pc, mDeferred, mResponded, frame, copies, replyable, replies,
                 terminated>>

(* ... and records it.  (With an invalid response or a message that cannot *)
(* be answered respond throws to its caller and changes nothing.)          *)
RecordResponse(t) ==
  /\ t \in calling
  /\ mResponded' = TRUE
  /\ calling' = calling \ {t}
  /\ UNCHANGED <<pc, mDeferred, frame, copies, replyable, replies, terminated>>

(* Variant: the copy may be destroyed by the call that it runs.            *)
DropRunning(t) ==
  /\ t \in copies
  /\ copies' = copies \ {t}
  /\ Destructor(~frame /\ copies = {t})
  /\ UNCHANGED <<pc, mDeferred, mResponded, frame, calling, replyable>>

(* t destroys its copy of the function.                                    *)
DropFunction(t) ==
  /\ t \in copies /\ InClient(t)
  /\ copies' = copies \ {t}
  /\ Destructor(~frame /\ copies = {t})
  /\ UNCHANGED <<pc, mDeferred, mResponded, frame, calling, replyable>>

-----------------------------------------------------------------------------
(* No step of the program follows std::terminate.                          *)
HandleLunaCall ==
  /\ ~terminated
  /\ \/ RejectPayload \/ StartHandler \/ RespondResult \/ LeaveDeferred
     \/ LeaveTry \/ CatchError
     \/ \E outcome \in Outcomes : EndHandler(outcome)

FunctionStep(t) == \/ CallFunction(t) \/ RecordResponse(t) \/ DropFunction(t)
                   \/ \E u \in Threads : CopyFunction(t, u)

ClientStep == ~terminated /\ (Defer \/ \E t \in Threads : FunctionStep(t))

Next == HandleLunaCall \/ ClientStep

Spec == Init /\ [][Next]_vars

(* The loop runs and handlers return.                                      *)
FairSpec == Spec /\ WF_vars(HandleLunaCall)

-----------------------------------------------------------------------------
(* Properties *)

Gone == ~frame /\ copies = {}

(* A call that handleLunaCall reports as handled has been answered once    *)
(* the request object is gone: by the handler's result, by an error, by a  *)
(* deferred function, or by the stock response of the destructor.          *)
NoSilence == pc = "true" /\ Gone /\ replyable => replies # << >>

(* "The request was not responded. Send a stock response": a client gets   *)
(* the stock response once, and after no reply but those that deferred     *)
(* functions sent before the handler returned, which handleLunaCall        *)
(* forgets.                                                                *)
StockOnlyIfSilent ==
  \A i, j \in 1 .. Len(replies) :
    replies[i] = "stock" => (j = i \/ (j < i /\ replies[j] = "early"))

(* A request that is not deferred gets one reply at most, on every path    *)
(* through the handler, the destructor and the catch clauses; and at the   *)
(* end it has got one exactly if handleLunaCall returns true.  (When that  *)
(* returns false or throws, luna is the one to answer.)                    *)
OneReplyUnlessDeferred ==
  ~mDeferred => /\ Len(replies) <= 1
                /\ pc \in Done => (replies # << >> <=> pc = "true")

(* Every request that handleLunaCall does not refuse is eventually         *)
(* answered, unless client code keeps a deferred function for ever.        *)
EventuallyReplied ==
  []<>(copies = {}) =>
    (pc = "received" /\ replyable ~> replies # << >> \/ pc = "false")
=============================================================================
