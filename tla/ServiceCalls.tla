---------------------------- MODULE ServiceCalls ----------------------------
(***************************************************************************)
(* The outgoing calls of one ServicePoint (src/servicepoint.cpp): makeCall,*)
(* both cancelCall functions, the destructor and callResponseHandler, over *)
(* the threads of the client program and the event loop of the luna        *)
(* handle.                                                                 *)
(*                                                                         *)
(* A call is named by the Call object that makeCall allocates; luna gives  *)
(* every call a token of its own, so the name stands for the token as      *)
(* well.  token[c] says whether the token has been written into the Call   *)
(* object yet (it is constructed with token 0, which no call has).         *)
(*                                                                         *)
(* A step is a maximal piece of code whose effect another thread can       *)
(* observe at one point: a critical section of mCallsMutex, one luna       *)
(* function, or one access to a Call object.  An operator marked "Variant" *)
(* is a wrong version of the definition that follows it, kept to show that *)
(* a property would notice; nothing in the specification uses it.          *)
(***************************************************************************)
EXTENDS Naturals, FiniteSets

CONSTANTS Calls,        \* the Call objects (and tokens) of a behaviour
          Loop,         \* the thread that runs the luna event loop
          Callers,      \* threads that call callOneReply, callMultiReply
          Cancellers,   \* threads that call cancelCall
          Destroyers,   \* threads that may delete the ServicePoint
          None,         \* no call
          MaxReplies    \* bound: replies the other service sends to a call

Threads == {Loop} \cup Callers \cup Cancellers \cup Destroyers

ASSUME CallsAssumption == None \notin Calls /\ MaxReplies \in Nat \ {0}

VARIABLES
  kind,       \* how c was made: "unused", "one", "multi" or "forget"
  heap,       \* the Call object c: "none", "live" or "freed"
  token,      \* Call::token of c has been assigned
  mCalls,     \* ServicePoint::mCalls
  point,      \* the ServicePoint: "up", "gone" or (undefined behaviour) "crashed"
  making,     \* making[t]: the call whose makeCall on t has called LSCall
  frame,      \* callResponseHandler on the loop: [at |-> stage, call |-> c]
  bus,        \* luna's record of the call: "idle", "open" or "closed"
  inbox,      \* inbox[c]: replies queued for the loop
  sent,       \* sent[c]: replies the other service has sent
  runs,       \* history: how often the handler of c was started
  cancelled   \* history: calls whose cancelCall(token) has returned

pointVars == <<heap, token, mCalls, making>>
busVars == <<bus, inbox, sent>>
vars == <<kind, pointVars, point, frame, busVars, runs, cancelled>>

Stages == {"none", "enter", "drop", "erase", "copied", "run"}

Idle == [at |-> "none", call |-> None]

(* Type invariant: the shapes of ServicePoint's and of luna's state.       *)
TypeOK ==
  /\ kind \in [Calls -> {"unused", "one", "multi", "forget"}]
  /\ heap \in [Calls -> {"none", "live", "freed"}]
  /\ token \in [Calls -> BOOLEAN]
  /\ mCalls \subseteq Calls
  /\ point \in {"up", "gone", "crashed"}
  /\ making \in [Threads -> Calls \cup {None}]
  /\ frame \in {Idle} \cup [at : Stages \ {"none"}, call : Calls]
  /\ bus \in [Calls -> {"idle", "open", "closed"}]
  /\ inbox \in [Calls -> Nat]
  /\ sent \in [Calls -> 0 .. MaxReplies]
  /\ runs \in [Calls -> Nat]
  /\ cancelled \subseteq Calls

-----------------------------------------------------------------------------
Init ==
  /\ kind = [c \in Calls |-> "unused"]
  /\ heap = [c \in Calls |-> "none"]
  /\ token = [c \in Calls |-> FALSE]
  /\ mCalls = {}
  /\ point = "up"
  /\ making = [t \in Threads |-> None]
  /\ frame = Idle
  /\ bus = [c \in Calls |-> "idle"]
  /\ inbox = [c \in Calls |-> 0]
  /\ sent = [c \in Calls |-> 0]
  /\ runs = [c \in Calls |-> 0]
  /\ cancelled = {}

(* The program has not run into undefined behaviour.                       *)
Running == point # "crashed"

(* Client code with the ServicePoint at hand runs on t: outside makeCall   *)
(* and, on the loop, between callbacks or inside a response handler.       *)
InClient(t) == /\ point = "up"
               /\ making[t] = None
               /\ t = Loop => frame.at \in {"none", "run"}

(* The client has the token: makeCall returned it or a response showed it. *)
Known(c) == \/ kind[c] # "unused" /\ bus[c] # "idle"
               /\ \A t \in Threads : making[t] # c
            \/ runs[c] > 0

(* LSCallCancel: luna forgets the calls S and their queued replies.        *)
LSCallCancel(S) ==
  /\ bus' = [c \in Calls |-> IF c \in S /\ bus[c] = "open" THEN "closed"
                                                          ELSE bus[c]]
  /\ inbox' = [c \in Calls |-> IF c \in S THEN 0 ELSE inbox[c]]
  /\ UNCHANGED sent

(* Variant: free what the token names, whoever owns it.                    *)
EraseUnowned(S) ==
  /\ mCalls' = mCalls \ S
  /\ heap' = [c \in Calls |-> IF c \in S THEN "freed" ELSE heap[c]]
  /\ UNCHANGED <<token, making>>

(* mCalls.erase: the map owns the Call objects, so they are freed.         *)
Erase(S) == /\ mCalls' = mCalls \ S
            /\ heap' = [c \in Calls |-> IF c \in S \cap mCalls THEN "freed"
                                                               ELSE heap[c]]
            /\ UNCHANGED <<token, making>>

-----------------------------------------------------------------------------
(* makeCall                                                                *)

(* The handler path up to LSCall: from here on luna knows the object.      *)
LSCall(t, c, k) ==
  /\ InClient(t)
  /\ kind[c] = "unused"
  /\ kind' = [kind EXCEPT ![c] = k]
  /\ heap' = [heap EXCEPT ![c] = "live"]
  /\ bus' = [bus EXCEPT ![c] = "open"]
  /\ making' = [making EXCEPT ![t] = c]
  /\ UNCHANGED <<token, mCalls, point, frame, inbox, sent, runs, cancelled>>

(* Variant: a plain pointer, not released when LSCall fails.               *)
LSCallFailsLeaking(t, c, k) ==
  /\ InClient(t)
  /\ kind[c] = "unused"
  /\ kind' = [kind EXCEPT ![c] = k]
  /\ heap' = [heap EXCEPT ![c] = "live"]
  /\ UNCHANGED <<token, mCalls, point, making, frame, busVars, runs, cancelled>>

(* LSCall reports an error: the unique_ptr frees the object, makeCall      *)
(* throws.                                                                 *)
LSCallFails(t, c, k) ==
  /\ InClient(t)
  /\ kind[c] = "unused"
  /\ kind' = [kind EXCEPT ![c] = k]
  /\ heap' = [heap EXCEPT ![c] = "freed"]
  /\ UNCHANGED <<token, mCalls, point, making, frame, busVars, runs, cancelled>>

(* No handler: luna keeps the call until its first reply, ServicePoint     *)
(* keeps nothing.  (When LSCall or LSCallOneReply fails here, there is no  *)
(* Call object to free: makeCall throws, and neither it nor luna has       *)
(* changed.)                                                               *)
FireAndForget(t, c) ==
  /\ InClient(t)
  /\ kind[c] = "unused"
  /\ kind' = [kind EXCEPT ![c] = "forget"]
  /\ bus' = [bus EXCEPT ![c] = "open"]
  /\ UNCHANGED <<pointVars, point, frame, inbox, sent, runs, cancelled>>

(* call->token = token, after LSCall returned.                             *)
AssignToken(t) ==
  /\ Running
  /\ making[t] \in Calls
  /\ ~token[making[t]]
  /\ token' = [token EXCEPT ![making[t]] = TRUE]
  /\ UNCHANGED <<kind, heap, mCalls, making, point, frame, busVars, runs,
                 cancelled>>

(* Variant: the pointer is moved from before it is stored.                 *)
TrackMovedCall(t) ==
  /\ Running
  /\ making[t] \in Calls
  /\ token[making[t]]
  /\ making' = [making EXCEPT ![t] = None]
  /\ mCalls' = mCalls \cup {making'[t]}
  /\ UNCHANGED <<kind, heap, token, point, frame, busVars, runs, cancelled>>

(* The critical section at the end of makeCall, and its return.            *)
TrackCall(t) ==
  /\ Running
  /\ making[t] \in Calls
  /\ token[making[t]]
  /\ mCalls' = mCalls \cup {making[t]}
  /\ making' = [making EXCEPT ![t] = None]
  /\ UNCHANGED <<kind, heap, token, point, frame, busVars, runs, cancelled>>

-----------------------------------------------------------------------------
(* Variant: only tracked calls are cancelled at luna.                      *)
CancelTracked(t, c) ==
  /\ InClient(t)
  /\ Known(c)
  /\ LSCallCancel({c} \cap mCalls)
  /\ Erase({c})
  /\ cancelled' = cancelled \cup {c}
  /\ UNCHANGED <<kind, point, frame, runs>>

(* Variant: the entry is erased, luna is not told.                         *)
CancelLocally(t, c) ==
  /\ InClient(t)
  /\ Known(c)
  /\ Erase({c})
  /\ cancelled' = cancelled \cup {c}
  /\ UNCHANGED <<kind, point, frame, busVars, runs>>

(* cancelCall(token): with or without an entry of mCalls the cancel is     *)
(* forwarded to luna; an entry is erased.                                  *)
CancelCall(t, c) ==
  /\ InClient(t)
  /\ Known(c)
  /\ LSCallCancel({c})
  /\ Erase({c})
  /\ cancelled' = cancelled \cup {c}
  /\ UNCHANGED <<kind, point, frame, runs>>

(* Variant: the destructor clears mCalls without cancelling.               *)
DestroySilently(t) ==
  /\ InClient(t)
  /\ \A u \in Threads : making[u] = None
  /\ point' = "gone"
  /\ Erase(mCalls)
  /\ UNCHANGED <<kind, frame, busVars, runs, cancelled>>

(* ~ServicePoint.  A client may not delete an object another thread is     *)
(* still calling a method of; it cannot see a dispatch in progress.        *)
Destroy(t) ==
  /\ InClient(t)
  /\ \A u \in Threads : making[u] = None
  /\ point' = "gone"
  /\ LSCallCancel(mCalls)
  /\ Erase(mCalls)
  /\ UNCHANGED <<kind, frame, runs, cancelled>>

-----------------------------------------------------------------------------
(* The other service and luna.  A handler-less call ends with its reply.   *)

Reply(c) ==
  /\ Running
  /\ bus[c] = "open"
  /\ kind[c] # "forget"
  /\ sent[c] < MaxReplies
  /\ sent' = [sent EXCEPT ![c] = @ + 1]
  /\ inbox' = [inbox EXCEPT ![c] = @ + 1]
  /\ UNCHANGED <<kind, pointVars, point, frame, bus, runs, cancelled>>

DiscardReply(c) ==
  /\ Running
  /\ bus[c] = "open"
  /\ kind[c] = "forget"
  /\ bus' = [bus EXCEPT ![c] = "closed"]
  /\ UNCHANGED <<kind, pointVars, point, frame, inbox, sent, runs, cancelled>>

(* luna looks the call up and calls callResponseHandler on the loop.       *)
Dispatch(c) ==
  /\ Running
  /\ bus[c] = "open"
  /\ inbox[c] > 0
  /\ frame.at = "none"
  /\ making[Loop] = None
  /\ inbox' = [inbox EXCEPT ![c] = @ - 1]
  /\ frame' = [at |-> "enter", call |-> c]
  /\ UNCHANGED <<kind, pointVars, point, bus, sent, runs, cancelled>>

-----------------------------------------------------------------------------
(* callResponseHandler                                                     *)

Goto(stage) == frame' = [frame EXCEPT !.at = stage]

(* auto handler = call->handler; the test of call->oneReply.               *)
CopyHandler ==
  /\ Running
  /\ frame.at = "enter"
  /\ Goto(IF kind[frame.call] = "one" THEN "drop" ELSE "copied")
  /\ UNCHANGED <<kind, pointVars, point, busVars, runs, cancelled>>

(* The calls found under call->token, whose first value is 0.              *)
TokenOf(c) == IF token[c] THEN {c} ELSE {}

(* Variant: cancelCall(token) is called, and the object used after it.     *)
CancelAnsweredByToken ==
  /\ Running
  /\ frame.at = "drop"
  /\ LSCallCancel(TokenOf(frame.call))
  /\ Erase(TokenOf(frame.call))
  /\ Goto("erase")
  /\ UNCHANGED <<kind, point, runs, cancelled>>

(* Variant: an answered one-reply call is not cancelled at luna.           *)
KeepAnswered ==
  /\ Running
  /\ frame.at = "drop"
  /\ Goto("erase")
  /\ UNCHANGED <<kind, pointVars, point, busVars, runs, cancelled>>

(* cancelCall(Call* ): LSCallCancel(call->token), outside the lock ...     *)
CancelAnswered ==
  /\ Running
  /\ frame.at = "drop"
  /\ LSCallCancel(TokenOf(frame.call))
  /\ Goto("erase")
  /\ UNCHANGED <<kind, pointVars, point, runs, cancelled>>

(* Variant: ... and mCalls keeps the entry.                                *)
KeepEntry ==
  /\ Running
  /\ frame.at = "erase"
  /\ Goto("copied")
  /\ UNCHANGED <<kind, pointVars, point, busVars, runs, cancelled>>

(* ... then mCalls.erase(call->token), which reads the token again.        *)
EraseAnswered ==
  /\ Running
  /\ frame.at = "erase"
  /\ Erase(TokenOf(frame.call))
  /\ Goto("copied")
  /\ UNCHANGED <<kind, point, busVars, runs, cancelled>>

(* Variant: the handler is looked up in mCalls, after the clean-up.        *)
InvokeTrackedHandler ==
  /\ Running
  /\ frame.at = "copied"
  /\ Goto("run")
  /\ runs' = [runs EXCEPT ![frame.call] = IF frame.call \in mCalls THEN @ + 1 ELSE @]
  /\ UNCHANGED <<kind, pointVars, point, busVars, cancelled>>

(* handleLunaResponse calls the copied handler.                            *)
InvokeHandler ==
  /\ Running
  /\ frame.at = "copied"
  /\ Goto("run")
  /\ runs' = [runs EXCEPT ![frame.call] = @ + 1]
  /\ UNCHANGED <<kind, pointVars, point, busVars, cancelled>>

HandlerReturns ==
  /\ Running
  /\ frame.at = "run"
  /\ frame' = Idle
  /\ UNCHANGED <<kind, pointVars, point, busVars, runs, cancelled>>

(* The stages that read the Call object and, through it, the ServicePoint. *)
(* Reading freed memory finds the old contents (the steps above) or ends   *)
(* the program.                                                            *)
UsesContext == frame.at \in {"enter", "drop", "erase"}

Crash ==
  /\ Running
  /\ UsesContext
  /\ heap[frame.call] = "freed" \/ point = "gone"
  /\ point' = "crashed"
  /\ UNCHANGED <<kind, pointVars, frame, busVars, runs, cancelled>>

-----------------------------------------------------------------------------
MakeCall(t) == \E c \in Calls :
                 \/ FireAndForget(t, c)
                 \/ \E k \in {"one", "multi"} : LSCall(t, c, k) \/ LSCallFails(t, c, k)

ClientStep ==
  \/ \E t \in Callers : MakeCall(t) \/ AssignToken(t) \/ TrackCall(t)
  \/ \E t \in Cancellers, c \in Calls : CancelCall(t, c)
  \/ \E t \in Destroyers : Destroy(t)

BusStep == \E c \in Calls : Reply(c) \/ DiscardReply(c) \/ Dispatch(c)

HandlerStep == \/ CopyHandler \/ CancelAnswered \/ EraseAnswered
               \/ InvokeHandler \/ HandlerReturns

Next == ClientStep \/ BusStep \/ HandlerStep \/ Crash

Spec == Init /\ [][Next]_vars

-----------------------------------------------------------------------------
(* Fairness.  Threads are scheduled; response handlers return; the main    *)
(* loop serves its queue in order, so a reply is not passed over for ever  *)
(* while the loop turns; luna answers every call, with an error if nobody  *)
(* else does.  No fairness for what client code decides to do.             *)
FirstReply(c) == sent[c] = 0 /\ (Reply(c) \/ DiscardReply(c))

Fairness ==
  /\ \A t \in Callers : WF_vars(AssignToken(t) \/ TrackCall(t))
  /\ WF_vars(HandlerStep)
  /\ \A c \in Calls : SF_vars(Dispatch(c)) /\ WF_vars(FirstReply(c))

FairSpec == Spec /\ Fairness

-----------------------------------------------------------------------------
(* Properties                                                              *)

Handled(c) == kind[c] \in {"one", "multi"}

Makers(c) == {t \in Threads : making[t] = c}

(* Every live Call object has exactly one owner, the makeCall that is      *)
(* still building it or mCalls, and a freed one has none: makeCall,        *)
(* cancelCall, a reply and the destructor neither leak an object nor free  *)
(* it twice.                                                               *)
Ownership ==
  \A c \in Calls :
    /\ heap[c] = "live" <=> (c \in mCalls \/ Makers(c) # {})
    /\ ~(c \in mCalls /\ Makers(c) # {})
    /\ \A t, u \in Makers(c) : t = u

(* "Ensuring no access after free conditions" (servicepoint.hpp, class     *)
(* comment): as long as luna may call back for a call, the Call object it  *)
(* was given as context exists.                                            *)
BusContextLive ==
  \A c \in Calls : Handled(c) /\ bus[c] = "open" => heap[c] = "live"

(* callResponseHandler uses its Call object and the ServicePoint behind it *)
(* only while they exist.                                                  *)
FrameContextLive ==
  UsesContext => heap[frame.call] = "live" /\ point = "up"

(* cancelCall: "The handler method will not be called after this."         *)
NoHandlerAfterCancel ==
  [][\A c \in cancelled : runs'[c] = runs[c]]_vars

(* The destructor stops all pending calls: no handler is started once the  *)
(* ServicePoint is gone.                                                   *)
NoHandlerAfterDestroy ==
  [][point # "up" => runs' = runs]_vars

(* callOneReply: the handler of a one-reply call is started at most once.  *)
OneReplyOnce == \A c \in Calls : kind[c] = "one" => runs[c] <= 1

(* "Clean up before the handler method": a one-reply call whose handler    *)
(* has been started and a call that was cancelled are not tracked any more.*)
FinishedNotTracked ==
  \A c \in mCalls : /\ c \notin cancelled
                    /\ kind[c] = "one" => runs[c] = 0

(* callOneReply, callMultiReply: the handler is eventually called, unless  *)
(* the call is cancelled or the ServicePoint destroyed first.              *)
EventuallyAnswered ==
  \A c \in Calls : Handled(c) /\ bus[c] = "open"
                     ~> runs[c] > 0 \/ c \in cancelled \/ point # "up"

(* The contract of the header.  A reply being dispatched still belongs to  *)
(* an open call until its handler starts.                                  *)
Pending(c) == /\ point = "up"
              /\ c \notin cancelled
              /\ \/ bus[c] = "open"
                 \/ frame.call = c /\ frame.at \in Stages \ {"none", "run"}

Contract == INSTANCE CallContract WITH
  phase <- [c \in Calls |-> IF bus[c] = "idle" THEN "new"
                            ELSE IF Pending(c) THEN "open" ELSE "over"],
  once <- {c \in Calls : kind[c] = "one" /\ bus[c] # "idle"},
  delivered <- runs,
  alive <- point = "up"

ImplementsContract == Contract!Spec
=============================================================================
