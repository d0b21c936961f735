# ls2-helpers in TLA+

A verification project for **ls2-helpers**, the C++ helper library over
luna-service2 (the webOS bus): outgoing calls, method handlers, subscriptions,
server status, JSON requests and responses. Paths below are relative to `src/`;
`hpp` files are under `include/public/ls2-helpers/`, `cpp` files under `src/`.

`CONSTANTS` choose *which threads use which operation*, so one module serves
for the confined use the library is comfortable with and for the free use its
comments promise. What holds under which confinement is the main result.

## 1. Inventory

The library has no thread of its own. Client threads call it; luna calls it back
on the main loop of the handle ("the loop"), one callback at a time. In-process
memory is its only state: nothing is persisted, so there is no crash recovery.

| Component (source) | State | Operations | What makes it correct |
|---|---|---|---|
| **ServicePoint, outgoing calls** (`servicepoint.cpp` 34-53, 160-235, 320-334) | `mCalls`: token to `Call` object (handler, token, oneReply), `mCallsMutex`; luna keeps a raw `Call*` as context | `callOneReply`, `callMultiReply` (`makeCall`), `cancelCall(token)`, `cancelCall(Call*)`, destructor, `callResponseHandler` | no handler after cancel or destruction, one reply means one run, every call answered, no object leaked, freed twice, or used after free |
| **ServicePoint, methods** (`servicepoint.cpp` 55-122, 277-318) | `mMethods`; luna's route table with a raw `MethodInfo*` per method | `registerMethod`, unregistration by the destructor, `methodHandler`, `removedMethodHandler` | a request reaches the handler of a living ServicePoint or gets the "removed" error |
| **ServicePoint, signals** (`servicepoint.cpp` 125-154, 241-271, `servicepoint.hpp` 262-298) | a first-response flag per subscription | `registerSignal`, `sendSignal`, `subscribeToSignal` | the handler sees every signal in order, not the answer, and a refusal |
| **JsonRequest** (`jsonrequest.cpp`) | `mDeferred`, `mResponded`, shared ownership by copies of the deferred function | `handleLunaCall`, `defer`, `respond`, destructor | every request is answered, none gets the stock error after an answer |
| **JsonResponse** (`jsonresponse.cpp`) | success flag, payload | `handleLunaResponse` | a hub error or invalid JSON is a failure; handler exceptions stay inside |
| **SubscriptionPoint** (`subscriptionpoint.cpp`) | `mSubscriptions`, `mPreviousPayload`, mutex; posts that wait as main loop sources; a `ServerStatus` per item | `addSubscription`, `post`, `postSubscriptions`, cancel and status callbacks, destructor | posts arrive complete and in order, those who left are dropped, deduplication suppresses only what everybody has |
| **ServerStatus** (`serverstatus.hpp`) | `mCookie`, heap-allocated callback | `set`, `cancel`, move, destructor | no callback after cancel |
| **PersistentSubscription** (`persistentsubscription.cpp`) | `mServiceStatus`, `mSubscriptionCall`, `mResultHandler` | `subscribe`, `cancel`, status callback, response callback | at most one call open, resubscribed after every restart of the service, responses for the right handler |
| **JsonParser** (`jsonparser.cpp`) | first error, counter of fields found; a `JsonParseContext` per lookup | `get`, `getFromString`, `getAndMap`, `getArray`, `getObject`, the chain `optional` ... `allowedValues`, `clearError`, `finishParse` | nothing invalid accepted, nothing valid refused, the first error reported, destinations hold what was read, strict mode finds unknown fields |
| util, logging | none | formatting | - |

Interactions: `SubscriptionPoint` owns one `ServerStatus` per subscriber, and
`PersistentSubscription` one for its service; `ServicePoint::methodHandler` calls
`JsonRequest::handleLunaCall`; `callResponseHandler` and
`PersistentSubscription::onCallResponse` call `JsonResponse::handleLunaResponse`;
client handlers call back into all of them, and may delete the object that
called them.

Hard behaviours: the reply of a call may be dispatched before `makeCall` has
stored the token; a handler is copied first and called later; `post` takes its
snapshot under a lock and queues it outside; the client of a subscription may
leave while it is being added; a deferred function may be called before the
handler that created it returned; a method has a route but no data for a moment;
a service restarts while its responses and status notifications are queued;
objects are deleted in their own handlers.
The list with source lines is `hazards` in `PROJECT.json`.

## 2. Modules

| Module | Models |
|---|---|
| `CallContract` | the promises of `servicepoint.hpp` about calls: new, open, over |
| `ServiceCalls` | the outgoing calls of one ServicePoint, step by step |
| `ServiceCallsProofs` | the theorems about `ServiceCalls` |
| `MCServiceCalls` | symmetry for its runs |
| `Topic` | what a publishing point promises: each member is owed what is posted, and gets it in order |
| `SubscriptionPoint` | one SubscriptionPoint, its ServerStatus items and its clients |
| `SubscriptionPointProofs` | the theorems about `SubscriptionPoint` |
| `MCSubscriptionPoint` | symmetry for its runs |
| `JsonRequest` | one request from `handleLunaCall` to the last deferred function |
| `JsonRequestProofs` | the theorems about `JsonRequest` |
| `MethodDirectory` | what registering methods promises: a request is answered by the owner of its method |
| `ServiceMethods` | the methods of several ServicePoints on one handle, and luna's routes |
| `ServiceMethodsProofs` | the theorems about `ServiceMethods` |
| `PersistentSubscription` | one PersistentSubscription with its ServerStatus, its service and luna |
| `PersistentSubscriptionProofs` | the theorems about `PersistentSubscription` |
| `SignalSubscription` | `subscribeToSignal`, the hub, and `JsonResponse::handleLunaResponse` |
| `SignalSubscriptionProofs` | the theorems about `SignalSubscription` |
| `JsonParser` | one parser over one document: every method of the chain, and the conversions |
| `JsonParserProofs` | the theorems about `JsonParser` |
| `MCJsonParser` | the documents of its run |

An operator commented "Variant" is a wrong version of the definition after it
(a lost reset, a swapped order, a forgotten test). It is used by no
specification; replacing the right definition by it shows that a property
notices.

### ServiceCalls

A call is named by its `Call` object; luna gives each call its own token, so the
name is the token too, and `token[c]` says whether it has been written into the
object, which is created with 0. `mCalls` is the set of tracked calls, `heap`
the life of the objects, `making[t]` the call that `makeCall` on thread `t`
is between `LSCall` and its return with, `frame` the stage of
`callResponseHandler` on the loop. `bus`, `inbox`, `sent` are luna's record.

`LSCall`, `AssignToken` and `TrackCall` are the three parts of `makeCall` with a
handler that another thread can tell apart (luna knows the object; line 187;
lines 189-191); `LSCallFails` and `FireAndForget` are its other exits. The throws
that come before any state is touched (no handle, multi reply without handler,
a failing `LSCallOneReply`) are left out. `CancelCall` is
`cancelCall(token)`, `Destroy` the destructor. `CopyHandler`, `CancelAnswered`,
`EraseAnswered`, `InvokeHandler`, `HandlerReturns` are `callResponseHandler`
with `cancelCall(Call*)` in two steps, because line 232 reads the token outside
the lock and line 234 reads it again. A handler is client code: while it runs
(`frame.at = "run"`) the loop may make, cancel and destroy.

Use of freed memory is undefined: the steps that read the `Call` object go on
with its old contents or `Crash` ends the behaviour. Luna is external: its calls
are atomic, a cancelled call's queued replies are dropped, replies to one call
are dispatched only while it is open.

### SubscriptionPoint

A subscriber stands for its message, item and client. `addSubscription` is
`RegisterStatus` then `PushSubscription` (the window between `status.set` and the
lock), or `RegisterStatusFails` when `status.set` throws; `post` is `Snapshot` (duplicate check and copy of the list, one critical
section) then `Attach`; `PostSubscriptions` is the main loop source, and stops at
the first reply that throws, because the `try` is around the whole loop.
`SubscriberCancelCB` and `SubscriberStatusCB` remove items; `Destroy` deletes
them and leaves attached sources alone. `owed`, `served`, `received` and
`missed` are history: what was posted while a subscriber was listed, how much of
it a source has dealt with, what arrived, and who lost the last of it to a reply
that failed (its own, or one before it in the same source).
A duplicate post returns true and changes nothing, so it is the negated guard of
`Snapshot` and has no step. The vector is a set: its order shows only
between different clients. The first subscription may provide the service handle
(`mServiceHandle`).

Clients are external. A sender name belongs to one connection, which does not
come back after it went down. A client leaves after its subscription began to be
added: on the loop nothing is lost by that, since a notification of an earlier
leave is dispatched after the handler that adds it. A message that is
kept and added later, after its cancel notification, is outside the model.
Callbacks are single steps: luna is taken to wait for a running one when it
removes a notification.

### JsonRequest

`pc` is how far `handleLunaCall` is; the values from `object` to `other` are how
the handler ended. `StartHandler` sets `mResponded` in advance (line 74),
`LeaveDeferred` clears it (line 84), `RespondResult` is line 80, `LeaveTry` the
end of the `try` block where the shared pointer goes, `CatchError` the two catch
clauses that reply. `copies` are the threads that hold the deferred function;
`CallFunction` and `RecordResponse` are the reply and the assignment that
follows it (lines 156, 157), `DropFunction` may run the destructor. A reply sent
before line 84 may have cleared `mResponded` is recorded as `early`, since
line 84 forgets it. A message that cannot be answered (`~replyable`) makes
`respond` throw. A handler that throws after a deferred function of its own has
replied gets a second reply, the error of the catch clause: `mDeferred` is set,
so `OneReplyUnlessDeferred` does not speak of it.

### ServiceMethods

`route[m]` is what luna has for a method: the callback and the data. The code
sets them by two calls, so `registerMethod` is `RegisterAppend` then
`RegisterData` (or `RegisterFails`), and `unregisterMethodImpl` is
`UnregisterAppend` then `UnregisterData`; on another thread than the loop's,
requests are dispatched in between. Whether `registerCategoryAppend` keeps the
data of an earlier registration is left open. `Destroy` and `DestroyMembers`
are the beginning and end of the destructor; its order of methods is any, and
`setup[t].left` holds those that are still to be unregistered.
`heap` has the `MethodInfo` objects, `frame` the callback on the loop.
The header says that registration is not thread safe, so one thread at a time
works on one ServicePoint (`InUse`). When `respond` throws in
`removedMethodHandler`, it returns false and the answer is luna's (`refused`);
the directory does not tell that from `removed`.

The abstract `MethodDirectory` gives each method an owner. It allows the
owner `pending` from `registerCategoryAppend` to `setMethodData`: a request in
that window is refused ("Should never happen", `servicepoint.cpp` 283).

### PersistentSubscription

Each `subscribe` is a generation; `mResultHandler`, `mCallback`, `watch` (luna's
registration) and `madeBy[c]` name the one they belong to, so that a mix-up
shows. `Subscribe` is `cancel()`, `RegisterStatus` the registration at luna,
which may call back at once (`DispatchStatus` while `pc = "registering"`), and
`StoreCookie` its end. `serving` are the calls the *present* instance of the
service answers: a service that goes down fails the calls it has, and a
new instance knows nothing of them. `notes` are queued apart from `inbox`, and
luna may report one state twice. `CancelFails`, `RegisterFails` and
`StatusThrows` are the three failures of luna calls. The class is for one thread,
so client code runs on the loop and in handlers.

### SignalSubscription

`first[s]` is the shared flag of the wrapper, `sent` and `delivered` are history.
`Waiting(s)` is the queue without the answer of the hub, which can only be first.
`Dispatch` is the wrapper, called through `handleLunaResponse` whose
classification is `Success`; `HandlerEnds` has one alternative per way out of the
handler (return and three catch clauses).

### JsonParser

Each method of a chain is an action: `Get` (the four lookups, chosen by
`request`), `Optional`, `AllowNull`, `DefaultValue`, `Check`, `EndField` (the
destructor of the context) in any order and any number, then the next field,
`GetObject`, `ClearError` or `FinishParse`. `CopyContext` is the copy
constructor; `_valueNull`, which it leaves uninitialized, becomes any value.
`operator bool` does what the destructor does, and the destructor then finds
nothing new, so `EndField` stands for both. A context that has a name and is
modified after it was tested is outside the model.

Numbers are stored doubled, which makes halves integers. The widths are constants:
8, 16 and (unsigned) 32 bits are `Narrow`, the signed type they are read through
is `Wide`, 64 unsigned bits are `Long`, 53 bits of double are `Mantissa`.
`DoubleOf` is rounding to nearest even at that mantissa. What pbnjson leaves open
(does it flag a double it rounded; is an invalid `JValue` null) is the
nondeterministic `Library`.

The reference is `Valid`, what the header says of a field, and `Expected`, the
value a convertible field stands for. `Values` are the values of fields and their
parts. `DocumentsAssumption` says that they are values, and that documents have
finitely many fields. `ParserAssumption` states of the widths what arithmetic on
powers of two gives: the powers used are positive integers, a narrow type is
contained in the one it is read through, and the greatest uint64 rounds up to
the next power. TLC evaluates it for the scaled widths; it holds for
(`Narrow`, `Wide`) = (8, 32), (16, 32), (32, 64) with `Long` 64 and `Mantissa` 53.

`Disputed` lists the
fields on which the code and the header are known to disagree (section 3); each
entry of the list is needed, since without it the run fails.

## 3. Runs

| Run | Bounds | Shows |
|---|---|---|
| `calls_loop` | 2 calls, 2 replies each, one thread | On the loop alone, handlers included, the code refines `CallContract` and uses no freed object. |
| `calls_cancel_anywhere` | 3 calls, a second cancelling thread | Ownership, live contexts, one reply for one-reply calls, a clean `mCalls` and silence after destruction survive cancels on another thread. |
| `calls_make_anywhere` | 2 calls, a second thread that calls and deletes | Ownership, silence after cancel and the eventual answer survive replies that overtake the end of `makeCall` and a destructor that runs beside the loop. |
| `handler_after_cancel` | 2 calls, a second cancelling thread | **violated**: see findings. |
| `topic_deduplicated` | 2 subscribers, the replies to one of which may throw, 2 payloads, 3 posts, one posting thread | Refines `Topic`: payloads arrive in order, none twice, and only a failing reply keeps one back. Those who left are noticed and removed; all that missed nothing converge to `mPreviousPayload`; accepted posts are sent even after deletion. |
| `topic_two_posters` | 1 subscriber, 2 payloads, 3 posts, two posting threads | **violated**: see findings. |
| `requests` | 3 workers, 3 replies | Functions called and dropped at any time: every handled request is answered; one not deferred has exactly one reply if `handleLunaCall` reports it handled and none otherwise; and the stock error follows no reply that was recorded. |
| `methods` | 2 ServicePoints, 2 methods, 2 requests, registrations on the loop and one other thread, luna may fail | Refines `MethodDirectory`; luna and running handlers never hold a freed `MethodInfo`; every request is answered. |
| `persistent` | 3 generations, 5 changes of the service, 2 queued responses | One call open at most, responses go to their own handler, luna's status context is alive, and a service that stays up ends up serving the subscription. |
| `termination` | 1 generation, 2 changes | **violated**: see findings. |
| `signals` | 2 subscribers, 2 payloads, 2 signals | Handlers see every signal in order and never the answer; a hub error is reported, once and last; deliveries go on after handlers that throw. |
| `parser` | 2 keys, documents of one field of 29 kinds and one lookup, or of two fields and two lookups, `Narrow` 2, `Wide` 4, `Long` 5, `Mantissa` 3 | Apart from the disputed fields, acceptance, error and destination are those of the header; so is strict mode, up to one field for each repeated lookup. |

Why the bounds are enough: two calls let one be answered while the other is
made, cancelled or destroyed, and a third lets cancels meet both; two
replies are the second reply a one-reply call must not see. Two subscribers and
two payloads make order and the return of an earlier payload visible, with three
posts for A, B, A. One loop and one other thread are the races of two parties;
the code has no three-party handshake. Two ServicePoints and two methods let a
destructor be half way while another point registers. Three generations are a
subscription, its replacement, and one more in a handler; five changes of the
service let it restart twice and be down again. For the parser one document
field per value is enough, as fields influence each other only through the first error,
the count and `clearError`, for which two fields serve; the numbers are those on
and next to every limit of the scaled widths, and `Long` - `Mantissa` leaves a
rounding gap as 64 - 53 does. No run bounds anything else; threads may
always choose to stop, so deadlock is not checked.

**Fairness.** `ServiceCalls`: a thread inside `makeCall` goes on and
`callResponseHandler` and the handlers return (WF); luna answers every call at
least once, with an error if the service does not (WF on the first reply; the
comment of `callOneReply` relies on it); the loop serves its queue in order, so
no reply is passed over for ever (SF on `Dispatch`: the loop is busy in between).
`SubscriptionPoint`: threads inside a method go on (WF), the main loop serves
sources and notifications (SF, since the loop may be inside another callback
whenever one is due). `JsonRequest`: `handleLunaCall` goes on (WF).
`ServiceMethods`: callbacks, the destructor and `registerMethod` go on (WF),
requests are dispatched in their turn and handlers return (SF, since the thread
they run on does other things in between). `PersistentSubscription`: `subscribe`
goes on (WF), handlers return and notifications are dispatched (SF, for the same
reason). `SignalSubscription`: a handler ends (WF), queued responses are
dispatched (SF). Nothing is
assumed about what client code decides: that functions are eventually dropped is
the premise of `EventuallyReplied`, not fairness.

### What disagrees with the comments

`findings` in `PROJECT.json` gives source lines and quotes.

- *Handler after cancel*: `callResponseHandler` copies the handler and runs it
  without another look, so a `cancelCall` that returned on another thread in
  between does not stop it. The same window lets it use a freed `Call` object
  (set `Cancellers = {loop, app}` in `calls_loop`: `FrameContextLive` fails),
  and a destructor on another thread does it too, as the TODO at
  `servicepoint.cpp` 41 fears.
- *Two posters*: `post` takes its snapshot and remembers the payload under the
  lock, and attaches the source after it. Of two threads that post together the
  later one may attach first: the subscriber ends at the older payload, and a
  repost of the newer one is suppressed.
- *Failed response lost*: on termination of the service the status notification
  and the failed response race; when the first wins, `onServiceStatusResponse`
  cancels the call and the handler is not told, although
  `persistentsubscription.hpp` 28 promises it.

More races, each reproduced by setting constants of a run (no run of their own):

- *Token read twice* (`calls_cancel_anywhere` with `Callers = {app}`,
  `BusContextLive`): `cancelCall(Call*)` cancels token 0 at luna but erases the
  real token, and luna keeps a freed context. If both reads come before the
  assignment, luna keeps the call open and the next reply runs a one-reply
  handler again; if `mCalls[token]` comes last, the answered call stays tracked
  (`OneReplyOnce`, `FinishedNotTracked` fail).
- *Deletion beside the loop* (`calls_make_anywhere`, `NoHandlerAfterDestroy`
  instead of its properties): a handler that was copied runs after the destructor
  returned.
- *Subscription added off the loop* (`Adders = {app}`, `LeavingIsNoticed`): a
  client that goes down between `status.set` and `push_back` is looked up too
  early and stays listed.
- *One method, two ServicePoints* (`methods` with `Shared = TRUE`,
  `ImplementsDirectory`): the check for duplicates sees one ServicePoint; deleting
  either replaces the route of the other by the "removed" error.
- *ServicePoint deleted in a method handler* (`methods` with
  `SelfDelete = TRUE`, `FrameInfoLive`): `handleLunaCall` gets the handler by
  reference, so the closure that runs is destroyed. `callResponseHandler`
  copies it for this reason.

- *Stock error after a reply*: `StockOnlyIfSilent` excepts `early` replies. Line
  84 of `jsonrequest.cpp` forgets them, and the destructor sends the error after
  a real reply; `jsonrequest.hpp` 171 says `mResponded` is "If at least one
  response is sent back." Without the exception `requests` fails.
- *Disputed fields of the parser.* A uint64 goes through a double, so that an
  integer past the mantissa is refused or changed (as pbnjson does or does not flag it),
  and 2^64 passes, since `UINT64_MAX` is compared as a double that rounds up;
  the cast is then undefined (`jsonparser.cpp` 219). `getFromString`, `getAndMap`
  and `getArray` read the field by an inner `get(...).optional()`, which records
  an error for null before the caller's `allowNull` is seen. `getFromString` of
  text that is not JSON depends on whether an invalid `JValue` is null. A
  `JsonParseContext` that is copied (`auto field = parser.get(...).optional()`)
  has an uninitialized `_valueNull` (`jsonparser.hpp` 446): an absent
  optional field may be reported as null, and a null one pass.

Seen while modelling, without a run of their own because one line of code shows
them: with deduplication `post` returns true for a payload that a subscriber
added since has never had (`subscriptionpoint.cpp` 98); one reply that throws
makes later subscribers miss the post (54-63); the destructor leaves pending
messages to be sent afterwards rather than "before deletion"
(`subscriptionpoint.hpp` 118); the replies in the catch clauses of
`handleLunaCall` are themselves outside a `try` (`jsonrequest.cpp` 91, 96), so
an `LS::Error` can leave it, and one thrown from the destructor (line 41)
terminates the program. `getArray` of something that is no array marks the field
as read (`jsonparser.hpp` 773); int32 and int64 write the destination before
they fail (`jsonparser.cpp` 177, 204); errors of the parser that `getObject`
returns stay in that parser; strict mode counts a field twice that is looked up
twice (302), so that each repeated lookup can hide one unknown field, or be
objected to where none is: `StrictFindsUnknown` says that it is never more. A
`PersistentSubscription` cancelled in its own handler destroys the closure that
runs (`persistentsubscription.cpp` 73, 114); `cancel` that throws (75) leaves the
call open without a handler until the next `cancel`, and terminates the program
in the destructor. `subscribeToSignal` swallows a refusal that comes as
`returnValue:false` without hub error, because `isSuccess` does not look at
`returnValue`, whatever `jsonresponse.hpp` 106 says. Its member-function overload
(`servicepoint.hpp` 315) calls a `callSignal` that does not exist.

## 4. Proofs

Seven modules hold theorems, checked to the last leaf by TLAPS. Every safety
property of a run that passes, and each of the three refinements, is stated by a
theorem, for every value of the constants: any number of calls, subscribers,
requests, threads, documents. The theorems assume the named assumption of
their module and nothing else; the confinement one needs is in its statement. An
assumption on data says that constants have the right type, that the value `None`
or the loop is not also a member of another set, and, for the parser, what
section 2 describes.

**`ServiceCallsProofs`** (`CallsAssumption`)

| Theorem | Confinement | Argument |
|---|---|---|
| `TypeCorrect` | none | inductive |
| `OwnershipHolds` | none | with `Fresh`: an unused name has no object; otherwise `LSCall` could make a second owner |
| `CancelIsFinal` | cancelCall on the loop | with `CancelledOver`: a cancelled call is closed at luna, has no queued reply, and is not between dispatch and `InvokeHandler`; the loop can cancel only outside that stretch |
| `OneReplyIsOne`, `FinishedLeaveMap`, `ContextOutlivesCall` | calls made on the loop | with `OneReplyOver`: a call the loop does not hold in `making` has its token, so the clean-up before the handler closes it at luna and erases it |
| `DestroyIsFinal` | calls and deletion on the loop | with `GoneIsQuiet`: after deletion no call with a handler is open and no frame is before `InvokeHandler` |
| `FrameContextIsLive` | all on the loop | with `FrameTracked`: the dispatched call is in `mCalls` as long as the code reads it |
| `CodeImplementsContract` | all on the loop | the three invariants above together give every step's image in `CallContract` |

**`SubscriptionPointProofs`** (`SubscriptionAssumption`)

| Theorem | Confinement | Argument |
|---|---|---|
| `TypeCorrect` | none | inductive |
| `LeavingIsNoticedHolds` | subscriptions added on the loop | with `Listing`: a subscriber is added by one thread, and owed nothing before it is listed; and `AddedOnLoop`: one that is listed or being added is registered, and if it left, its notification is queued. No callback runs between `status.set` and `push_back` |
| `ConvergedHolds` | one posting thread, any replies may fail | `Complete`: what is owed is exactly what was served, then what is pending, then the snapshot in hand, and the last reply is the last payload served unless that was missed; with `Remembered`: the last payload owed to a listed subscriber is the one duplicates are compared with |
| `SubscriptionImplementsTopic` | as above | the same invariant; `Snapshot` is `Post`, `PushSubscription` is `Join`, a main loop source is one `Deliver` for all its subscribers, those served and those that lose the payload, the callbacks and the destructor are `Leave`, the other steps stutter |

**`JsonRequestProofs`** (`RequestAssumption`)

| Theorem | Confinement | Argument |
|---|---|---|
| `TypeCorrect` | none | inductive |
| `NoSilenceHolds`, `OneReplyHolds`, `StockOnlyIfSilentHolds` | none | `Lifetime` ties the owners of the object and its flags to the point `handleLunaCall` has reached; `Sent` says which replies there are at that point: none before the handler ends unless a deferred function sent them, and a stock error only from the destructor |

**`ServiceMethodsProofs`** (`MethodsAssumption`)

| Theorem | Confinement | Argument |
|---|---|---|
| `TypeCorrect` | none | inductive |
| `RouteToLiveHolds` | none, shared methods and deletion in a handler included | `RouteOwned`: luna's data of a method belong to a point that has the method and is not past its unregistration; `SetupOK`: one thread at a time uses a point, which has not got in `mMethods` what it registers and still has what it unregisters |
| `FrameInfoLiveHolds` | no handler deletes its own ServicePoint | with `FrameOwned`: the `MethodInfo` of a running callback is in `mMethods` of a point the loop is not destroying |
| `MethodsImplementDirectory` | one ServicePoint per method | with `OnePoint`: the route of a registered method is its point's until its unregistration starts, and the "removed" callback afterwards |

**`PersistentSubscriptionProofs`** (`PersistentAssumption`)

| Theorem | Confinement | Argument |
|---|---|---|
| `TypeCorrect`, `StatusContextLiveHolds`, `OneCallOpenHolds`, `HandlerMatchesCallHolds` | none, each luna call may fail | `Registration`: when there is a cookie and a callback behind luna's registration; `Routing`: registration, handler and call that remain after a failed `cancel` or a failed registration stem from one `subscribe` |

**`SignalSubscriptionProofs`** (`SignalAssumption`)

| Theorem | Confinement | Argument |
|---|---|---|
| `TypeCorrect` | none | inductive |
| `SignalsCompleteHolds` | none | `AnswerFirst`: the flag is set exactly as long as the hub's answer waits, which is at the head of the queue, or a refusal waits alone; `Given`: what was delivered followed by what waits is what was sent since the match |

**`JsonParserProofs`** (`DocumentsAssumption`, `ParserAssumption`)

| Theorem | Confinement | Argument |
|---|---|---|
| `TypeCorrect` | none | inductive, with `TypeInv`: a field found is counted once, at its lookup |
| `StrictFindsUnknownHolds` | none | `Counting`: `numberOfFields` is the number of fields asked for that the document has, and exceeds it by the number of repeated lookups at most; comparing cardinalities with the document gives the number of fields missed |
| `NoInvalidAcceptedHolds`, `ErrorNamesFirstInvalidHolds`, `DestinationTrustworthyHolds` | none | see below |

The last three rest on `ErrorInv`. While a chain is open, `OpenField` says that
the context holds what the lookup found and that an error, if there is one, is
the first flaw; when it is closed, `ClosedField` says the same of the verdicts.
What connects the two are lemmas on data: `NarrowMeaning`, `WideMeaning` and
`LongMeaning` (a conversion succeeds iff the number is an integer of the
destination's range, and gives that integer; for uint64 when a double can hold it
and it is not 2^64), `ConversionMeaning`, `GetMeaning` and `LookupMeaning` (the same for
each type and each of the four lookups, arrays of any length included), and
`FieldVerdict`: a field that is not disputed ends in an error iff the header rules
it out, whatever the order of the methods in its chain.

The confinements are needed. `handler_after_cancel` refutes
`NoHandlerAfterCancel` without its, `topic_two_posters` refutes `Converged`
without its, and the constants given in section 3 refute `LeavingIsNoticed` with
subscriptions added off the loop, `ImplementsDirectory` with shared methods,
`FrameInfoLive` with deletion in a handler, and the others as listed there.
`RouteToLive` is different: the race that breaks the directory never leaves luna
with a freed `MethodInfo`.

Only model-checked:

- liveness (`EventuallyAnswered` of both modules, `EventuallyRemoved`,
  `EventuallySent`, `EventuallyReplied`, `EventuallyResubscribed`,
  `EventuallyDelivered`): TLAPS cannot reason from fairness;
- the arithmetic in `ParserAssumption`: powers of two are defined by recursion
  and the rounding unit by `CHOOSE` over them, and facts about them for every
  width need induction over data; TLC evaluates them for the widths of the run;
- the three violations and the counterexamples of section 3, which are instances and
  need no proof.

## 5. Not modelled

- Errors that leave no trace (missing handle, invalid names): nothing to check.
- Destructors of objects captured by handlers: `mCalls.erase` and `clear` run
  them under `mCallsMutex`, and one that calls `cancelCall` would deadlock.
- Copies of a `JsonParseContext` that live on while other fields are looked up.
- `ServerStatus` moved, or cancelled within its synchronous callback.
- `registerSignal`, which checks two names and passes them on.
- `setServiceHandle` after construction, the unlocked tests of `mServiceHandle`
  and `hasSubscribers`.
- Luna itself, JSON text, logging, formatting.

## 6. Plan

1. *Done*: `ServiceCalls` with its contract; `SubscriptionPoint` with
   `Topic`; `JsonRequest`; `ServiceMethods` with `MethodDirectory`;
   `PersistentSubscription`; `SignalSubscription`; `JsonParser`.
2. *Done*: type correctness, every safety property and every refinement as
   theorems.
3. *Open*: wider confinements, with what can still be promised there: a
   contract of calls that cancels on another thread do not break, and one of a
   publishing point that several posting threads implement (order per thread).
4. *Open*: the safety half of the liveness properties, as theorems: in every
   state something is on its way for each open call, unanswered request and
   accepted post.
