-------------------------- MODULE SubscriptionPoint --------------------------
(***************************************************************************)
(* One SubscriptionPoint (src/subscriptionpoint.cpp and its header) with   *)
(* the ServerStatus registration of every subscriber, the threads that     *)
(* post and add subscriptions, and the luna event loop, which sends the    *)
(* replies and brings the cancel and status notifications of the clients.  *)
(*                                                                         *)
(* A subscriber s is a subscription message: it stands for the             *)
(* SubscriptionItem and for the client that sent it.  mSubscriptions is    *)
(* kept as a set: the order of the vector is the order of the replies of   *)
(* one post to different clients, which no property looks at.              *)
(*                                                                         *)
(* An operator marked "Variant" is a wrong version of the definition that  *)
(* follows it; nothing in the specification uses it.                       *)
(***************************************************************************)
EXTENDS Naturals, Sequences, FiniteSets

CONSTANTS Subs,            \* subscribers
          Payloads,        \* payloads that are posted
          Empty,           \* the initial mPreviousPayload, an empty string
          None,            \* no subscriber, no post
          Loop,            \* the thread of the luna event loop
          Adders,          \* threads that call addSubscription
          Posters,         \* threads that call post
          Deduplicate,     \* setDeduplicate was called with true
          FailingReplies,  \* subscribers whose respond may throw an LS::Error
          MaxPosts         \* bound: posts that pass the duplicate check

Threads == {Loop} \cup Adders \cup Posters

Post == [payload : Payloads, to : SUBSET Subs]

ASSUME SubscriptionAssumption ==
  /\ None \notin Subs \cup Post
  /\ Deduplicate \in BOOLEAN
  /\ FailingReplies \subseteq Subs
  /\ MaxPosts \in Nat

VARIABLES
  mServiceHandle,    \* it is set
  mSubscriptions,    \* the listed subscribers
  mPreviousPayload,
  alive,             \* the SubscriptionPoint exists
  adding,            \* adding[t]: the item t registered and has not pushed yet
  posting,           \* posting[t]: the snapshot t took and has not attached yet
  pending,           \* timeout sources attached to the main context
  client,            \* client[s]: "on", "cancelled" or "down"
  cancelDue,         \* cancel notifications the loop has not handled yet
  status,            \* status[s], its ServerStatus: "none", "set" or "over"
  received,          \* history: received[s], the replies sent to s
  owed,              \* history: owed[s], payloads snapshot while s was listed
  served,            \* history: how many of owed[s] sources have run for
  missed,            \* history: those the last of these sources sent nothing
  posts              \* the number of snapshots taken

itemVars == <<mServiceHandle, mSubscriptions, status, adding>>
clientVars == <<client, cancelDue>>
postVars == <<mPreviousPayload, posting, pending, posts>>
sentVars == <<received, served, missed>>
history == <<sentVars, owed>>
vars == <<itemVars, alive, clientVars, postVars, history>>

(* Type invariant.                                                         *)
TypeOK ==
  /\ mServiceHandle \in BOOLEAN
  /\ mSubscriptions \subseteq Subs
  /\ mPreviousPayload \in Payloads \cup {Empty}
  /\ alive \in BOOLEAN
  /\ adding \in [Threads -> Subs \cup {None}]
  /\ posting \in [Threads -> Post \cup {None}]
  /\ pending \in Seq(Post)
  /\ client \in [Subs -> {"on", "cancelled", "down"}]
  /\ cancelDue \subseteq Subs
  /\ status \in [Subs -> {"none", "set", "over"}]
  /\ received \in [Subs -> Seq(Payloads)]
  /\ owed \in [Subs -> Seq(Payloads)]
  /\ served \in [Subs -> Nat]
  /\ missed \subseteq Subs
  /\ posts \in 0 .. MaxPosts

-----------------------------------------------------------------------------
(* The constructor is given a service handle, or the first subscription    *)
(* provides it.                                                            *)
Init ==
  /\ mServiceHandle \in BOOLEAN
  /\ mSubscriptions = {}
  /\ mPreviousPayload = Empty
  /\ alive = TRUE
  /\ adding = [t \in Threads |-> None]
  /\ posting = [t \in Threads |-> None]
  /\ pending = << >>
  /\ client = [s \in Subs |-> "on"]
  /\ cancelDue = {}
  /\ status = [s \in Subs |-> "none"]
  /\ received = [s \in Subs |-> << >>]
  /\ owed = [s \in Subs |-> << >>]
  /\ served = [s \in Subs |-> 0]
  /\ missed = {}
  /\ posts = 0

(* t is not inside addSubscription or post.                                *)
Free(t) == adding[t] = None /\ posting[t] = None

-----------------------------------------------------------------------------
(* addSubscription *)

(* Up to status.set: the item exists, its ServerStatus is registered.      *)
RegisterStatus(t, s) ==
  /\ alive /\ Free(t)
  /\ status[s] = "none"
  /\ mServiceHandle' = TRUE
  /\ status' = [status EXCEPT ![s] = "set"]
  /\ adding' = [adding EXCEPT ![t] = s]
  /\ UNCHANGED <<mSubscriptions, alive, clientVars, postVars, history>>

(* status.set throws, and with it addSubscription: the item is freed, and  *)
(* only the service handle remains of the attempt.                         *)
RegisterStatusFails(t, s) ==
  /\ alive /\ Free(t)
  /\ status[s] = "none"
  /\ mServiceHandle' = TRUE
  /\ UNCHANGED <<mSubscriptions, status, adding, alive, clientVars, postVars, history>>

(* Variant: the unique_ptr is moved from before it is pushed.              *)
PushMovedItem(t) ==
  /\ adding[t] # None
  /\ adding' = [adding EXCEPT ![t] = None]
  /\ mSubscriptions' = mSubscriptions \cup {adding'[t]}
  /\ UNCHANGED <<mServiceHandle, status, alive, clientVars, postVars, history>>

(* The critical section: the item is pushed.                               *)
PushSubscription(t) ==
  /\ adding[t] # None
  /\ mSubscriptions' = mSubscriptions \cup {adding[t]}
  /\ adding' = [adding EXCEPT ![t] = None]
  /\ UNCHANGED <<mServiceHandle, status, alive, clientVars, postVars, history>>

-----------------------------------------------------------------------------
(* post *)

CanPost(t) == alive /\ mServiceHandle /\ Free(t)

(* Variant: the payload is not remembered.                                 *)
SnapshotForgets(t, p) ==
  /\ CanPost(t)
  /\ posts < MaxPosts
  /\ Deduplicate => p # mPreviousPayload
  /\ posting' = [posting EXCEPT ![t] = [payload |-> p, to |-> mSubscriptions]]
  /\ owed' = [s \in Subs |-> IF s \in mSubscriptions THEN Append(owed[s], p)
                                                     ELSE owed[s]]
  /\ posts' = posts + 1
  /\ UNCHANGED <<itemVars, alive, clientVars, mPreviousPayload, pending, sentVars>>

(* The critical section: duplicate check and snapshot.  (For a duplicate   *)
(* post returns true and changes nothing.)                                 *)
Snapshot(t, p) ==
  /\ CanPost(t)
  /\ posts < MaxPosts
  /\ Deduplicate => p # mPreviousPayload
  /\ mPreviousPayload' = IF Deduplicate THEN p ELSE mPreviousPayload
  /\ posting' = [posting EXCEPT ![t] = [payload |-> p, to |-> mSubscriptions]]
  /\ owed' = [s \in Subs |-> IF s \in mSubscriptions THEN Append(owed[s], p)
                                                     ELSE owed[s]]
  /\ posts' = posts + 1
  /\ UNCHANGED <<itemVars, alive, clientVars, pending, sentVars>>

(* g_source_attach, outside the lock: the main context runs sources of one *)
(* priority that are ready in the order they were attached.                *)
Attach(t) ==
  /\ posting[t] # None
  /\ pending' = Append(pending, posting[t])
  /\ posting' = [posting EXCEPT ![t] = None]
  /\ UNCHANGED <<itemVars, alive, clientVars, mPreviousPayload, posts, history>>

(* A source for the subscribers in to runs, and message.respond sends p to *)
(* those in S.                                                             *)
Respond(to, S, p) ==
  /\ received' = [s \in Subs |-> IF s \in S THEN Append(received[s], p)
                                            ELSE received[s]]
  /\ served' = [s \in Subs |-> IF s \in to THEN served[s] + 1 ELSE served[s]]
  /\ missed' = (missed \ S) \cup (to \ S)

(* Variant: the source sends to those who are listed when it runs.         *)
PostToCurrent ==
  /\ Free(Loop)
  /\ pending # << >>
  /\ Respond(Head(pending).to, mSubscriptions, Head(pending).payload)
  /\ pending' = Tail(pending)
  /\ UNCHANGED <<itemVars, alive, clientVars, mPreviousPayload, posting, posts, owed>>

(* postSubscriptions on the loop.  The try block is around the for loop:   *)
(* when one respond throws, those not yet served get nothing.              *)
PostSubscriptions ==
  /\ Free(Loop)
  /\ pending # << >>
  /\ LET data == Head(pending) IN
       \/ Respond(data.to, data.to, data.payload)
       \/ \E f \in data.to \cap FailingReplies : \E S \in SUBSET (data.to \ {f}) :
            Respond(data.to, S, data.payload)
  /\ pending' = Tail(pending)
  /\ UNCHANGED <<itemVars, alive, clientVars, mPreviousPayload, posting, posts, owed>>

-----------------------------------------------------------------------------
(* Clients, and the notifications luna brings to the loop *)

(* Erasing an item deletes it, and with it its ServerStatus.               *)
Remove(S) ==
  /\ mSubscriptions' = mSubscriptions \ S
  /\ status' = [s \in Subs |-> IF s \in S \cap mSubscriptions THEN "over"
                                                              ELSE status[s]]
  /\ UNCHANGED <<mServiceHandle, adding>>

(* The client cancels its subscription; luna notifies the service.         *)
ClientCancels(s) ==
  /\ status[s] # "none"
  /\ client[s] = "on"
  /\ client' = [client EXCEPT ![s] = "cancelled"]
  /\ cancelDue' = cancelDue \cup {s}
  /\ UNCHANGED <<itemVars, alive, postVars, history>>

ClientGoesDown(s) ==
  /\ status[s] # "none"
  /\ client[s] # "down"
  /\ client' = [client EXCEPT ![s] = "down"]
  /\ UNCHANGED <<itemVars, alive, cancelDue, postVars, history>>

(* Variant: the token is compared by address and never found.              *)
CancelNotFound(s) ==
  /\ alive /\ Free(Loop)
  /\ s \in cancelDue
  /\ cancelDue' = cancelDue \ {s}
  /\ UNCHANGED <<itemVars, client, alive, postVars, history>>

(* The cancel notification: the item with the unique token is erased.      *)
SubscriberCancelCB(s) ==
  /\ alive /\ Free(Loop)
  /\ s \in cancelDue
  /\ cancelDue' = cancelDue \ {s}
  /\ Remove({s})
  /\ UNCHANGED <<client, alive, postVars, history>>

(* Variant: the test of isUp is inverted.                                  *)
StatusIgnored(s) ==
  /\ Free(Loop)
  /\ client[s] = "down"
  /\ status[s] = "set"
  /\ status' = [status EXCEPT ![s] = "over"]
  /\ UNCHANGED <<mServiceHandle, mSubscriptions, adding, alive, clientVars,
                 postVars, history>>

(* A ServerStatus reports once that its client is down; the callback runs  *)
(* with isUp false.  (With isUp true it returns at once.)                  *)
SubscriberStatusCB(s) ==
  /\ Free(Loop)
  /\ client[s] = "down"
  /\ status[s] = "set"
  /\ mSubscriptions' = mSubscriptions \ {s}
  /\ status' = [status EXCEPT ![s] = "over"]
  /\ UNCHANGED <<mServiceHandle, adding, alive, clientVars, postVars, history>>

(* Variant: the destructor also drops the attached sources.                *)
DestroyPending ==
  /\ alive
  /\ \A t \in Threads : Free(t)
  /\ alive' = FALSE
  /\ cancelDue' = {}
  /\ pending' = << >>
  /\ Remove(mSubscriptions)
  /\ UNCHANGED <<client, mPreviousPayload, posting, posts, history>>

(* ~SubscriptionPoint: the cancel notification is removed, the items are   *)
(* deleted; sources that are attached stay attached.                       *)
Destroy ==
  /\ alive
  /\ \A t \in Threads : Free(t)
  /\ alive' = FALSE
  /\ cancelDue' = {}
  /\ Remove(mSubscriptions)
  /\ UNCHANGED <<client, postVars, history>>

-----------------------------------------------------------------------------
AddStep ==
  \E t \in Adders : \/ PushSubscription(t)
                    \/ \E s \in Subs : RegisterStatus(t, s) \/ RegisterStatusFails(t, s)

PostStep == \E t \in Posters : \/ Attach(t)
                               \/ \E p \in Payloads : Snapshot(t, p)

NoticeStep(s) == SubscriberCancelCB(s) \/ SubscriberStatusCB(s)

ClientStep == \E s \in Subs : ClientCancels(s) \/ ClientGoesDown(s)

Next == \/ AddStep \/ PostStep \/ PostSubscriptions
        \/ ClientStep \/ Destroy
        \/ \E s \in Subs : NoticeStep(s)

Spec == Init /\ [][Next]_vars

(* Threads that are inside a method are scheduled; the loop serves every   *)
(* source and every notification in its turn.  (Each of the two            *)
(* notifications of a subscriber comes once, so that fairness of           *)
(* NoticeStep is fairness of both.)                                        *)
Fairness ==
  /\ \A t \in Threads : WF_vars(PushSubscription(t) \/ Attach(t))
  /\ SF_vars(PostSubscriptions)
  /\ \A s \in Subs : SF_vars(NoticeStep(s))

FairSpec == Spec /\ Fairness

-----------------------------------------------------------------------------
(* Properties *)

Quiet == pending = << >> /\ \A t \in Threads : posting[t] = None

(* A listed subscriber whose client has cancelled or gone down still has a *)
(* notification to come that removes it: addSubscription, the two          *)
(* callbacks and the order they run in lose no client that leaves.         *)
LeavingIsNoticed ==
  \A s \in mSubscriptions :
    client[s] # "on" => \/ s \in cancelDue
                        \/ client[s] = "down" /\ status[s] = "set"

(* A client that leaves is eventually taken off mSubscriptions.            *)
EventuallyRemoved ==
  \A s \in Subs : client[s] # "on" ~> s \notin mSubscriptions

(* With deduplication: once all posts are sent, every subscriber that was  *)
(* listed for some post, and has not missed the last of these because a    *)
(* reply failed, has mPreviousPayload as its last reply, so that           *)
(* suppressing a repetition of it loses nothing.                           *)
Converged ==
  Deduplicate /\ Quiet =>
    \A s \in mSubscriptions \ missed :
      owed[s] # << >> => /\ received[s] # << >>
                         /\ received[s][Len(received[s])] = mPreviousPayload

(* For every post that was accepted a source eventually runs and sends it  *)
(* to the subscribers it was taken for, also when the SubscriptionPoint is *)
(* destroyed meanwhile.                                                    *)
EventuallySent ==
  \A s \in Subs : served[s] < Len(owed[s]) ~> served[s] = Len(owed[s])

TopicContract == INSTANCE Topic WITH members <- mSubscriptions

(* Every subscriber gets the payloads posted while it is listed, in their  *)
(* order, but for those that a failing reply keeps back.                   *)
ImplementsTopic == TopicContract!Spec
=============================================================================
