---------------------- MODULE SubscriptionPointProofs -----------------------
(***************************************************************************)
(* Theorems about SubscriptionPoint for every set of subscribers, payloads *)
(* and threads, whichever replies fail.  Which threads add subscriptions   *)
(* and post are the hypotheses of the theorems that need them.             *)
(***************************************************************************)
EXTENDS SubscriptionPoint, SequenceTheorems, TLAPS

-----------------------------------------------------------------------------
(* The invariants.                                                         *)

\* addSubscription has registered the status of s and not yet pushed s.
Adding(s) == \E t \in Threads : adding[t] = s

(* A subscriber is added once, by one thread, and nothing is owed to it    *)
(* before it is listed.                                                    *)
Listing ==
  /\ \A t, u \in Threads : adding[t] # None /\ adding[t] = adding[u] => t = u
  /\ \A s \in Subs : status[s] = "none" => ~Adding(s) /\ client[s] = "on"
  /\ \A s \in Subs : status[s] = "none" \/ Adding(s) =>
                       s \notin mSubscriptions /\ owed[s] = << >>

(* Subscriptions are added on the loop: between the registration and the   *)
(* push no callback runs.                                                  *)
AddedOnLoop ==
  /\ \A t \in Threads \ {Loop} : adding[t] = None
  /\ \A s \in Subs : s \in mSubscriptions \/ Adding(s) =>
       /\ status[s] = "set"
       /\ client[s] = "cancelled" => s \in cancelDue

\* The snapshot a posting thread has taken includes s.
InHand(s) == \E t \in Threads : posting[t] # None /\ s \in posting[t].to

OnePoster(t) == \A u \in Threads \ {t} : posting[u] = None

(* One thread posts.  Every payload owed to s has been served, is pending  *)
(* or is in the hands of this thread, in this order: dueAs counts how many *)
(* payloads have been served to s after so many sources.  If s did not     *)
(* miss the last one that was served, it is its last reply.                *)
Counted(s, dueAs) ==
  /\ dueAs[0] = served[s]
  /\ \A i \in 1 .. Len(pending) :
       IF s \in pending[i].to
       THEN dueAs[i] = dueAs[i - 1] + 1 /\ pending[i].payload = owed[s][dueAs[i]]
       ELSE dueAs[i] = dueAs[i - 1]
  /\ Len(owed[s]) = dueAs[Len(pending)] + IF InHand(s) THEN 1 ELSE 0
  /\ \A t \in Threads : posting[t] # None /\ s \in posting[t].to =>
       posting[t].payload = owed[s][Len(owed[s])]
  /\ served[s] > 0 /\ s \notin missed =>
       received[s] # << >> /\ received[s][Len(received[s])] = owed[s][served[s]]

Complete(s) ==
  \E dueAs \in [0 .. Len(pending) -> 0 .. Len(owed[s])] : Counted(s, dueAs)

(* The payload a listed subscriber is owed last is the one that duplicates *)
(* are compared with.                                                      *)
Remembered ==
  Deduplicate => \A s \in mSubscriptions :
                   owed[s] # << >> => owed[s][Len(owed[s])] = mPreviousPayload

-----------------------------------------------------------------------------
(* Types *)

LEMMA InitType == Init => TypeOK
<1> SUFFICES ASSUME Init PROVE TypeOK
  OBVIOUS
<1>1. pending \in Seq(Post) /\ << >> \in Seq(Payloads)
  BY EmptySeq DEF Init
<1>2. posts \in 0 .. MaxPosts
  BY SubscriptionAssumption DEF Init
<1> QED
  BY <1>1, <1>2 DEF Init, TypeOK

LEMMA AppendOwed ==
  ASSUME TypeOK, NEW p \in Payloads, NEW S, NEW queue \in [Subs -> Seq(Payloads)]
  PROVE  [s \in Subs |-> IF s \in S THEN Append(queue[s], p) ELSE queue[s]]
           \in [Subs -> Seq(Payloads)]
<1>1. \A s \in Subs : Append(queue[s], p) \in Seq(Payloads)
  BY AppendProperties
<1> QED
  BY <1>1

LEMMA PostType ==
  TypeOK /\ (PostStep \/ PostSubscriptions) => TypeOK'
<1> SUFFICES ASSUME TypeOK, PostStep \/ PostSubscriptions PROVE TypeOK'
  OBVIOUS
<1> USE DEF itemVars, clientVars, sentVars
<1>1. ASSUME NEW t \in Posters, Attach(t) PROVE TypeOK'
  <2>1. pending' \in Seq(Post)
    BY <1>1, AppendProperties DEF Attach, TypeOK, Threads
  <2> QED
    BY <1>1, <2>1 DEF Attach, TypeOK, history, Threads
<1>2. ASSUME NEW t \in Posters, NEW p \in Payloads, Snapshot(t, p) PROVE TypeOK'
  <2>1. owed' \in [Subs -> Seq(Payloads)]
    BY <1>2, AppendOwed DEF Snapshot, TypeOK
  <2>2. posting' \in [Threads -> Post \cup {None}]
    BY <1>2 DEF Snapshot, TypeOK, Threads, Post
  <2>3. posts' \in 0 .. MaxPosts
    BY <1>2, SubscriptionAssumption DEF Snapshot, TypeOK
  <2> QED
    BY <1>2, <2>1, <2>2, <2>3 DEF Snapshot, TypeOK
<1>3. CASE PostSubscriptions
  <2>1. Head(pending) \in Post /\ Tail(pending) \in Seq(Post)
    BY <1>3, HeadTailProperties DEF PostSubscriptions, TypeOK
  <2>2. Head(pending).payload \in Payloads /\ Head(pending).to \subseteq Subs
    BY <2>1 DEF Post
  <2>3. PICK S : Respond(Head(pending).to, S, Head(pending).payload)
    BY <1>3 DEF PostSubscriptions
  <2>4. received' \in [Subs -> Seq(Payloads)]
    BY <2>2, <2>3, AppendOwed DEF Respond, TypeOK
  <2>5. served' \in [Subs -> Nat] /\ missed' \subseteq Subs
    BY <2>2, <2>3 DEF Respond, TypeOK
  <2> QED
    BY <1>3, <2>1, <2>4, <2>5 DEF PostSubscriptions, TypeOK
<1> QED
  BY <1>1, <1>2, <1>3 DEF PostStep

LEMMA NextType == TypeOK /\ [Next]_vars => TypeOK'
<1> SUFFICES ASSUME TypeOK, [Next]_vars PROVE TypeOK'
  OBVIOUS
<1> USE DEF TypeOK, itemVars, clientVars, postVars, history, sentVars, Threads
<1>1. ASSUME NEW t \in Adders, PushSubscription(t) PROVE TypeOK'
  <2>1. adding[t] \in Subs
    BY <1>1 DEF PushSubscription
  <2> QED
    BY <1>1, <2>1 DEF PushSubscription
<1>2. ASSUME NEW t \in Adders, NEW s \in Subs, RegisterStatus(t, s) PROVE TypeOK'
  BY <1>2 DEF RegisterStatus
<1>f. ASSUME NEW t \in Adders, NEW s \in Subs, RegisterStatusFails(t, s) PROVE TypeOK'
  BY <1>f DEF RegisterStatusFails
<1>3. CASE ClientStep
  BY <1>3 DEF ClientStep, ClientCancels, ClientGoesDown
<1>4. CASE Destroy
  BY <1>4 DEF Destroy, Remove
<1>5. ASSUME NEW s \in Subs, SubscriberCancelCB(s) PROVE TypeOK'
  BY <1>5 DEF SubscriberCancelCB, Remove
<1>6. ASSUME NEW s \in Subs, SubscriberStatusCB(s) PROVE TypeOK'
  BY <1>6 DEF SubscriberStatusCB
<1>7. CASE UNCHANGED vars
  BY <1>7 DEF vars
<1> HIDE DEF TypeOK, itemVars, clientVars, postVars, history, sentVars, Threads
<1> QED
  BY <1>1, <1>2, <1>f, <1>3, <1>4, <1>5, <1>6, <1>7, PostType
  DEF Next, AddStep, NoticeStep

(* Every state of the model has the types of SubscriptionPoint and luna.   *)
THEOREM TypeCorrect == Spec => []TypeOK
BY InitType, NextType, PTL DEF Spec

-----------------------------------------------------------------------------
(* Who is listed *)

LEMMA InitListing == Init => Listing
BY SubscriptionAssumption DEF Init, Listing, Adding

LEMMA NextListing == TypeOK /\ Listing /\ [Next]_vars => Listing'
<1> SUFFICES ASSUME TypeOK, Listing, [Next]_vars PROVE Listing'
  OBVIOUS
<1> USE DEF itemVars, clientVars, postVars, history, sentVars
<1>1. ASSUME NEW t \in Adders, PushSubscription(t) PROVE Listing'
  <2> DEFINE s == adding[t]
  <2>1. t \in Threads /\ s \in Subs
    BY <1>1 DEF PushSubscription, TypeOK, Threads
  <2>2. adding' = [adding EXCEPT ![t] = None] /\ adding \in [Threads -> Subs \cup {None}]
    BY <1>1 DEF PushSubscription, TypeOK
  <2>3. \A u \in Threads : adding'[u] = IF u = t THEN None ELSE adding[u]
    BY <2>1, <2>2
  <2>4. \A u \in Threads : adding'[u] # s
    BY <2>1, <2>3, SubscriptionAssumption DEF Listing
  <2>5. \A r \in Subs : Adding(r)' => Adding(r) /\ r # s
    BY <2>3, <2>4, SubscriptionAssumption DEF Adding
  <2>6. Adding(s)
    BY <2>1 DEF Adding
  <2>7. mSubscriptions' = mSubscriptions \cup {s} /\ UNCHANGED <<status, client, owed>>
    BY <1>1 DEF PushSubscription
  <2>8. \A r \in Subs : status'[r] = "none" => r # s
    BY <2>1, <2>6, <2>7 DEF Listing
  <2>9. (\A r, u \in Threads : adding[r] # None /\ adding[r] = adding[u] => r = u)'
    BY <2>3 DEF Listing
  <2> HIDE DEF s
  <2> QED
    BY <2>5, <2>7, <2>8, <2>9 DEF Listing
<1>2. ASSUME NEW t \in Adders, NEW s \in Subs, RegisterStatus(t, s) PROVE Listing'
  <2>1. t \in Threads /\ status[s] = "none" /\ ~Adding(s)
    BY <1>2 DEF RegisterStatus, Threads, Listing
  <2>2. adding' = [adding EXCEPT ![t] = s] /\ status' = [status EXCEPT ![s] = "set"]
    BY <1>2 DEF RegisterStatus
  <2>3. \A u \in Threads : adding'[u] = IF u = t THEN s ELSE adding[u]
    BY <2>1, <2>2 DEF TypeOK
  <2>4. \A r \in Subs : status'[r] = IF r = s THEN "set" ELSE status[r]
    BY <2>2 DEF TypeOK
  <2>5. \A r \in Subs : Adding(r)' => r = s \/ Adding(r)
    BY <2>3 DEF Adding
  <2>6. (\A r, u \in Threads : adding[r] # None /\ adding[r] = adding[u] => r = u)'
    BY <2>1, <2>3 DEF Listing, Adding
  <2>7. UNCHANGED <<mSubscriptions, client, owed>>
    BY <1>2 DEF RegisterStatus
  <2> QED
    BY <2>1, <2>4, <2>5, <2>6, <2>7 DEF Listing
<1>3. ASSUME NEW t \in Posters, NEW p \in Payloads, Snapshot(t, p) PROVE Listing'
  <2>1. \A s \in Subs : s \notin mSubscriptions => owed'[s] = owed[s]
    BY <1>3 DEF Snapshot
  <2>2. UNCHANGED <<adding, status, mSubscriptions, client>>
    BY <1>3 DEF Snapshot
  <2> QED
    BY <2>1, <2>2 DEF Listing, Adding
<1>4. CASE ClientStep
  <2>1. PICK s \in Subs : status[s] # "none" /\ \E c : client' = [client EXCEPT ![s] = c]
    BY <1>4 DEF ClientStep, ClientCancels, ClientGoesDown
  <2>2. UNCHANGED <<adding, status, mSubscriptions, owed>>
    BY <1>4 DEF ClientStep, ClientCancels, ClientGoesDown
  <2>3. \A r \in Subs : r # s => client'[r] = client[r]
    BY <2>1 DEF TypeOK
  <2> QED
    BY <2>1, <2>2, <2>3 DEF Listing, Adding
<1>5. CASE Destroy \/ \E s \in Subs : NoticeStep(s)
  <2>1. UNCHANGED <<adding, client, owed>> /\ mSubscriptions' \subseteq mSubscriptions
    BY <1>5 DEF Destroy, NoticeStep, SubscriberCancelCB, SubscriberStatusCB, Remove
  <2>2. \A s \in Subs : status'[s] = "none" => status[s] = "none"
    BY <1>5 DEF Destroy, NoticeStep, SubscriberCancelCB, SubscriberStatusCB, Remove, TypeOK
  <2> QED
    BY <2>1, <2>2 DEF Listing, Adding
<1>6. CASE \/ \E t \in Adders, s \in Subs : RegisterStatusFails(t, s)
           \/ (\E t \in Posters : Attach(t)) \/ PostSubscriptions \/ UNCHANGED vars
  BY <1>6 DEF RegisterStatusFails, Attach, PostSubscriptions, vars, Listing, Adding
<1> QED
  BY <1>1, <1>2, <1>3, <1>4, <1>5, <1>6 DEF Next, AddStep, PostStep

LEMMA NextAddedOnLoop ==
  ASSUME Adders = {Loop}
  PROVE  TypeOK /\ Listing /\ AddedOnLoop /\ [Next]_vars => AddedOnLoop'
<1> SUFFICES ASSUME TypeOK, Listing, AddedOnLoop, [Next]_vars PROVE AddedOnLoop'
  OBVIOUS
<1> USE DEF itemVars, clientVars, postVars, history, sentVars
<1>1. CASE AddStep /\ ~\E s \in Subs : RegisterStatusFails(Loop, s)
  <2>1. PICK s \in Subs \cup {None} : adding' = [adding EXCEPT ![Loop] = s]
    BY <1>1 DEF AddStep, PushSubscription, RegisterStatus
  <2>2. \A t \in Threads \ {Loop} : adding'[t] = None
    BY <2>1 DEF AddedOnLoop, TypeOK
  <2>3. CASE PushSubscription(Loop)
    <3>1. adding[Loop] \in Subs /\ Adding(adding[Loop]) /\ Loop \in Threads
      BY <2>3 DEF PushSubscription, TypeOK, Threads, Adding
    <3>2. \A t \in Threads : adding'[t] = None \/ adding'[t] = adding[t]
      BY <2>3 DEF PushSubscription, TypeOK
    <3>3. \A r \in Subs : Adding(r)' => Adding(r)
      BY <3>2, SubscriptionAssumption DEF Adding
    <3>4. mSubscriptions' = mSubscriptions \cup {adding[Loop]}
      BY <2>3 DEF PushSubscription
    <3>5. UNCHANGED <<status, client, cancelDue>>
      BY <2>3 DEF PushSubscription
    <3> QED
      BY <2>2, <3>1, <3>3, <3>4, <3>5 DEF AddedOnLoop
  <2>4. ASSUME NEW r \in Subs, RegisterStatus(Loop, r) PROVE AddedOnLoop'
    <3>1. UNCHANGED <<mSubscriptions, client, cancelDue>> /\ client[r] = "on"
      BY <2>4 DEF RegisterStatus, Listing
    <3>2. status'[r] = "set" /\ \A q \in Subs : status[q] = "set" => status'[q] = "set"
      BY <2>4 DEF RegisterStatus, TypeOK
    <3>3. \A q \in Subs : Adding(q)' => Adding(q) \/ q = r
      BY <2>4 DEF RegisterStatus, TypeOK, Adding
    <3> QED
      BY <2>2, <3>1, <3>2, <3>3 DEF AddedOnLoop
  <2> QED
    BY <1>1, <2>3, <2>4 DEF AddStep
<1>2. CASE ClientStep
  <2>1. UNCHANGED <<adding, status, mSubscriptions>>
    BY <1>2 DEF ClientStep, ClientCancels, ClientGoesDown
  <2>2. \A s \in Subs : client'[s] = "cancelled" => client[s] = "cancelled" \/ s \in cancelDue'
    BY <1>2 DEF ClientStep, ClientCancels, ClientGoesDown, TypeOK
  <2>3. cancelDue \subseteq cancelDue'
    BY <1>2 DEF ClientStep, ClientCancels, ClientGoesDown
  <2> QED
    BY <2>1, <2>2, <2>3 DEF AddedOnLoop, Adding
<1>3. CASE Destroy \/ \E s \in Subs : NoticeStep(s)
  <2>1. adding[Loop] = None /\ UNCHANGED <<adding, client>>
    BY <1>3 DEF Destroy, Free, Threads, NoticeStep, SubscriberCancelCB, SubscriberStatusCB, Remove
  <2>2. \A s \in Subs : ~Adding(s)'
    BY <2>1, SubscriptionAssumption DEF AddedOnLoop, Adding
  <2>3. \A s \in Subs : s \in mSubscriptions' =>
          /\ s \in mSubscriptions
          /\ status'[s] = status[s]
          /\ s \in cancelDue => s \in cancelDue'
    BY <1>3 DEF Destroy, NoticeStep, SubscriberCancelCB, SubscriberStatusCB, Remove, TypeOK
  <2> QED
    BY <2>1, <2>2, <2>3 DEF AddedOnLoop
<1>4. CASE \/ \E s \in Subs : RegisterStatusFails(Loop, s)
           \/ PostStep \/ PostSubscriptions \/ UNCHANGED vars
  <2>1. UNCHANGED <<adding, status, mSubscriptions, client, cancelDue>>
    BY <1>4 DEF RegisterStatusFails, PostStep, Attach, Snapshot, PostSubscriptions, vars
  <2> QED
    BY <2>1 DEF AddedOnLoop, Adding
<1> QED
  BY <1>1, <1>2, <1>3, <1>4 DEF Next, AddStep

(* Where subscriptions are added on the loop, every listed subscriber that *)
(* has left still has the notification to come that takes it off: no       *)
(* order of addSubscription, the callbacks and the client loses it.        *)
THEOREM LeavingIsNoticedHolds ==
  ASSUME Adders = {Loop}
  PROVE  Spec => []LeavingIsNoticed
<1>1. Init => AddedOnLoop
  BY SubscriptionAssumption DEF Init, AddedOnLoop, Adding
<1>2. TypeOK /\ AddedOnLoop => LeavingIsNoticed
  BY DEF AddedOnLoop, LeavingIsNoticed, TypeOK
<1> QED
  BY <1>1, <1>2, InitType, NextType, InitListing, NextListing, NextAddedOnLoop, PTL
  DEF Spec

-----------------------------------------------------------------------------
(* What is sent *)

LEMMA NextOnePoster ==
  ASSUME NEW poster, Posters = {poster}
  PROVE  TypeOK /\ OnePoster(poster) /\ [Next]_vars => OnePoster(poster)'
<1> SUFFICES ASSUME TypeOK, OnePoster(poster), [Next]_vars PROVE OnePoster(poster)'
  OBVIOUS
<1>1. CASE PostStep
  <2>1. PICK x : posting' = [posting EXCEPT ![poster] = x]
    BY <1>1 DEF PostStep, Attach, Snapshot
  <2> QED
    BY <2>1 DEF OnePoster, TypeOK
<1>2. CASE ~PostStep
  <2>1. posting' = posting
    BY <1>2 DEF Next, AddStep, PushSubscription, RegisterStatus, RegisterStatusFails,
                PostSubscriptions, ClientStep, ClientCancels, ClientGoesDown, Destroy,
                NoticeStep, SubscriberCancelCB, SubscriberStatusCB, vars, postVars
  <2> QED
    BY <2>1 DEF OnePoster
<1> QED
  BY <1>1, <1>2

(* The steps that neither post nor send leave the posts alone.             *)
LEMMA OtherStep ==
  [Next]_vars /\ ~PostStep /\ ~PostSubscriptions =>
    UNCHANGED <<mPreviousPayload, posting, pending, received, served, missed, owed>>
BY DEF Next, AddStep, PushSubscription, RegisterStatus, RegisterStatusFails, ClientStep,
       ClientCancels, ClientGoesDown, Destroy, NoticeStep, SubscriberCancelCB,
       SubscriberStatusCB, vars, postVars, history, sentVars

\* What a snapshot does to the payloads owed to s.
LEMMA SnapshotOwed ==
  ASSUME TypeOK, NEW poster \in Posters, NEW p \in Payloads, Snapshot(poster, p),
         OnePoster(poster), NEW s \in Subs
  PROVE  /\ ~InHand(s)
         /\ UNCHANGED <<pending, received, served, missed>>
         /\ InHand(s)' <=> s \in mSubscriptions
         /\ \A t \in Threads : posting'[t] # None /\ s \in posting'[t].to =>
              posting'[t].payload = p
         /\ s \in mSubscriptions =>
              /\ Len(owed'[s]) = Len(owed[s]) + 1
              /\ owed'[s][Len(owed'[s])] = p
              /\ \A k \in 1 .. Len(owed[s]) : owed'[s][k] = owed[s][k]
         /\ s \notin mSubscriptions => owed'[s] = owed[s]
<1>1. poster \in Threads /\ \A t \in Threads : posting[t] = None
  BY DEF OnePoster, Snapshot, CanPost, Free, Threads
<1>2. \A t \in Threads : posting'[t] = IF t = poster
                                       THEN [payload |-> p, to |-> mSubscriptions] ELSE None
  BY <1>1 DEF Snapshot, TypeOK
<1>3. [payload |-> p, to |-> mSubscriptions] # None
  BY SubscriptionAssumption DEF Post, TypeOK
<1>4. InHand(s)' <=> s \in mSubscriptions
  BY <1>1, <1>2, <1>3 DEF InHand
<1>5. owed'[s] = IF s \in mSubscriptions THEN Append(owed[s], p) ELSE owed[s]
  BY DEF Snapshot
<1>6. owed[s] \in Seq(Payloads)
  BY DEF TypeOK
<1>7. s \in mSubscriptions =>
        /\ Len(owed'[s]) = Len(owed[s]) + 1
        /\ owed'[s][Len(owed'[s])] = p
        /\ \A k \in 1 .. Len(owed[s]) : owed'[s][k] = owed[s][k]
  BY <1>5, <1>6, AppendProperties
<1>8. ~InHand(s) /\ UNCHANGED <<pending, received, served, missed>>
  BY <1>1 DEF InHand, Snapshot, sentVars
<1>9. \A t \in Threads : posting'[t] # None /\ s \in posting'[t].to =>
        posting'[t].payload = p
  BY <1>2
<1> QED
  BY <1>4, <1>5, <1>7, <1>8, <1>9

\* What attaching the source does.
LEMMA AttachPending ==
  ASSUME TypeOK, NEW poster \in Posters, Attach(poster), OnePoster(poster), NEW s \in Subs
  PROVE  /\ UNCHANGED <<received, served, missed, owed, mPreviousPayload, mSubscriptions>>
         /\ \A t \in Threads : posting'[t] = None
         /\ Len(pending') = Len(pending) + 1
         /\ pending'[Len(pending')] = posting[poster]
         /\ \A k \in 1 .. Len(pending) : pending'[k] = pending[k]
         /\ InHand(s) <=> s \in posting[poster].to
<1>1. poster \in Threads /\ posting[poster] # None
  BY DEF Attach, Threads
<1>2. \A t \in Threads : posting'[t] = None
  BY <1>1 DEF Attach, OnePoster, TypeOK
<1>3. InHand(s) <=> s \in posting[poster].to
  BY <1>1 DEF InHand, OnePoster
<1>4. pending \in Seq(Post) /\ posting[poster] \in Post /\ pending' = Append(pending, posting[poster])
  BY <1>1 DEF TypeOK, Attach
<1>5. /\ Len(pending') = Len(pending) + 1
      /\ pending'[Len(pending')] = posting[poster]
      /\ \A k \in 1 .. Len(pending) : pending'[k] = pending[k]
  BY <1>4, AppendProperties
<1> QED
  BY <1>2, <1>3, <1>5 DEF Attach, itemVars, history, sentVars

\* What one run of the source does.
LEMMA SourceRuns ==
  ASSUME TypeOK, PostSubscriptions, NEW s \in Subs
  PROVE  /\ UNCHANGED <<posting, owed, mPreviousPayload, mSubscriptions>>
         /\ Len(pending) \in Nat \ {0}
         /\ Len(pending') = Len(pending) - 1
         /\ \A k \in 1 .. Len(pending') : pending'[k] = pending[k + 1]
         /\ s \notin pending[1].to =>
              UNCHANGED <<received[s], served[s]>> /\ (s \in missed' <=> s \in missed)
         /\ s \in pending[1].to =>
              /\ served'[s] = served[s] + 1
              /\ s \notin missed' => /\ received'[s] # << >>
                                     /\ received'[s][Len(received'[s])] = pending[1].payload
<1>1. pending \in Seq(Post) /\ pending # << >> /\ pending' = Tail(pending)
  BY DEF PostSubscriptions, TypeOK
<1>2. Head(pending) = pending[1] /\ pending[1] \in Post
  BY <1>1, HeadTailProperties, ElementOfSeq, EmptySeq
<1>3. PICK S : /\ Respond(pending[1].to, S, pending[1].payload)
               /\ S \subseteq pending[1].to
  BY <1>2 DEF PostSubscriptions
<1>4. /\ Len(pending) \in Nat \ {0}
      /\ Len(pending') = Len(pending) - 1
      /\ \A k \in 1 .. Len(pending') : pending'[k] = pending[k + 1]
  BY <1>1, HeadTailProperties, LenProperties, EmptySeq
<1>5. received[s] \in Seq(Payloads) /\ pending[1].payload \in Payloads
  BY <1>2 DEF TypeOK, Post
<1>6. /\ received'[s] = IF s \in S THEN Append(received[s], pending[1].payload) ELSE received[s]
      /\ served'[s] = IF s \in pending[1].to THEN served[s] + 1 ELSE served[s]
      /\ missed' = (missed \ S) \cup (pending[1].to \ S)
  BY <1>3 DEF Respond
<1>7. s \in S => /\ received'[s] # << >>
                 /\ received'[s][Len(received'[s])] = pending[1].payload
  BY <1>5, <1>6, AppendProperties
<1> QED
  BY <1>3, <1>4, <1>6, <1>7 DEF PostSubscriptions, itemVars

-----------------------------------------------------------------------------
(* Every payload owed is served *)

LEMMA InitComplete == Init => \A s \in Subs : Complete(s)
<1> SUFFICES ASSUME Init, NEW s \in Subs PROVE Complete(s)
  OBVIOUS
<1>1. /\ served[s] = 0 /\ owed[s] = << >> /\ pending = << >>
      /\ ~InHand(s) /\ \A t \in Threads : posting[t] = None
  BY DEF Init, InHand
<1>2. PICK dueAs \in [0 .. Len(pending) -> 0 .. Len(owed[s])] : dueAs[0] = 0
  <2> DEFINE f == [i \in 0 .. Len(pending) |-> 0]
  <2>1. f \in [0 .. Len(pending) -> 0 .. Len(owed[s])] /\ f[0] = 0
    BY <1>1, EmptySeq
  <2> QED
    BY <2>1
<1>3. Counted(s, dueAs)
  BY <1>1, <1>2, EmptySeq DEF Counted
<1> QED
  BY <1>3 DEF Complete

(* With one posting thread, the payloads owed to s are those that have     *)
(* been served, those of the sources and the one in hand.                  *)
LEMMA NextComplete ==
  ASSUME NEW poster, Posters = {poster}, NEW s \in Subs
  PROVE  TypeOK /\ OnePoster(poster) /\ Complete(s) /\ [Next]_vars => Complete(s)'
<1> SUFFICES ASSUME TypeOK, OnePoster(poster), Complete(s), [Next]_vars PROVE Complete(s)'
  OBVIOUS
<1> PICK dueAs \in [0 .. Len(pending) -> 0 .. Len(owed[s])] : Counted(s, dueAs)
  BY DEF Complete
<1> DEFINE n == Len(owed[s])
           r == served[s]
           l == Len(pending)
<1>l. n \in Nat /\ r \in Nat /\ l \in Nat
  BY LenProperties DEF TypeOK
<1>d. /\ dueAs[0] = r /\ r <= n
      /\ \A i \in 0 .. l : dueAs[i] \in 0 .. n
      /\ \A i \in 1 .. l : s \in pending[i].to =>
           /\ dueAs[i] = dueAs[i - 1] + 1 /\ dueAs[i] \in 1 .. n
           /\ pending[i].payload = owed[s][dueAs[i]]
      /\ \A i \in 1 .. l : s \notin pending[i].to => dueAs[i] = dueAs[i - 1]
      /\ r > 0 /\ s \notin missed =>
           received[s] # << >> /\ received[s][Len(received[s])] = owed[s][r]
  <2>2. \A i \in 0 .. l : dueAs[i] \in 0 .. n
    BY <1>l
  <2>1. /\ dueAs[0] = r /\ r <= n
        /\ r > 0 /\ s \notin missed =>
             received[s] # << >> /\ received[s][Len(received[s])] = owed[s][r]
    BY <1>l, <2>2 DEF Counted
  <2>3. ASSUME NEW i \in 1 .. l, s \in pending[i].to
        PROVE  /\ dueAs[i] = dueAs[i - 1] + 1 /\ dueAs[i] \in 1 .. n
               /\ pending[i].payload = owed[s][dueAs[i]]
    <3>1. dueAs[i] \in 0 .. n /\ dueAs[i - 1] \in 0 .. n
      BY <1>l, <2>2
    <3>2. dueAs[i] = dueAs[i - 1] + 1 /\ pending[i].payload = owed[s][dueAs[i]]
      BY <2>3 DEF Counted
    <3> QED
      BY <1>l, <3>1, <3>2
  <2>4. \A i \in 1 .. l : s \notin pending[i].to => dueAs[i] = dueAs[i - 1]
    BY DEF Counted
  <2> QED
    BY <2>1, <2>2, <2>3, <2>4
<1>h. /\ InHand(s) => n = dueAs[l] + 1
      /\ ~InHand(s) => n = dueAs[l]
  BY <1>l, <1>d DEF Counted
<1>1. ASSUME NEW p \in Payloads, Snapshot(poster, p) PROVE Complete(s)'
  <2>1. CASE s \in mSubscriptions
    <3>1. dueAs \in [0 .. l -> 0 .. n + 1]
      BY <1>l
    <3>2. /\ UNCHANGED <<pending, received, served, missed>>
          /\ ~InHand(s) /\ InHand(s)'
          /\ Len(owed'[s]) = n + 1
          /\ owed'[s][n + 1] = p
          /\ \A k \in 1 .. n : owed'[s][k] = owed[s][k]
          /\ \A t \in Threads : posting'[t] # None /\ s \in posting'[t].to =>
               posting'[t].payload = p
      BY <1>1, <2>1, SnapshotOwed
    <3>3. \A i \in 1 .. l : s \in pending[i].to => pending[i].payload = owed'[s][dueAs[i]]
      BY <1>d, <3>2
    <3>4. r > 0 /\ s \notin missed =>
            received[s] # << >> /\ received[s][Len(received[s])] = owed'[s][r]
      BY <1>l, <1>d, <3>2
    <3>5. Len(owed'[s]) = dueAs[l] + 1
      BY <1>l, <1>d, <1>h, <3>2
    <3>6. Counted(s, dueAs)'
      BY <1>d, <3>2, <3>3, <3>4, <3>5 DEF Counted
    <3> QED
      BY <3>1, <3>2, <3>6 DEF Complete
  <2>2. CASE s \notin mSubscriptions
    <3>1. /\ UNCHANGED <<pending, received, served, missed>> /\ owed'[s] = owed[s]
          /\ ~InHand(s) /\ ~InHand(s)'
      BY <1>1, <2>2, SnapshotOwed
    <3>2. Counted(s, dueAs)'
      BY <3>1 DEF Counted, InHand
    <3> QED
      BY <3>1, <3>2 DEF Complete
  <2> QED
    BY <2>1, <2>2
<1>2. CASE Attach(poster)
  <2>1. /\ UNCHANGED <<received, served, missed, owed>>
        /\ \A t \in Threads : posting'[t] = None
        /\ Len(pending') = l + 1
        /\ pending'[l + 1] = posting[poster]
        /\ \A k \in 1 .. l : pending'[k] = pending[k]
        /\ InHand(s) <=> s \in posting[poster].to
    BY <1>2, AttachPending
  <2>2. poster \in Threads /\ posting[poster] # None /\ ~InHand(s)'
    BY <1>2, <2>1 DEF Attach, Threads, InHand
  <2>3. InHand(s) => posting[poster].payload = owed[s][n]
    BY <2>1, <2>2 DEF Counted
  <2>4. PICK newDue \in [0 .. l + 1 -> 0 .. n] :
          newDue[l + 1] = n /\ \A i \in 0 .. l : newDue[i] = dueAs[i]
    <3> DEFINE f == [i \in 0 .. l + 1 |-> IF i = l + 1 THEN n ELSE dueAs[i]]
    <3>1. f \in [0 .. l + 1 -> 0 .. n]
      BY <1>l
    <3>2. f[l + 1] = n /\ \A i \in 0 .. l : f[i] = dueAs[i]
      BY <1>l
    <3> QED
      BY <3>1, <3>2
  <2>5. \A i \in 1 .. l + 1 :
          IF s \in pending'[i].to
          THEN newDue[i] = newDue[i - 1] + 1 /\ pending'[i].payload = owed[s][newDue[i]]
          ELSE newDue[i] = newDue[i - 1]
    <3> TAKE i \in 1 .. l + 1
    <3>1. CASE i \in 1 .. l
      <4>1. i - 1 \in 0 .. l /\ i \in 0 .. l
        BY <1>l, <3>1
      <4>2. newDue[i] = dueAs[i] /\ newDue[i - 1] = dueAs[i - 1] /\ pending'[i] = pending[i]
        BY <2>1, <2>4, <3>1, <4>1
      <4> QED
        BY <1>d, <3>1, <4>2
    <3>2. CASE i = l + 1
      <4>1. newDue[i] = n /\ newDue[i - 1] = dueAs[l] /\ pending'[i] = posting[poster]
        BY <1>l, <2>1, <2>4, <3>2
      <4> QED
        BY <1>h, <2>1, <2>3, <4>1
    <3> QED
      BY <1>l, <3>1, <3>2
  <2>6. newDue[0] = r /\ n = newDue[l + 1] + 0
    BY <1>l, <1>d, <2>4
  <2>7. Counted(s, newDue)'
    BY <1>d, <2>1, <2>2, <2>5, <2>6 DEF Counted
  <2> QED
    BY <2>1, <2>7 DEF Complete
<1>3. CASE PostSubscriptions
  <2>1. /\ UNCHANGED <<posting, owed>>
        /\ l > 0
        /\ Len(pending') = l - 1
        /\ \A k \in 1 .. l - 1 : pending'[k] = pending[k + 1]
        /\ s \notin pending[1].to =>
             UNCHANGED <<received[s], served[s]>> /\ (s \in missed' <=> s \in missed)
        /\ s \in pending[1].to =>
             /\ served'[s] = r + 1
             /\ s \notin missed' => /\ received'[s] # << >>
                                    /\ received'[s][Len(received'[s])] = pending[1].payload
    BY <1>3, <1>l, SourceRuns
  <2>2. PICK newDue \in [0 .. l - 1 -> 0 .. n] :
          \A i \in 0 .. l - 1 : newDue[i] = dueAs[i + 1]
    <3> DEFINE f == [i \in 0 .. l - 1 |-> dueAs[i + 1]]
    <3>1. f \in [0 .. l - 1 -> 0 .. n] /\ \A i \in 0 .. l - 1 : f[i] = dueAs[i + 1]
      BY <1>l, <2>1
    <3> QED
      BY <3>1
  <2>3. InHand(s)' <=> InHand(s)
    BY <2>1 DEF InHand
  <2>4. \A i \in 1 .. l - 1 :
          IF s \in pending'[i].to
          THEN newDue[i] = newDue[i - 1] + 1 /\ pending'[i].payload = owed[s][newDue[i]]
          ELSE newDue[i] = newDue[i - 1]
    <3> TAKE i \in 1 .. l - 1
    <3>1. i + 1 \in 1 .. l /\ i \in 0 .. l - 1 /\ i - 1 \in 0 .. l - 1 /\ (i + 1) - 1 = i
          /\ (i - 1) + 1 = i
      BY <1>l, <2>1
    <3>2. newDue[i] = dueAs[i + 1] /\ newDue[i - 1] = dueAs[i] /\ pending'[i] = pending[i + 1]
      BY <2>1, <2>2, <3>1
    <3> QED
      BY <1>d, <3>1, <3>2
  <2>5. newDue[0] = served'[s]
    <3>1. newDue[0] = dueAs[1] /\ 1 \in 1 .. l /\ 1 - 1 = 0
      BY <1>l, <2>1, <2>2
    <3> QED
      BY <1>l, <1>d, <2>1, <3>1
  <2>6. served'[s] > 0 /\ s \notin missed' =>
          received'[s] # << >> /\ received'[s][Len(received'[s])] = owed[s][served'[s]]
    <3>1. CASE s \notin pending[1].to
      BY <1>d, <2>1, <3>1
    <3>2. CASE s \in pending[1].to
      <4>1. 1 \in 1 .. l /\ 1 - 1 = 0
        BY <2>1
      <4>2. pending[1].payload = owed[s][r + 1]
        BY <1>d, <3>2, <4>1
      <4> QED
        BY <2>1, <3>2, <4>2
    <3> QED
      BY <3>1, <3>2
  <2>7. /\ InHand(s) => n = newDue[l - 1] + 1
        /\ ~InHand(s) => n = newDue[l - 1] + 0
    BY <1>l, <1>d, <1>h, <2>1, <2>2
  <2>8. Counted(s, newDue)'
    <3>1. (\A t \in Threads : posting[t] # None /\ s \in posting[t].to =>
             posting[t].payload = owed[s][Len(owed[s])])'
      BY <2>1 DEF Counted
    <3> QED
      BY <2>1, <2>3, <2>4, <2>5, <2>6, <2>7, <3>1 DEF Counted
  <2> QED
    BY <2>1, <2>8 DEF Complete
<1>4. CASE ~PostStep /\ ~PostSubscriptions
  <2>1. UNCHANGED <<posting, pending, received, served, missed, owed>>
    BY <1>4, OtherStep
  <2>2. InHand(s)' <=> InHand(s)
    BY <2>1 DEF InHand
  <2>3. Counted(s, dueAs)'
    BY <2>1, <2>2 DEF Counted
  <2> QED
    BY <2>1, <2>3 DEF Complete
<1>5. CASE PostStep
  <2>1. CASE Attach(poster)
    BY <1>2, <2>1
  <2>2. CASE \E p \in Payloads : Snapshot(poster, p)
    BY <1>1, <2>2
  <2> QED
    BY <1>5, <2>1, <2>2 DEF PostStep
<1> QED
  BY <1>3, <1>4, <1>5

\* Who is listed after the steps that neither post nor send.
LEMMA ListedAfter ==
  ASSUME TypeOK, [Next]_vars, ~PostStep, ~PostSubscriptions
  PROVE  \/ \E s \in Subs : Adding(s) /\ mSubscriptions' = mSubscriptions \cup {s}
         \/ mSubscriptions' \subseteq mSubscriptions
<1>1. ASSUME NEW t \in Adders, PushSubscription(t)
      PROVE  \E s \in Subs : Adding(s) /\ mSubscriptions' = mSubscriptions \cup {s}
  <2>1. adding[t] \in Subs /\ Adding(adding[t])
    BY <1>1 DEF PushSubscription, TypeOK, Threads, Adding
  <2> QED
    BY <1>1, <2>1 DEF PushSubscription
<1>2. CASE \E t \in Adders, s \in Subs : RegisterStatus(t, s) \/ RegisterStatusFails(t, s)
  BY <1>2 DEF RegisterStatus, RegisterStatusFails
<1>3. CASE ClientStep \/ Destroy \/ (\E s \in Subs : NoticeStep(s)) \/ UNCHANGED vars
  BY <1>3 DEF ClientStep, ClientCancels, ClientGoesDown, Destroy, NoticeStep,
              SubscriberCancelCB, SubscriberStatusCB, Remove, itemVars, vars
<1> QED
  BY <1>1, <1>2, <1>3 DEF Next, AddStep

LEMMA NextRemembered ==
  ASSUME NEW poster, Posters = {poster}
  PROVE  TypeOK /\ Listing /\ OnePoster(poster) /\ Remembered /\ [Next]_vars => Remembered'
<1> SUFFICES ASSUME TypeOK, Listing, OnePoster(poster), Remembered, [Next]_vars, Deduplicate,
                    NEW s \in mSubscriptions', owed'[s] # << >>
             PROVE  owed'[s][Len(owed'[s])] = mPreviousPayload'
  BY DEF Remembered
<1>t. s \in Subs
  BY NextType DEF TypeOK
<1>1. ASSUME NEW p \in Payloads, Snapshot(poster, p)
      PROVE  owed'[s][Len(owed'[s])] = mPreviousPayload'
  <2>1. mPreviousPayload' = p /\ mSubscriptions' = mSubscriptions
    BY <1>1 DEF Snapshot, itemVars
  <2> QED
    BY <1>1, <1>t, <2>1, SnapshotOwed
<1>2. CASE Attach(poster) \/ PostSubscriptions
  <2>1. UNCHANGED <<mSubscriptions, owed, mPreviousPayload>>
    BY <1>2 DEF Attach, PostSubscriptions, itemVars, history
  <2> QED
    BY <2>1 DEF Remembered
<1>3. CASE ~PostStep /\ ~PostSubscriptions
  <2>1. UNCHANGED <<mPreviousPayload, owed>>
    BY <1>3, OtherStep
  <2>2. s \in mSubscriptions \/ Adding(s)
    BY <1>3, ListedAfter
  <2> QED
    BY <1>t, <2>1, <2>2 DEF Remembered, Listing
<1>4. CASE PostStep
  <2>1. CASE \E p \in Payloads : Snapshot(poster, p)
    BY <1>1, <2>1
  <2> QED
    BY <1>2, <1>4, <2>1 DEF PostStep
<1> QED
  BY <1>2, <1>3, <1>4

(* With one posting thread.                                                *)
InOrder(poster) ==
  TypeOK /\ Listing /\ OnePoster(poster) /\ Remembered /\ \A s \in Subs : Complete(s)

LEMMA InOrderInvariant ==
  ASSUME NEW poster, Posters = {poster}
  PROVE  Spec => []InOrder(poster)
<1>1. Init => OnePoster(poster) /\ Remembered
  BY DEF Init, OnePoster, Remembered
<1>2. Init => InOrder(poster)
  BY <1>1, InitType, InitListing, InitComplete DEF InOrder
<1>3. InOrder(poster) /\ [Next]_vars => InOrder(poster)'
  <2> SUFFICES ASSUME InOrder(poster), [Next]_vars PROVE InOrder(poster)'
    OBVIOUS
  <2>1. TypeOK' /\ Listing' /\ OnePoster(poster)' /\ Remembered'
    BY NextType, NextListing, NextOnePoster, NextRemembered DEF InOrder
  <2>2. \A s \in Subs : Complete(s)'
    BY NextComplete DEF InOrder
  <2> QED
    BY <2>1, <2>2 DEF InOrder
<1> QED
  BY <1>2, <1>3, PTL DEF Spec

(* With one thread that posts: once all posts are sent, the last reply of  *)
(* every listed subscriber that has not missed the last of them is the     *)
(* payload that duplicates are suppressed against, whichever replies fail. *)
THEOREM ConvergedHolds ==
  ASSUME NEW poster, Posters = {poster}
  PROVE  Spec => []Converged
<1>1. InOrder(poster) => Converged
  <2> SUFFICES ASSUME InOrder(poster), Deduplicate, Quiet,
                      NEW s \in mSubscriptions \ missed, owed[s] # << >>
               PROVE  received[s] # << >> /\ received[s][Len(received[s])] = mPreviousPayload
    BY DEF Converged
  <2>1. s \in Subs /\ owed[s] \in Seq(Payloads) /\ served[s] \in Nat
    BY DEF InOrder, TypeOK
  <2>2. PICK dueAs \in [0 .. Len(pending) -> 0 .. Len(owed[s])] : Counted(s, dueAs)
    BY <2>1 DEF InOrder, Complete
  <2>3. ~InHand(s) /\ Len(pending) = 0
    BY EmptySeq DEF Quiet, InHand
  <2>4. Len(owed[s]) \in Nat /\ Len(owed[s]) # 0
    BY <2>1, LenProperties, EmptySeq
  <2>5. served[s] = Len(owed[s])
    BY <2>1, <2>2, <2>3, <2>4 DEF Counted
  <2>6. received[s] # << >> /\ received[s][Len(received[s])] = owed[s][Len(owed[s])]
    BY <2>2, <2>4, <2>5 DEF Counted
  <2> QED
    BY <2>6 DEF InOrder, Remembered
<1> QED
  BY <1>1, InOrderInvariant, PTL

-----------------------------------------------------------------------------
(* The contract *)

(* With one thread that posts, every behaviour of SubscriptionPoint is one *)
(* of Topic, whichever replies fail: a push joins, the callbacks and the   *)
(* destructor make members leave, a snapshot posts and a source delivers   *)
(* the next payload of everybody it was taken for, or loses it.            *)
THEOREM SubscriptionImplementsTopic ==
  ASSUME NEW poster, Posters = {poster}
  PROVE  Spec => ImplementsTopic
<1>1. Init => TopicContract!Init
  BY DEF Init, TopicContract!Init
<1>2. InOrder(poster) /\ [Next]_vars => [TopicContract!Next]_TopicContract!vars
  <2> SUFFICES ASSUME InOrder(poster), [Next]_vars
               PROVE  TopicContract!Next \/ UNCHANGED TopicContract!vars
    OBVIOUS
  <2>1. ASSUME NEW p \in Payloads, Snapshot(poster, p) PROVE TopicContract!Next
    <3>1. TopicContract!Post(p)
      BY <2>1 DEF Snapshot, itemVars, sentVars, TopicContract!Post
    <3> QED
      BY <3>1 DEF TopicContract!Next
  <2>2. CASE PostSubscriptions
    <3> DEFINE taken == pending[1].to
    <3>1. pending \in Seq(Post) /\ pending # << >> /\ Len(pending) \in Nat \ {0}
      BY <2>2, LenProperties, EmptySeq DEF PostSubscriptions, InOrder, TypeOK
    <3>2. Head(pending) = pending[1] /\ taken \subseteq Subs
      <4>1. pending[1] \in Post
        BY <3>1, ElementOfSeq
      <4> QED
        BY <3>1, <4>1, HeadTailProperties DEF Post
    <3>3. \A s \in taken : /\ served[s] < Len(owed[s])
                           /\ pending[1].payload = owed[s][served[s] + 1]
      <4> TAKE s \in taken
      <4>1. PICK dueAs \in [0 .. Len(pending) -> 0 .. Len(owed[s])] : Counted(s, dueAs)
        BY <3>2 DEF InOrder, Complete
      <4>2. served[s] \in Nat /\ Len(owed[s]) \in Nat
        BY <3>2, LenProperties DEF InOrder, TypeOK
      <4>3. 1 \in 1 .. Len(pending) /\ 1 - 1 = 0
        BY <3>1
      <4>4. dueAs[1] = served[s] + 1 /\ pending[1].payload = owed[s][dueAs[1]]
        BY <4>1, <4>3 DEF Counted
      <4>5. dueAs[1] \in 0 .. Len(owed[s])
        BY <3>1
      <4> QED
        BY <4>2, <4>4, <4>5
    <3>4. PICK S \in SUBSET taken :
            /\ received' = [s \in Subs |-> IF s \in S
                                           THEN Append(received[s], pending[1].payload)
                                           ELSE received[s]]
            /\ served' = [s \in Subs |-> IF s \in taken THEN served[s] + 1 ELSE served[s]]
            /\ taken \ S # {} => (taken \ S) \cap FailingReplies # {}
      <4>1. PICK S \in SUBSET taken :
              /\ Respond(taken, S, pending[1].payload)
              /\ taken \ S # {} => (taken \ S) \cap FailingReplies # {}
        BY <2>2, <3>2 DEF PostSubscriptions
      <4> QED
        BY <4>1 DEF Respond
    <3> DEFINE lost == taken \ S
    <3>5. received' = [s \in Subs |-> IF s \in S
                                     THEN Append(received[s], owed[s][served[s] + 1])
                                     ELSE received[s]]
      <4>1. \A s \in S : pending[1].payload = owed[s][served[s] + 1]
        BY <3>3
      <4> QED
        BY <3>4, <4>1
    <3>6. served' = [s \in Subs |-> IF s \in S \cup lost THEN served[s] + 1 ELSE served[s]]
      <4>1. S \cup lost = taken
        OBVIOUS
      <4> QED
        BY <3>4, <4>1
    <3>7. UNCHANGED <<mSubscriptions, owed>>
      BY <2>2 DEF PostSubscriptions, itemVars
    <3>8. TopicContract!Deliver(S, lost)
      <4>1. \A s \in S \cup lost : served[s] < Len(owed[s])
        BY <3>3
      <4>2. S \cap lost = {}
        OBVIOUS
      <4> QED
        BY <3>4, <3>5, <3>6, <3>7, <4>1, <4>2 DEF TopicContract!Deliver
    <3>9. S \in SUBSET Subs /\ lost \in SUBSET Subs
      BY <3>2, <3>4
    <3> QED
      BY <3>8, <3>9 DEF TopicContract!Next
  <2>3. CASE Attach(poster)
    BY <2>3 DEF Attach, itemVars, history, sentVars, TopicContract!vars
  <2>4. CASE ~PostStep /\ ~PostSubscriptions
    <3>1. UNCHANGED <<received, served, owed>>
      BY <2>4, OtherStep
    <3>2. ASSUME NEW s \in Subs, Adding(s), mSubscriptions' = mSubscriptions \cup {s}
          PROVE  TopicContract!Next
      <4>1. s \notin mSubscriptions
        BY <3>2 DEF InOrder, Listing
      <4> QED
        BY <3>1, <3>2, <4>1 DEF TopicContract!Next, TopicContract!Join
    <3>3. CASE mSubscriptions' \subseteq mSubscriptions
      <4> DEFINE S == mSubscriptions \ mSubscriptions'
      <4>1. S \in SUBSET Subs /\ mSubscriptions' = mSubscriptions \ S
        BY <3>3 DEF InOrder, TypeOK
      <4>2. TopicContract!Leave(S)
        BY <3>1, <4>1 DEF TopicContract!Leave
      <4> QED
        BY <4>1, <4>2 DEF TopicContract!Next
    <3> QED
      BY <2>4, <3>2, <3>3, ListedAfter DEF InOrder
  <2>5. CASE PostStep
    <3>1. CASE \E p \in Payloads : Snapshot(poster, p)
      BY <2>1, <3>1
    <3> QED
      BY <2>3, <2>5, <3>1 DEF PostStep
  <2> QED
    BY <2>2, <2>4, <2>5
<1> QED
  BY <1>1, <1>2, InOrderInvariant, PTL DEF Spec, ImplementsTopic, TopicContract!Spec
=============================================================================
