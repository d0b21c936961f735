---------------------- MODULE SignalSubscriptionProofs ----------------------
(***************************************************************************)
(* Theorems about SignalSubscription for every set of subscribers, every   *)
(* content of the signals and every bound on their number.                 *)
(***************************************************************************)
EXTENDS SignalSubscription, SequenceTheorems, FiniteSetTheorems, TLAPS

-----------------------------------------------------------------------------
(* The invariant.                                                          *)

(* Nothing reaches a subscriber before the hub has matched it.             *)
NothingYet(s) ==
  state[s] \in {"new", "asked"} =>
    first[s] /\ inbox[s] = << >> /\ sent[s] = << >> /\ delivered[s] = << >>

(* The flag is set as long as the answer of the hub waits, which is before *)
(* every signal.  When there is no answer only a refusal comes.            *)
AnswerFirst(s) ==
  /\ \A i \in 1 .. Len(inbox[s]) : inbox[s][i] = Answer => i = 1 /\ first[s]
  /\ state[s] = "matched" /\ first[s] => inbox[s] # << >> /\ inbox[s][1] = Answer
  /\ first[s] /\ inbox[s] # << >> /\ inbox[s][1] # Answer =>
       inbox[s][1] = HubError /\ Len(inbox[s]) = 1

Given(s) ==
  IF state[s] = "cancelled"
  THEN inbox[s] = << >> /\ IsPrefix(delivered[s], Append(sent[s], HubError))
  ELSE delivered[s] \o Waiting(s) = Due(s)

SignalInv == TypeOK /\ \A s \in Subscribers : NothingYet(s) /\ AnswerFirst(s) /\ Given(s)

-----------------------------------------------------------------------------
(* Sequences of messages *)

LEMMA MessageKinds ==
  /\ Answer \in Messages /\ HubError \in Messages /\ Signals \subseteq Messages
  /\ HubError # Answer /\ HubError \notin Signals /\ Answer \notin Signals
  /\ Success(Answer) /\ ~Success(HubError)
<1>1. Answer.kind = "answer" /\ HubError.kind = "hubError" /\ \A m \in Signals : m.kind = "signal"
  BY DEF Answer, HubError, Signals, Signal
<1>2. Answer.json
  BY DEF Answer
<1> QED
  BY <1>1, <1>2 DEF Messages, Success

\* The messages of a queue without the answer at its head.
Rest(q) == IF q # << >> /\ Head(q) = Answer THEN Tail(q) ELSE q

LEMMA WaitingIsRest == \A s \in Subscribers : Waiting(s) = Rest(inbox[s])
BY DEF Waiting, Rest

LEMMA RestType ==
  ASSUME NEW q \in Seq(Messages) PROVE Rest(q) \in Seq(Messages)
BY HeadTailProperties DEF Rest

LEMMA RestOfAppend ==
  ASSUME NEW q \in Seq(Messages), NEW m \in Messages \ {Answer}
  PROVE  Rest(Append(q, m)) = Append(Rest(q), m)
<1>1. Append(q, m) # << >>
  BY AppendProperties
<1>2. /\ Head(Append(q, m)) = IF q = <<>> THEN m ELSE Head(q)
      /\ Tail(Append(q, m)) = IF q = <<>> THEN <<>> ELSE Append(Tail(q), m)
  BY HeadTailAppend
<1>3. CASE q = << >>
  BY <1>1, <1>2, <1>3 DEF Rest
<1>4. CASE q # << >>
  BY <1>1, <1>2, <1>4 DEF Rest
<1> QED
  BY <1>3, <1>4

LEMMA ConcatOfAppend ==
  \A d, q \in Seq(Messages) : \A m \in Messages : d \o Append(q, m) = Append(d \o q, m)
<1> TAKE d, q \in Seq(Messages)
<1> TAKE m \in Messages
<1>1. <<m>> \in Seq(Messages)
  BY AppendProperties, EmptySeq, AppendIsConcat, ConcatEmptySeq
<1>2. Append(q, m) = q \o <<m>> /\ d \o q \in Seq(Messages)
  BY AppendIsConcat, ConcatProperties
<1>3. (d \o q) \o <<m>> = d \o (q \o <<m>>)
  BY <1>1, ConcatAssociative
<1>4. Append(d \o q, m) = (d \o q) \o <<m>>
  BY <1>2, AppendIsConcat
<1> QED
  BY <1>2, <1>3, <1>4

LEMMA AppendedMessage ==
  \A q \in Seq(Messages) : \A m \in Messages :
    /\ Append(q, m) # << >> /\ Len(Append(q, m)) = Len(q) + 1
    /\ \A i \in 1 .. Len(q) : Append(q, m)[i] = q[i]
    /\ Append(q, m)[Len(q) + 1] = m
    /\ Len(q) \in Nat /\ (q # << >> => 1 \in 1 .. Len(q))
<1> TAKE q \in Seq(Messages)
<1> TAKE m \in Messages
<1>1. Len(q) \in Nat /\ (q # << >> => Len(q) \in Nat \ {0})
  BY LenProperties, EmptySeq
<1> QED
  BY <1>1, AppendProperties

LEMMA ConcatOfTail ==
  \A d, q \in Seq(Messages) : q # << >> => Append(d, Head(q)) \o Tail(q) = d \o q
<1> SUFFICES ASSUME NEW d \in Seq(Messages), NEW q \in Seq(Messages), q # << >>
             PROVE  Append(d, Head(q)) \o Tail(q) = d \o q
  OBVIOUS
<1>1. Head(q) \in Messages /\ Tail(q) \in Seq(Messages) /\ Len(q) \in Nat \ {0} /\ Len(d) \in Nat
  BY HeadTailProperties, EmptySeq, LenProperties
<1>2. Append(d, Head(q)) \in Seq(Messages) /\ Len(Append(d, Head(q))) = Len(d) + 1
  BY <1>1, AppendProperties
<1>3. Len(Tail(q)) = Len(q) - 1 /\ Head(q) = q[1]
      /\ \A i \in 1 .. Len(q) - 1 : Tail(q)[i] = q[i + 1]
  BY HeadTailProperties
<1> DEFINE l == Append(d, Head(q)) \o Tail(q)
<1>4. /\ l \in Seq(Messages) /\ Len(l) = Len(d) + Len(q)
      /\ \A i \in 1 .. Len(l) : l[i] = IF i <= Len(d) + 1 THEN Append(d, Head(q))[i]
                                       ELSE Tail(q)[i - (Len(d) + 1)]
  BY <1>1, <1>2, <1>3, ConcatProperties
<1>5. /\ d \o q \in Seq(Messages) /\ Len(d \o q) = Len(d) + Len(q)
      /\ \A i \in 1 .. Len(d) + Len(q) : (d \o q)[i] = IF i <= Len(d) THEN d[i]
                                                       ELSE q[i - Len(d)]
  BY ConcatProperties
<1>6. ASSUME NEW i \in 1 .. Len(l) PROVE l[i] = (d \o q)[i]
  <2>1. CASE i <= Len(d)
    <3>1. Append(d, Head(q))[i] = d[i]
      BY <1>1, <1>4, <2>1, AppendProperties
    <3> QED
      BY <1>1, <1>4, <1>5, <1>6, <2>1, <3>1
  <2>2. CASE i = Len(d) + 1
    <3>1. Append(d, Head(q))[i] = q[1]
      BY <1>1, <1>3, <2>2, AppendProperties
    <3> QED
      BY <1>1, <1>4, <1>5, <1>6, <2>2, <3>1
  <2>3. CASE i > Len(d) + 1
    <3>1. i - (Len(d) + 1) \in 1 .. Len(q) - 1 /\ i - (Len(d) + 1) + 1 = i - Len(d)
      BY <1>1, <1>4, <2>3
    <3>2. Tail(q)[i - (Len(d) + 1)] = q[i - Len(d)]
      BY <1>3, <3>1
    <3> QED
      BY <1>1, <1>4, <1>5, <1>6, <2>3, <3>2
  <2> QED
    BY <1>1, <1>4, <2>1, <2>2, <2>3
<1> HIDE DEF l
<1>7. l = d \o q
  BY <1>4, <1>5, <1>6, SeqEqual
<1> QED
  BY <1>7 DEF l

\* What is given is a beginning of what is due.
LEMMA BeginningOfDue ==
  ASSUME NEW S, NEW d \in Seq(S), NEW q \in Seq(S), NEW t \in Seq(S), NEW m \in S,
         d \o q = t \/ d \o q = Append(t, m)
  PROVE  IsPrefix(d, Append(t, m))
<1> DEFINE u == Append(t, m)
<1>1. /\ u \in Seq(S) /\ Len(u) = Len(t) + 1
      /\ \A i \in 1 .. Len(t) : u[i] = t[i]
  BY AppendProperties
<1>2. Len(d) \in Nat /\ Len(q) \in Nat /\ Len(t) \in Nat
  BY LenProperties
<1>3. /\ Len(d \o q) = Len(d) + Len(q)
      /\ \A i \in 1 .. Len(d) + Len(q) : (d \o q)[i] = IF i <= Len(d) THEN d[i] ELSE q[i - Len(d)]
  BY ConcatProperties
<1> HIDE DEF u
<1>4. Len(d) <= Len(u)
  BY <1>1, <1>2, <1>3 DEF u
<1>5. \A i \in 1 .. Len(d) : d[i] = u[i]
  <2> TAKE i \in 1 .. Len(d)
  <2>1. (d \o q)[i] = d[i]
    BY <1>2, <1>3
  <2>2. CASE d \o q = t
    BY <1>1, <1>2, <1>3, <2>1, <2>2
  <2>3. CASE d \o q = u
    BY <2>1, <2>3
  <2> QED
    BY <2>2, <2>3 DEF u
<1>6. SubSeq(d, 1, Len(d)) = d
  BY SubSeqFull
<1>7. \A i \in 1 .. Len(d) : u[i] \in S
  BY <1>1, <1>2, <1>4, ElementOfSeq
<1>8. /\ SubSeq(u, 1, Len(d)) \in Seq(S)
      /\ Len(SubSeq(u, 1, Len(d))) = Len(d)
      /\ \A i \in 1 .. Len(d) : SubSeq(u, 1, Len(d))[i] = u[i]
  BY <1>2, <1>7, SubSeqProperties
<1>9. d = SubSeq(u, 1, Len(d))
  BY <1>5, <1>8, SeqEqual
<1> QED
  BY <1>4, <1>6, <1>9 DEF IsPrefix, u

-----------------------------------------------------------------------------
(* The steps *)

LEMMA InitSignalInv == Init => SignalInv
<1> SUFFICES ASSUME Init PROVE SignalInv
  OBVIOUS
<1>1. /\ << >> \in Seq(Messages) /\ << >> \in Seq(Signals)
      /\ << >> \in Seq({HubError} \cup Signals)
  BY EmptySeq
<1>2. {} \subseteq Subscribers /\ Cardinality({}) <= 1
  BY FS_EmptySet
<1>3. TypeOK
  BY <1>1, <1>2 DEF Init, TypeOK
<1>4. ASSUME NEW s \in Subscribers PROVE NothingYet(s) /\ AnswerFirst(s) /\ Given(s)
  <2>1. /\ state[s] = "new" /\ first[s] /\ inbox[s] = << >>
        /\ sent[s] = << >> /\ delivered[s] = << >>
    BY DEF Init
  <2>2. Waiting(s) = << >> /\ Due(s) = << >> /\ << >> \o << >> = << >>
    BY <1>1, <2>1, ConcatEmptySeq DEF Waiting, Due
  <2> QED
    BY <2>1, <2>2, EmptySeq DEF NothingYet, AnswerFirst, Given
<1> QED
  BY <1>3, <1>4 DEF SignalInv

\* What a step leaves of the invariant of a subscriber it does not touch.
LEMMA Untouched ==
  ASSUME NEW s \in Subscribers, NothingYet(s), AnswerFirst(s), Given(s),
         state'[s] = state[s], first'[s] = first[s], inbox'[s] = inbox[s],
         sent'[s] = sent[s], delivered'[s] = delivered[s]
  PROVE  NothingYet(s)' /\ AnswerFirst(s)' /\ Given(s)'
BY DEF NothingYet, AnswerFirst, Given, Waiting, Due

LEMMA SubscribePreserves ==
  ASSUME SignalInv, NEW s \in Subscribers, SubscribeToSignal(s) PROVE SignalInv'
<1>1. TypeOK'
  BY DEF SignalInv, TypeOK, SubscribeToSignal
<1>2. \A r \in Subscribers : r # s => state'[r] = state[r] /\ first'[r] = first[r]
  BY DEF SignalInv, TypeOK, SubscribeToSignal
<1>3. UNCHANGED <<inbox, sent, delivered>> /\ state[s] = "new" /\ state'[s] = "asked" /\ first'[s]
  BY DEF SignalInv, TypeOK, SubscribeToSignal
<1>4. NothingYet(s) /\ AnswerFirst(s) /\ Given(s)
  BY DEF SignalInv
<1>5. NothingYet(s)' /\ AnswerFirst(s)' /\ Given(s)'
  BY <1>3, <1>4 DEF NothingYet, AnswerFirst, Given, Waiting, Due
<1> QED
  BY <1>1, <1>2, <1>3, <1>5, Untouched DEF SignalInv

LEMMA CancelPreserves ==
  ASSUME SignalInv, NEW s \in Subscribers, CancelCall(s) PROVE SignalInv'
<1>1. << >> \in Seq(Messages)
  BY EmptySeq
<1>2. TypeOK'
  BY <1>1 DEF SignalInv, TypeOK, CancelCall
<1>3. \A r \in Subscribers : r # s => state'[r] = state[r] /\ inbox'[r] = inbox[r]
  BY DEF SignalInv, TypeOK, CancelCall
<1>4. /\ UNCHANGED <<first, sent, delivered>> /\ inbox'[s] = << >>
      /\ state[s] # "cancelled" /\ state'[s] = "cancelled"
  BY DEF SignalInv, TypeOK, CancelCall
<1>5. delivered[s] \o Rest(inbox[s]) = Due(s)
  BY <1>4, WaitingIsRest DEF SignalInv, Given
<1>6. /\ delivered[s] \in Seq(Messages) /\ sent[s] \in Seq(Messages)
      /\ Rest(inbox[s]) \in Seq(Messages)
  BY MessageKinds, SeqMonotonic, RestType DEF SignalInv, TypeOK
<1>7. IsPrefix(delivered[s], Append(sent[s], HubError))
  BY <1>5, <1>6, MessageKinds, BeginningOfDue DEF Due
<1>8. NothingYet(s)' /\ AnswerFirst(s)' /\ Given(s)'
  BY <1>4, <1>7, EmptySeq DEF NothingYet, AnswerFirst, Given
<1> QED
  BY <1>2, <1>3, <1>4, <1>8, Untouched DEF SignalInv

\* A message that is not the answer comes to a subscriber the hub has matched.
LEMMA MessageComes ==
  ASSUME SignalInv, NEW s \in Subscribers, NEW m \in Messages \ {Answer},
         state[s] = "matched", state'[s] \in {"matched", "refused"}, first'[s] = first[s],
         inbox'[s] = Append(inbox[s], m), delivered'[s] = delivered[s],
         Due(s)' = Append(Due(s), m)
  PROVE  NothingYet(s)' /\ AnswerFirst(s)' /\ Given(s)'
<1>1. /\ inbox[s] \in Seq(Messages) /\ delivered[s] \in Seq(Messages)
      /\ Rest(inbox[s]) \in Seq(Messages) /\ m \in Messages
  <2>1. inbox[s] \in Seq(Messages) /\ delivered[s] \in Seq({HubError} \cup Signals)
    BY DEF SignalInv, TypeOK
  <2>2. delivered[s] \in Seq(Messages)
    BY <2>1, MessageKinds, SeqMonotonic
  <2> QED
    BY <2>1, <2>2, RestType
<1>2. /\ inbox'[s] # << >> /\ Len(inbox'[s]) = Len(inbox[s]) + 1
      /\ \A i \in 1 .. Len(inbox[s]) : inbox'[s][i] = inbox[s][i]
      /\ inbox'[s][Len(inbox[s]) + 1] = m
      /\ Len(inbox[s]) \in Nat /\ (inbox[s] # << >> => 1 \in 1 .. Len(inbox[s]))
  <2>1. /\ Append(inbox[s], m) # << >> /\ Len(Append(inbox[s], m)) = Len(inbox[s]) + 1
        /\ \A i \in 1 .. Len(inbox[s]) : Append(inbox[s], m)[i] = inbox[s][i]
        /\ Append(inbox[s], m)[Len(inbox[s]) + 1] = m
        /\ Len(inbox[s]) \in Nat /\ (inbox[s] # << >> => 1 \in 1 .. Len(inbox[s]))
    BY <1>1, AppendedMessage
  <2> QED
    BY <2>1
<1>3. AnswerFirst(s)'
  <2>1. ASSUME NEW i \in 1 .. Len(inbox'[s]), inbox'[s][i] = Answer PROVE i = 1 /\ first'[s]
    <3>1. i \in 1 .. Len(inbox[s])
      BY <1>2, <2>1
    <3> QED
      BY <1>2, <2>1, <3>1 DEF SignalInv, AnswerFirst
  <2>2. first'[s] => inbox'[s][1] = Answer
    BY <1>2 DEF SignalInv, AnswerFirst
  <2> QED
    BY <1>2, <2>1, <2>2 DEF AnswerFirst
<1>4. delivered[s] \o Rest(inbox[s]) = Due(s)
  BY WaitingIsRest DEF SignalInv, Given
<1>5. delivered[s] \o Append(Rest(inbox[s]), m) = Append(Due(s), m)
  <2>1. delivered[s] \o Append(Rest(inbox[s]), m) = Append(delivered[s] \o Rest(inbox[s]), m)
    BY <1>1, ConcatOfAppend
  <2> QED
    BY <1>4, <2>1
<1>6. Waiting(s)' = Append(Rest(inbox[s]), m)
  <2>1. Rest(inbox'[s]) = Append(Rest(inbox[s]), m)
    BY <1>1, RestOfAppend
  <2> QED
    BY <2>1 DEF Waiting, Rest
<1> QED
  BY <1>3, <1>5, <1>6 DEF NothingYet, Given

LEMMA SendPreserves ==
  ASSUME SignalInv, NEW p \in Payloads, NEW json \in BOOLEAN, SendSignal(p, json)
  PROVE  SignalInv'
<1> DEFINE m == Signal(p, json)
<1>1. m \in Signals /\ m \in Messages \ {Answer}
  <2>1. m \in Signals
    BY DEF Signals
  <2> QED
    BY <2>1, MessageKinds
<1>2. \A s \in Subscribers :
        /\ inbox'[s] = IF state[s] = "matched" THEN Append(inbox[s], m) ELSE inbox[s]
        /\ sent'[s] = IF state[s] = "matched" THEN Append(sent[s], m) ELSE sent[s]
  BY DEF SendSignal
<1>3. UNCHANGED <<state, first, frame, terminated, delivered>>
  BY DEF SendSignal
<1>t. TypeOK'
  <2> HIDE DEF m
  <2>1. ASSUME NEW s \in Subscribers
        PROVE  inbox'[s] \in Seq(Messages) /\ sent'[s] \in Seq(Signals)
    <3>1. inbox[s] \in Seq(Messages) /\ sent[s] \in Seq(Signals) /\ m \in Messages
      BY <1>1 DEF SignalInv, TypeOK
    <3>2. Append(inbox[s], m) \in Seq(Messages) /\ Append(sent[s], m) \in Seq(Signals)
      BY <1>1, <3>1, AppendProperties
    <3> QED
      BY <1>2, <3>1, <3>2
  <2>2. inbox' = [s \in Subscribers |-> inbox'[s]] /\ sent' = [s \in Subscribers |-> sent'[s]]
    BY DEF SendSignal
  <2>3. inbox' \in [Subscribers -> Seq(Messages)] /\ sent' \in [Subscribers -> Seq(Signals)]
    BY <2>1, <2>2
  <2> QED
    BY <1>3, <2>3 DEF SignalInv, TypeOK
<1> HIDE DEF m
<1>4. ASSUME NEW s \in Subscribers, state[s] = "matched"
      PROVE  NothingYet(s)' /\ AnswerFirst(s)' /\ Given(s)'
  <2>1. Due(s)' = Append(Due(s), m)
    BY <1>2, <1>3, <1>4 DEF Due
  <2> QED
    BY <1>1, <1>2, <1>3, <1>4, <2>1, MessageComes
<1>5. ASSUME NEW s \in Subscribers, state[s] # "matched"
      PROVE  NothingYet(s)' /\ AnswerFirst(s)' /\ Given(s)'
  BY <1>2, <1>3, <1>5, Untouched DEF SignalInv
<1> QED
  BY <1>t, <1>4, <1>5 DEF SignalInv

\* The first message that comes to a subscriber.
LEMMA FirstMessage ==
  ASSUME SignalInv, NEW s \in Subscribers, NEW m \in {Answer, HubError},
         state[s] = "asked", inbox'[s] = Append(inbox[s], m),
         state'[s] = IF m = Answer THEN "matched" ELSE "refused",
         UNCHANGED <<first, sent, delivered>>
  PROVE  NothingYet(s)' /\ AnswerFirst(s)' /\ Given(s)'
<1>1. first[s] /\ inbox[s] = << >> /\ sent[s] = << >> /\ delivered[s] = << >>
  BY DEF SignalInv, NothingYet
<1>2. m \in Messages
  BY MessageKinds
<1>3. << >> \in Seq(Messages) /\ Len(<< >>) = 0
  BY EmptySeq
<1>4. /\ Append(<< >>, m) \in Seq(Messages)
      /\ Append(<< >>, m) # << >> /\ Len(Append(<< >>, m)) = 1 /\ Append(<< >>, m)[1] = m
      /\ Head(Append(<< >>, m)) = m /\ Tail(Append(<< >>, m)) = << >>
  BY <1>2, <1>3, AppendProperties, HeadTailAppend
<1>5. /\ inbox'[s] # << >> /\ Len(inbox'[s]) = 1 /\ inbox'[s][1] = m
      /\ Head(inbox'[s]) = m /\ Tail(inbox'[s]) = << >>
  BY <1>1, <1>4
<1>6. AnswerFirst(s)'
  BY <1>1, <1>5, MessageKinds DEF AnswerFirst
<1>7. Given(s)'
  <2>1. << >> \o << >> = << >> /\ << >> \o Append(<< >>, m) = Append(<< >>, m)
    BY <1>3, <1>4, ConcatEmptySeq
  <2>2. CASE m = Answer
    <3>1. Waiting(s)' = << >> /\ Due(s)' = << >>
      BY <1>1, <1>5, <2>2 DEF Waiting, Due
    <3> QED
      BY <1>1, <2>1, <2>2, <3>1 DEF Given
  <2>3. CASE m = HubError
    <3>1. Waiting(s)' = Append(<< >>, m) /\ Due(s)' = Append(<< >>, m)
      BY <1>1, <1>5, <2>3, MessageKinds DEF Waiting, Due
    <3> QED
      BY <1>1, <2>1, <2>3, <3>1, MessageKinds DEF Given
  <2> QED
    BY <2>2, <2>3
<1> QED
  BY <1>6, <1>7 DEF NothingYet

LEMMA HubPreserves ==
  ASSUME SignalInv, NEW s \in Subscribers, HubMatches(s) \/ HubFails(s) PROVE SignalInv'
<1>1. PICK m \in {Answer, HubError} :
        /\ state[s] = "asked" \/ (m = HubError /\ state[s] = "matched")
        /\ state' = [state EXCEPT ![s] = IF m = Answer THEN "matched" ELSE "refused"]
        /\ inbox' = [inbox EXCEPT ![s] = Append(inbox[s], m)]
        /\ UNCHANGED <<first, frame, terminated, sent, delivered>>
  BY MessageKinds DEF HubMatches, HubFails
<1>2. m \in Messages
  BY MessageKinds
<1>3. /\ state'[s] = IF m = Answer THEN "matched" ELSE "refused"
      /\ inbox'[s] = Append(inbox[s], m)
      /\ \A r \in Subscribers : r # s => state'[r] = state[r] /\ inbox'[r] = inbox[r]
  BY <1>1 DEF SignalInv, TypeOK
<1>4. TypeOK'
  <2>1. inbox[s] \in Seq(Messages)
    BY DEF SignalInv, TypeOK
  <2>2. Append(inbox[s], m) \in Seq(Messages)
    BY <1>2, <2>1, AppendProperties
  <2>3. inbox' \in [Subscribers -> Seq(Messages)]
    BY <1>1, <2>2 DEF SignalInv, TypeOK
  <2> QED
    BY <1>1, <2>3 DEF SignalInv, TypeOK
<1>5. NothingYet(s)' /\ AnswerFirst(s)' /\ Given(s)'
  <2>1. CASE state[s] = "asked"
    BY <1>1, <1>3, <2>1, FirstMessage
  <2>2. CASE state[s] # "asked"
    <3>1. m = HubError /\ state[s] = "matched" /\ m \in Messages \ {Answer}
      BY <1>1, <1>2, <2>2, MessageKinds
    <3>2. Due(s)' = Append(Due(s), m)
      BY <1>1, <1>3, <3>1, MessageKinds DEF Due
    <3>3. state'[s] \in {"matched", "refused"} /\ first'[s] = first[s]
          /\ delivered'[s] = delivered[s]
      BY <1>1, <1>3
    <3> QED
      BY <1>3, <3>1, <3>2, <3>3, MessageComes
  <2> QED
    BY <2>1, <2>2
<1> QED
  BY <1>1, <1>3, <1>4, <1>5, Untouched DEF SignalInv

LEMMA DispatchPreserves ==
  ASSUME SignalInv, NEW s \in Subscribers, Dispatch(s) PROVE SignalInv'
<1> DEFINE q == inbox[s]
<1>1. /\ q # << >> /\ q \in Seq(Messages)
      /\ inbox' = [inbox EXCEPT ![s] = Tail(q)]
      /\ UNCHANGED <<state, terminated, sent>>
  BY DEF Dispatch, SignalInv, TypeOK
<1>2. state[s] \in {"matched", "refused"}
  BY <1>1 DEF SignalInv, TypeOK, NothingYet, Given
<1>3. /\ Head(q) \in Messages /\ Tail(q) \in Seq(Messages) /\ Head(q) = q[1]
      /\ Len(q) \in Nat \ {0} /\ Len(Tail(q)) = Len(q) - 1
      /\ \A i \in 1 .. Len(q) - 1 : Tail(q)[i] = q[i + 1]
  BY <1>1, HeadTailProperties, EmptySeq
<1>4. /\ inbox'[s] = Tail(q) /\ inbox' \in [Subscribers -> Seq(Messages)]
      /\ \A r \in Subscribers : r # s => inbox'[r] = inbox[r]
  BY <1>1, <1>3 DEF SignalInv, TypeOK
<1>5. \A i \in 1 .. Len(Tail(q)) : Tail(q)[i] # Answer
  <2> SUFFICES ASSUME NEW i \in 1 .. Len(Tail(q)) PROVE Tail(q)[i] # Answer
    OBVIOUS
  <2>1. i + 1 \in 1 .. Len(q) /\ i + 1 # 1 /\ Tail(q)[i] = q[i + 1]
    BY <1>3
  <2> QED
    BY <2>1 DEF SignalInv, AnswerFirst
<1>6. Rest(Tail(q)) = Tail(q)
  <2>1. CASE Tail(q) = << >>
    BY <2>1 DEF Rest
  <2>2. CASE Tail(q) # << >>
    <3>1. Head(Tail(q)) = Tail(q)[1] /\ 1 \in 1 .. Len(Tail(q))
      BY <1>3, <2>2, EmptySeq
    <3> QED
      BY <1>5, <3>1 DEF Rest
  <2> QED
    BY <2>1, <2>2
<1>7. AnswerFirst(s) /\ delivered[s] \o Rest(q) = Due(s) /\ Waiting(s)' = Rest(inbox'[s])
      /\ Due(s)' = Due(s)
  BY <1>1, <1>2, WaitingIsRest DEF SignalInv, Given, Waiting, Rest, Due
<1>8. CASE first[s] /\ Success(Head(q))
  <2>1. ClearFirst(s) /\ UNCHANGED <<frame, delivered>>
    BY <1>8 DEF Dispatch
  <2>2. ~first'[s] /\ \A r \in Subscribers : r # s => first'[r] = first[r]
    BY <2>1 DEF ClearFirst, SignalInv, TypeOK
  <2>3. Head(q) = Answer
    BY <1>1, <1>3, <1>7, <1>8, MessageKinds DEF AnswerFirst
  <2>4. Rest(q) = Tail(q)
    BY <1>1, <2>3 DEF Rest
  <2>5. TypeOK'
    BY <1>1, <1>4, <2>1 DEF ClearFirst, SignalInv, TypeOK
  <2>6. NothingYet(s)' /\ AnswerFirst(s)' /\ Given(s)'
    <3>1. AnswerFirst(s)'
      BY <1>4, <1>5, <2>2 DEF AnswerFirst
    <3>2. Given(s)'
      BY <1>1, <1>2, <1>4, <1>6, <1>7, <2>1, <2>4 DEF Given
    <3>3. NothingYet(s)'
      BY <1>1, <1>2 DEF NothingYet
    <3> QED
      BY <3>1, <3>2, <3>3
  <2> QED
    BY <1>1, <1>4, <2>1, <2>2, <2>5, <2>6, Untouched DEF SignalInv
<1>9. CASE ~(first[s] /\ Success(Head(q)))
  <2>1. /\ frame' = {s} /\ UNCHANGED first
        /\ delivered' = [delivered EXCEPT ![s] = Append(delivered[s], Head(q))]
    BY <1>9 DEF Dispatch
  <2>2. Head(q) # Answer
    <3>1. q[1] = Answer => first[s]
      BY <1>3, <1>7 DEF AnswerFirst
    <3> QED
      BY <1>3, <1>9, <3>1, MessageKinds
  <2>3. Rest(q) = q
    BY <2>2 DEF Rest
  <2>4. Head(q) \in {HubError} \cup Signals
    BY <1>3, <2>2 DEF Messages
  <2>5. /\ delivered[s] \in Seq({HubError} \cup Signals) /\ delivered[s] \in Seq(Messages)
        /\ Append(delivered[s], Head(q)) \in Seq({HubError} \cup Signals)
    <3>1. delivered[s] \in Seq({HubError} \cup Signals)
      BY DEF SignalInv, TypeOK
    <3> QED
      BY <2>4, <3>1, MessageKinds, SeqMonotonic, AppendProperties
  <2>6. /\ delivered'[s] = Append(delivered[s], Head(q))
        /\ delivered' \in [Subscribers -> Seq({HubError} \cup Signals)]
        /\ \A r \in Subscribers : r # s => delivered'[r] = delivered[r]
    BY <2>1, <2>5 DEF SignalInv, TypeOK
  <2>7. {s} \subseteq Subscribers /\ Cardinality({s}) <= 1
    BY FS_Singleton
  <2>8. TypeOK'
    BY <1>1, <1>4, <2>1, <2>6, <2>7 DEF SignalInv, TypeOK
  <2>9. NothingYet(s)' /\ AnswerFirst(s)' /\ Given(s)'
    <3>1. AnswerFirst(s)'
      <4>1. first[s] => Tail(q) = << >>
        <5>1. first[s] => Len(q) = 1
          BY <1>1, <1>3, <1>7, <2>2 DEF AnswerFirst
        <5>2. Len(q) = 1 => Len(Tail(q)) = 0
          BY <1>3
        <5> QED
          BY <1>3, <5>1, <5>2, EmptySeq
      <4>2. ~(state[s] = "matched" /\ first[s])
        BY <1>3, <1>7, <2>2 DEF AnswerFirst
      <4> QED
        BY <1>1, <1>4, <1>5, <2>1, <4>1, <4>2 DEF AnswerFirst
    <3>2. Append(delivered[s], Head(q)) \o Tail(q) = delivered[s] \o q
      BY <1>1, <2>5, ConcatOfTail
    <3>3. Given(s)'
      BY <1>1, <1>2, <1>4, <1>6, <1>7, <2>3, <2>6, <3>2 DEF Given
    <3>4. NothingYet(s)'
      BY <1>1, <1>2 DEF NothingYet
    <3> QED
      BY <3>1, <3>3, <3>4
  <2> QED
    BY <1>1, <1>4, <2>1, <2>6, <2>8, <2>9, Untouched DEF SignalInv
<1> QED
  BY <1>8, <1>9

LEMMA NextSignalInv == SignalInv /\ [Next]_vars => SignalInv'
<1> SUFFICES ASSUME SignalInv, [Next]_vars PROVE SignalInv'
  OBVIOUS
<1>1. ASSUME NEW ending \in Endings, HandlerEnds(ending) PROVE SignalInv'
  <2>1. {} \subseteq Subscribers /\ Cardinality({}) <= 1
    BY FS_EmptySet
  <2>2. TypeOK'
    BY <1>1, <2>1 DEF HandlerEnds, SignalInv, TypeOK
  <2> QED
    BY <1>1, <2>2, Untouched DEF HandlerEnds, SignalInv
<1>2. CASE UNCHANGED vars
  BY <1>2, Untouched DEF vars, SignalInv, TypeOK
<1> QED
  BY <1>1, <1>2, SubscribePreserves, CancelPreserves, SendPreserves, HubPreserves,
     DispatchPreserves
  DEF Next, ClientStep, HubStep, LoopStep

LEMMA SignalInvariant == Spec => []SignalInv
BY InitSignalInv, NextSignalInv, PTL DEF Spec

(* Every state has the types of the code; in particular no handler is      *)
(* given the answer of the hub, and one handler runs at a time.            *)
THEOREM TypeCorrect == Spec => []TypeOK
<1>1. SignalInv => TypeOK
  BY DEF SignalInv
<1> QED
  BY <1>1, SignalInvariant, PTL

(* A handler is given every signal sent since the hub matched it, in       *)
(* order, then a hub error if there is one; when its call is cancelled, a  *)
(* beginning of this.                                                      *)
THEOREM SignalsCompleteHolds == Spec => []SignalsComplete
<1>1. SignalInv => SignalsComplete
  BY DEF SignalInv, Given, SignalsComplete
<1> QED
  BY <1>1, SignalInvariant, PTL
=============================================================================
