---------------------------- MODULE PipelineProofs ----------------------------
(***************************************************************************)
(* Proofs about pipe and pipeline, for any kinds of channels, parallelism,  *)
(* numbers of inputs, outputs and cancellations.  First come the channels,   *)
(* as far as their users can tell, then the invariant, then one lemma for    *)
(* each step.                                                                *)
(***************************************************************************)
EXTENDS PipelineProps, Integers, FiniteSetTheorems, TLAPS

(* The time each leaf is given: most need a second, a busy machine needs more. *)
USE SMTT(60), ZenonT(60)

----------------------------------------------------------------------------
(* What the operations of a channel do, as far as its users can tell.       *)

AnyWaiter == [task : Task, id : Int]
AnyAnswer == [is : Status \cup {"value"}, value : Int]
Record    == [value : Int, by : Int]

ChanTypeOK ==
  /\ puts \in [Chan -> SUBSET AnyWaiter]
  /\ takes \in [Chan -> SUBSET AnyWaiter]
  /\ buffer \in [Chan -> Seq(Int)]
  /\ future \in [Task -> AnyAnswer]
  /\ on \in [Task -> SUBSET Chan]
  /\ received \in [Chan -> Seq(Record)]

(* No waiter is added to a channel, and those of tasks that are not asleep  *)
(* may go. *)
NoNewWaiters ==
  \A d \in Chan : puts'[d] \subseteq puts[d] /\ takes'[d] \subseteq takes[d]

(* A waiter is pending when it is resolved. *)
LEMMA LiveArePending ==
  ASSUME NEW W, NEW w \in Live(W)
  PROVE  w \in W /\ future[w.task].is = "pending"
BY DEF Live, Active

(* Tidying the channels C. *)
LEMMA DiscardEffect ==
  ASSUME ChanTypeOK, NEW C, Discard(C)
  PROVE  /\ NoNewWaiters
         /\ puts' \in [Chan -> SUBSET AnyWaiter]
         /\ takes' \in [Chan -> SUBSET AnyWaiter]
         /\ \A d \in C \cap Chan : puts'[d] = Live(puts[d]) /\ takes'[d] = Live(takes[d])
BY DEF ChanTypeOK, Discard, Discarded, NoNewWaiters, Live

(* The same, and one waiter is popped. *)
LEMMA PopEffect ==
  ASSUME ChanTypeOK, NEW C, NEW c \in Chan, NEW w, PopPut(c, C, w) \/ PopTake(c, C, w)
  PROVE  /\ NoNewWaiters
         /\ puts' \in [Chan -> SUBSET AnyWaiter]
         /\ takes' \in [Chan -> SUBSET AnyWaiter]
<1>1. /\ Discarded(puts, C) \in [Chan -> SUBSET AnyWaiter]
      /\ Discarded(takes, C) \in [Chan -> SUBSET AnyWaiter]
      /\ \A d \in Chan : /\ Discarded(puts, C)[d] \subseteq puts[d]
                         /\ Discarded(takes, C)[d] \subseteq takes[d]
  BY DEF ChanTypeOK, Discarded, Live
<1>2. CASE PopPut(c, C, w)
  BY <1>1, <1>2 DEF PopPut, NoNewWaiters
<1>3. CASE PopTake(c, C, w)
  BY <1>1, <1>3 DEF PopTake, NoNewWaiters
<1> QED BY <1>2, <1>3

(* Answers and sequences. *)
LEMMA ResolveType ==
  ASSUME ChanTypeOK, NEW w \in AnyWaiter, NEW a \in AnyAnswer, Resolve(w, a)
  PROVE  future' \in [Task -> AnyAnswer]
BY DEF ChanTypeOK, Resolve, AnyWaiter

LEMMA AnswersAreAnswers ==
  /\ \A s \in Status : Answer(s) \in AnyAnswer /\ Answer(s).is = s
  /\ \A v \in Int : Given(v) \in AnyAnswer /\ Given(v).is = "value"
BY DEF Answer, Given, AnyAnswer, Nobody

LEMMA ReceiveType ==
  ASSUME ChanTypeOK, NEW c \in Chan, NEW v \in Int, NEW k \in Int, Receive(c, v, k)
  PROVE  /\ received' \in [Chan -> Seq(Record)]
         /\ Len(received'[c]) = Len(received[c]) + 1
         /\ \A d \in Chan : d # c => received'[d] = received[d]
BY DEF ChanTypeOK, Receive, Record

LEMMA Sequences ==
  ASSUME NEW s \in Seq(Int), NEW v \in Int
  PROVE  /\ Append(s, v) \in Seq(Int) /\ Len(Append(s, v)) = Len(s) + 1
         /\ s # <<>> => Head(s) \in Int /\ Tail(s) \in Seq(Int) /\ Len(Tail(s)) = Len(s) - 1
OBVIOUS

LEMMA StoreType ==
  ASSUME ChanTypeOK, NEW c \in Chan, NEW q \in Seq(Int),
         Len(q) <= Len(buffer[c]) + 1, buffer' = [buffer EXCEPT ![c] = q]
  PROVE  /\ buffer' \in [Chan -> Seq(Int)]
         /\ Len(buffer'[c]) <= Len(buffer[c]) + 1
         /\ \A d \in Chan : d # c => buffer'[d] = buffer[d]
BY DEF ChanTypeOK

(* A put that does not wait hands its value over, or stores it, or not. *)
LEMMA PutEffect ==
  ASSUME ChanTypeOK, NEW t \in Task, NEW c \in Chan, NEW v \in Int, PutNow(t, c, v)
  PROVE  /\ ChanTypeOK' /\ NoNewWaiters
         /\ \A d \in Chan : d # c => buffer'[d] = buffer[d]
         /\ \/ /\ future' = future /\ received' = received
               /\ Len(buffer'[c]) <= Len(buffer[c]) + 1
            \/ /\ buffer' = buffer
               /\ Len(received'[c]) = Len(received[c]) + 1
               /\ \A d \in Chan : d # c => received'[d] = received[d]
               /\ \E w \in takes[c] :
                    /\ future[w.task].is = "pending"
                    /\ future' = [future EXCEPT ![w.task] = Given(v)]
<1> DEFINE C == {} \cup {c}
<1>1. on' = on /\ TryPut(c, v, {})
  BY DEF PutNow, taskVars
<1>2. CASE PutRefused({})
  <2>1. Discard({}) /\ buffer' = buffer /\ future' = future /\ received' = received
    BY <1>2 DEF PutRefused
  <2>2. buffer[c] \in Seq(Int)
    BY DEF ChanTypeOK
  <2> QED BY <1>1, <2>1, <2>2, DiscardEffect DEF ChanTypeOK
<1>3. CASE PutHanded(c, v, C)
  <2>1. PICK w \in Oldest(Live(takes[c])) :
          PopTake(c, C, w) /\ Resolve(w, Given(v)) /\ Receive(c, v, w.id)
    BY <1>3 DEF PutHanded
  <2>2. w \in takes[c] /\ future[w.task].is = "pending" /\ w \in AnyWaiter /\ w.id \in Int
    <3>1. w \in Live(takes[c]) BY DEF Oldest
    <3> QED BY <3>1, LiveArePending DEF ChanTypeOK, AnyWaiter
  <2>3. buffer' = buffer BY <1>3 DEF PutHanded
  <2>4. Given(v) \in AnyAnswer BY AnswersAreAnswers
  <2>5. future' \in [Task -> AnyAnswer] BY <2>1, <2>2, <2>4, ResolveType
  <2>6. /\ received' \in [Chan -> Seq(Record)]
        /\ Len(received'[c]) = Len(received[c]) + 1
        /\ \A d \in Chan : d # c => received'[d] = received[d]
    BY <2>1, <2>2, ReceiveType
  <2>7. /\ NoNewWaiters
        /\ puts' \in [Chan -> SUBSET AnyWaiter] /\ takes' \in [Chan -> SUBSET AnyWaiter]
    BY <2>1, PopEffect
  <2>8. ChanTypeOK'
    BY <1>1, <2>3, <2>5, <2>6, <2>7 DEF ChanTypeOK
  <2>9. future' = [future EXCEPT ![w.task] = Given(v)]
    BY <2>1 DEF Resolve
  <2> QED BY <2>2, <2>3, <2>6, <2>7, <2>8, <2>9
<1>4. CASE PutStored(c, v, C)
  <2>1. Discard(C) /\ future' = future /\ received' = received
    BY <1>4 DEF PutStored
  <2>2. buffer[c] \in Seq(Int) /\ Len(buffer[c]) \in Nat
    BY DEF ChanTypeOK
  <2>3. /\ Append(buffer[c], v) \in Seq(Int) /\ Len(Append(buffer[c], v)) = Len(buffer[c]) + 1
        /\ buffer[c] # <<>> =>
             /\ Append(Tail(buffer[c]), v) \in Seq(Int)
             /\ Len(Append(Tail(buffer[c]), v)) = Len(buffer[c])
    BY <2>2, Sequences
  <2>4. ~HasRoom(c) /\ kind[c].capacity > 0 => buffer[c] # <<>>
    BY <2>2 DEF HasRoom
  <2>5. /\ buffer' \in [Chan -> Seq(Int)]
        /\ Len(buffer'[c]) <= Len(buffer[c]) + 1
        /\ \A d \in Chan : d # c => buffer'[d] = buffer[d]
    <3>1. CASE buffer' = [buffer EXCEPT ![c] = Append(buffer[c], v)]
      <4>1. Len(Append(buffer[c], v)) <= Len(buffer[c]) + 1 BY <2>2, <2>3
      <4> QED BY <3>1, <4>1, <2>3, StoreType
    <3>2. CASE ~HasRoom(c) /\ buffer' = [buffer EXCEPT ![c] = Append(Tail(buffer[c]), v)]
      <4>1. buffer[c] # <<>> BY <1>4, <2>4, <3>2 DEF PutStored
      <4>2. Len(Append(Tail(buffer[c]), v)) <= Len(buffer[c]) + 1 BY <2>2, <2>3, <4>1
      <4> QED BY <3>2, <4>1, <4>2, <2>3, StoreType
    <3>3. CASE buffer' = buffer
      BY <3>3, <2>2 DEF ChanTypeOK
    <3> QED BY <1>4, <3>1, <3>2, <3>3 DEF PutStored
  <2>6. ChanTypeOK' /\ NoNewWaiters
    BY <1>1, <2>1, <2>5, DiscardEffect DEF ChanTypeOK
  <2> QED BY <2>1, <2>5, <2>6
<1> QED BY <1>1, <1>2, <1>3, <1>4 DEF TryPut

(* A take that does not wait finds the channel at its end, or takes a value *)
(* and may let a waiting put go on. *)
LEMMA TakeEffect ==
  ASSUME ChanTypeOK, NEW t \in Task, NEW c \in Chan, NEW k \in Int, TakeNow(t, c, k)
  PROVE  /\ ChanTypeOK' /\ NoNewWaiters
         /\ \A d \in Chan : d # c => buffer'[d] = buffer[d]
         /\ \/ AtEnd(c) /\ future' = future /\ received' = received /\ buffer' = buffer
            \/ /\ ~AtEnd(c)
               /\ Len(received'[c]) = Len(received[c]) + 1
               /\ \A d \in Chan : d # c => received'[d] = received[d]
               /\ \/ future' = future /\ Len(buffer'[c]) = Len(buffer[c]) - 1
                  \/ /\ Len(buffer'[c]) <= Len(buffer[c])
                     /\ \E w \in puts[c] :
                          /\ future[w.task].is = "pending"
                          /\ future' = [future EXCEPT ![w.task] = Answer("true")]
<1> DEFINE C == {c}
<1>1. on' = on /\ TryTake(c, k, C)
  BY DEF TakeNow, taskVars
<1>2. buffer[c] \in Seq(Int) /\ Len(buffer[c]) \in Nat
  BY DEF ChanTypeOK
<1>3. CASE TakeNil(c, C)
  <2>1. Discard(C) /\ buffer' = buffer /\ future' = future /\ received' = received
    BY <1>3 DEF TakeNil
  <2>2. AtEnd(c) BY <1>3 DEF TakeNil, AtEnd
  <2> QED BY <1>1, <2>1, <2>2, DiscardEffect DEF ChanTypeOK
<1>4. ASSUME NEW w \in Oldest(Live(puts[c]))
      PROVE  /\ w \in puts[c] /\ future[w.task].is = "pending" /\ w \in AnyWaiter
             /\ w.id \in Int /\ Live(puts[c]) # {}
  <2>1. w \in Live(puts[c]) BY DEF Oldest
  <2> QED BY <2>1, LiveArePending DEF ChanTypeOK, AnyWaiter
<1>5. Answer("true") \in AnyAnswer BY AnswersAreAnswers DEF Status
<1>6. CASE TakeHanded(c, k, C)
  <2>1. PICK w \in Oldest(Live(puts[c])) :
          PopPut(c, C, w) /\ Resolve(w, Answer("true")) /\ Receive(c, w.id, k)
    BY <1>6 DEF TakeHanded
  <2>2. buffer' = buffer BY <1>6 DEF TakeHanded
  <2>3. ~AtEnd(c) BY <1>4 DEF AtEnd
  <2>4. future' \in [Task -> AnyAnswer] BY <2>1, <1>4, <1>5, ResolveType
  <2>5. /\ received' \in [Chan -> Seq(Record)]
        /\ Len(received'[c]) = Len(received[c]) + 1
        /\ \A d \in Chan : d # c => received'[d] = received[d]
    BY <2>1, <1>4, ReceiveType
  <2>6. /\ NoNewWaiters
        /\ puts' \in [Chan -> SUBSET AnyWaiter] /\ takes' \in [Chan -> SUBSET AnyWaiter]
    BY <2>1, PopEffect
  <2>7. ChanTypeOK' BY <1>1, <2>2, <2>4, <2>5, <2>6 DEF ChanTypeOK
  <2>8. future' = [future EXCEPT ![w.task] = Answer("true")] BY <2>1 DEF Resolve
  <2>9. Len(buffer'[c]) <= Len(buffer[c]) BY <2>2, <1>2
  <2> QED BY <1>4, <2>2, <2>3, <2>5, <2>6, <2>7, <2>8, <2>9
<1>7. CASE TakeStored(c, k, C)
  <2>1. /\ buffer[c] # <<>> /\ Receive(c, Head(buffer[c]), k) /\ FillBuffer(c, C)
    BY <1>7 DEF TakeStored
  <2>2. ~AtEnd(c) BY <2>1 DEF AtEnd
  <2>3. /\ Head(buffer[c]) \in Int /\ Tail(buffer[c]) \in Seq(Int)
        /\ Len(Tail(buffer[c])) = Len(buffer[c]) - 1
    BY <1>2, <2>1, Sequences
  <2>4. /\ received' \in [Chan -> Seq(Record)]
        /\ Len(received'[c]) = Len(received[c]) + 1
        /\ \A d \in Chan : d # c => received'[d] = received[d]
    BY <2>1, <2>3, ReceiveType
  <2>5. CASE /\ Live(puts[c]) = {} /\ buffer' = [buffer EXCEPT ![c] = Tail(@)]
             /\ Discard(C) /\ UNCHANGED <<future, accepted>>
    <3>1. /\ buffer' \in [Chan -> Seq(Int)]
          /\ Len(buffer'[c]) = Len(buffer[c]) - 1
          /\ \A d \in Chan : d # c => buffer'[d] = buffer[d]
      BY <2>3, <2>5 DEF ChanTypeOK
    <3>2. ChanTypeOK' /\ NoNewWaiters
      BY <1>1, <2>4, <2>5, <3>1, DiscardEffect DEF ChanTypeOK
    <3> QED BY <2>2, <2>4, <2>5, <3>1, <3>2
  <2>6. CASE \E w \in Oldest(Live(puts[c])) :
               /\ buffer' = [buffer EXCEPT ![c] = Append(Tail(@), w.id)]
               /\ PopPut(c, C, w)
               /\ Resolve(w, Answer("true"))
    <3>1. PICK w \in Oldest(Live(puts[c])) :
               /\ buffer' = [buffer EXCEPT ![c] = Append(Tail(@), w.id)]
               /\ PopPut(c, C, w)
               /\ Resolve(w, Answer("true"))
      BY <2>6
    <3>2. /\ Append(Tail(buffer[c]), w.id) \in Seq(Int)
          /\ Len(Append(Tail(buffer[c]), w.id)) = Len(buffer[c])
      BY <1>2, <1>4, <2>3, Sequences
    <3>3. /\ buffer' \in [Chan -> Seq(Int)]
          /\ Len(buffer'[c]) <= Len(buffer[c])
          /\ \A d \in Chan : d # c => buffer'[d] = buffer[d]
      BY <1>2, <3>1, <3>2 DEF ChanTypeOK
    <3>4. future' \in [Task -> AnyAnswer] BY <3>1, <1>4, <1>5, ResolveType
    <3>5. /\ NoNewWaiters
          /\ puts' \in [Chan -> SUBSET AnyWaiter] /\ takes' \in [Chan -> SUBSET AnyWaiter]
      BY <3>1, PopEffect
    <3>6. ChanTypeOK' BY <1>1, <2>4, <3>3, <3>4, <3>5 DEF ChanTypeOK
    <3>7. future' = [future EXCEPT ![w.task] = Answer("true")] BY <3>1 DEF Resolve
    <3> QED BY <1>4, <2>2, <2>4, <3>3, <3>5, <3>6, <3>7
  <2> QED BY <2>1, <2>5, <2>6 DEF FillBuffer
<1> QED BY <1>1, <1>3, <1>6, <1>7 DEF TryTake

(* A call that waits leaves a waiter of its kind on its channel. *)
LEMMA SleepEffect ==
  ASSUME ChanTypeOK, NEW t \in Task, NEW c \in Chan, NEW k \in Int, NEW p \in BOOLEAN,
         Sleep(t, [chan |-> c, put |-> p], k)
  PROVE  /\ ChanTypeOK'
         /\ buffer' = buffer /\ received' = received
         /\ Idle(t)
         /\ future' = [future EXCEPT ![t] = Answer("pending")]
         /\ on' = [on EXCEPT ![t] = {c}]
         /\ \A d \in Chan :
              /\ puts'[d] \subseteq
                   puts[d] \cup (IF p /\ d = c THEN {[task |-> t, id |-> k]} ELSE {})
              /\ takes'[d] \subseteq
                   takes[d] \cup (IF ~p /\ d = c THEN {[task |-> t, id |-> k]} ELSE {})
<1> DEFINE w == [task |-> t, id |-> k]
           Q(q) == Discarded(q, {c})
           ports == <<[chan |-> c, put |-> p]>>
<1>1. /\ Idle(t)
      /\ puts' = Enqueued(Q(puts), ports, TRUE, w)
      /\ takes' = Enqueued(Q(takes), ports, FALSE, w)
      /\ on' = [on EXCEPT ![t] = {c}]
      /\ future' = [future EXCEPT ![t] = Answer("pending")]
      /\ buffer' = buffer /\ received' = received
  BY DEF Sleep, pastVars
<1>2. w \in AnyWaiter BY DEF AnyWaiter
<1>3. /\ Q(puts) \in [Chan -> SUBSET AnyWaiter]
      /\ Q(takes) \in [Chan -> SUBSET AnyWaiter]
      /\ \A d \in Chan : Q(puts)[d] \subseteq puts[d] /\ Q(takes)[d] \subseteq takes[d]
  BY DEF ChanTypeOK, Discarded, Live
<1>4. ASSUME NEW b \in BOOLEAN
      PROVE  {ports[i].chan : i \in {j \in DOMAIN ports : ports[j].put = b}}
               = IF p = b THEN {c} ELSE {}
  <2>1. DOMAIN ports = {1} /\ ports[1].chan = c /\ ports[1].put = p OBVIOUS
  <2> QED BY <2>1
<1> HIDE DEF Q
<1>5. /\ puts' = [d \in Chan |-> IF d \in (IF p THEN {c} ELSE {})
                                 THEN Q(puts)[d] \cup {w} ELSE Q(puts)[d]]
      /\ takes' = [d \in Chan |-> IF d \in (IF ~p THEN {c} ELSE {})
                                  THEN Q(takes)[d] \cup {w} ELSE Q(takes)[d]]
  <2>1. /\ {ports[i].chan : i \in {j \in DOMAIN ports : ports[j].put = TRUE}}
              = IF p THEN {c} ELSE {}
        /\ {ports[i].chan : i \in {j \in DOMAIN ports : ports[j].put = FALSE}}
              = IF ~p THEN {c} ELSE {}
    <3>1. (IF p = TRUE THEN {c} ELSE {}) = (IF p THEN {c} ELSE {}) OBVIOUS
    <3>2. (IF p = FALSE THEN {c} ELSE {}) = (IF ~p THEN {c} ELSE {}) OBVIOUS
    <3>3. {ports[i].chan : i \in {j \in DOMAIN ports : ports[j].put = TRUE}}
            = IF p = TRUE THEN {c} ELSE {}
      BY <1>4
    <3>4. {ports[i].chan : i \in {j \in DOMAIN ports : ports[j].put = FALSE}}
            = IF p = FALSE THEN {c} ELSE {}
      BY <1>4
    <3> QED BY <3>1, <3>2, <3>3, <3>4
  <2> HIDE DEF ports
  <2> QED BY <1>1, <2>1 DEF Enqueued
<1>6. /\ puts' \in [Chan -> SUBSET AnyWaiter]
      /\ takes' \in [Chan -> SUBSET AnyWaiter]
      /\ \A d \in Chan :
           /\ puts'[d] \subseteq puts[d] \cup (IF p /\ d = c THEN {w} ELSE {})
           /\ takes'[d] \subseteq takes[d] \cup (IF ~p /\ d = c THEN {w} ELSE {})
  <2> HIDE DEF w
  <2> QED BY <1>2, <1>3, <1>5
<1>7. Answer("pending") \in AnyAnswer BY AnswersAreAnswers DEF Status
<1>8. ChanTypeOK'
  BY <1>1, <1>6, <1>7 DEF ChanTypeOK
<1> QED BY <1>1, <1>6, <1>8

(* A task that goes on leaves no waiter on the channel it slept on. *)
LEMMA ResumeEffect ==
  ASSUME ChanTypeOK, NEW t \in Task, Resume(t)
  PROVE  /\ ChanTypeOK' /\ NoNewWaiters
         /\ buffer' = buffer /\ received' = received
         /\ Done(t) /\ future' = [future EXCEPT ![t] = Answer("none")]
         /\ on' = [on EXCEPT ![t] = {}]
         /\ \A c \in on[t] : \A w \in puts'[c] \cup takes'[c] : w.task # t
<1>1. /\ Done(t) /\ Discard(on[t])
      /\ future' = [future EXCEPT ![t] = Answer("none")]
      /\ on' = [on EXCEPT ![t] = {}]
      /\ buffer' = buffer /\ received' = received
  BY DEF Resume, pastVars
<1>2. Answer("none") \in AnyAnswer BY AnswersAreAnswers DEF Status
<1>3. ChanTypeOK' /\ NoNewWaiters
  BY <1>1, <1>2, DiscardEffect DEF ChanTypeOK
<1>4. ASSUME NEW c \in on[t], NEW w \in puts'[c] \cup takes'[c]
      PROVE  w.task # t
  <2>1. c \in Chan BY DEF ChanTypeOK
  <2>2. w \in Live(puts[c]) \/ w \in Live(takes[c])
    BY <1>1, <1>4, <2>1, DiscardEffect
  <2>3. future[w.task].is = "pending" BY <2>2, LiveArePending
  <2> QED BY <1>1, <2>3 DEF Done
<1> QED BY <1>1, <1>3, <1>4

(* Closing a channel answers those who wait on it. *)
LEMMA CloseEffect ==
  ASSUME ChanTypeOK, NEW c \in Chan, Close(c)
  PROVE  /\ ChanTypeOK' /\ NoNewWaiters
         /\ buffer' = buffer /\ received' = received /\ on' = on
         /\ \A t \in Task :
              \/ future'[t] = future[t]
              \/ /\ future[t].is = "pending" /\ future'[t].is = "false"
                 /\ \E w \in puts[c] : w.task = t
              \/ /\ future[t].is = "pending" /\ future'[t].is = "nil"
                 /\ \E w \in takes[c] : w.task = t
<1>1. /\ future' = [t \in Task |-> Woken(c, t)]
      /\ puts' = [puts EXCEPT ![c] = {}]
      /\ takes' = [takes EXCEPT ![c] = IF buffer[c] = <<>> THEN {} ELSE Live(@)]
      /\ buffer' = buffer /\ received' = received /\ on' = on
  BY DEF Close, taskVars, pastVars
<1>2. /\ Answer("false") \in AnyAnswer /\ Answer("false").is = "false"
      /\ Answer("nil") \in AnyAnswer /\ Answer("nil").is = "nil"
  BY AnswersAreAnswers DEF Status
<1>3. /\ puts' \in [Chan -> SUBSET AnyWaiter] /\ takes' \in [Chan -> SUBSET AnyWaiter]
      /\ NoNewWaiters
  BY <1>1 DEF ChanTypeOK, NoNewWaiters, Live
<1>4. ASSUME NEW t \in Task
      PROVE  /\ Woken(c, t) \in AnyAnswer
             /\ \/ Woken(c, t) = future[t]
                \/ /\ future[t].is = "pending" /\ Woken(c, t).is = "false"
                   /\ \E w \in puts[c] : w.task = t
                \/ /\ future[t].is = "pending" /\ Woken(c, t).is = "nil"
                   /\ \E w \in takes[c] : w.task = t
  <2>1. Waits(puts[c], t) => future[t].is = "pending" /\ \E w \in puts[c] : w.task = t
    BY LiveArePending DEF Waits
  <2>2. Waits(takes[c], t) => future[t].is = "pending" /\ \E w \in takes[c] : w.task = t
    BY LiveArePending DEF Waits
  <2>3. future[t] \in AnyAnswer BY DEF ChanTypeOK
  <2> QED BY <1>2, <2>1, <2>2, <2>3 DEF Woken
<1>5. ChanTypeOK'
  BY <1>1, <1>3, <1>4 DEF ChanTypeOK
<1> QED BY <1>1, <1>3, <1>4, <1>5

(* A task that is cancelled is answered, or has been. *)
LEMMA CancelEffect ==
  ASSUME ChanTypeOK, NEW t \in Task, Cancel(t)
  PROVE  /\ ChanTypeOK'
         /\ UNCHANGED <<puts, takes, buffer, received, on>>
         /\ \/ future' = future /\ Done(t)
            \/ /\ future[t].is = "pending"
               /\ future' = [future EXCEPT ![t] = Answer("cancelled")]
<1>1. Answer("cancelled") \in AnyAnswer BY AnswersAreAnswers DEF Status
<1> QED BY <1>1 DEF Cancel, ChanTypeOK, chanVars, pastVars

----------------------------------------------------------------------------
(* The inductive invariant.                                                 *)

(* Who waits where: each side of a channel has one task. *)
Sides ==
  /\ \A w \in takes[Source] : w.task = Forwarder
  /\ \A w \in puts[Destination] : w.task = Forwarder
  /\ \A w \in puts[Source] : w.task = Producer
  /\ \A w \in takes[Destination] : w.task = Consumer

(* What the forwarder sleeps in is the call its place in the code makes. *)
Asleep ==
  /\ takes[Source] # {} => ~Idle(Forwarder) /\ pc = "admit"
  /\ puts[Destination] # {} => ~Idle(Forwarder) /\ pc = "emit"
  /\ ~Idle(Forwarder) =>
       \/ /\ pc = "admit" /\ on[Forwarder] = {Source}
          /\ future[Forwarder].is \in {"pending", "cancelled", "value", "nil"}
       \/ /\ pc = "emit" /\ left > 0 /\ on[Forwarder] = {Destination}
          /\ future[Forwarder].is \in {"pending", "cancelled", "true", "false"}

(* A value that was put to the source was taken, is stored, or is waiting. *)
Offered == IF future[Producer].is = "pending" THEN 1 ELSE 0
Balance == Len(received[Source]) + Len(buffer[Source]) + Offered <= fed

(* What the forwarder knows of the inputs in work. *)
WorkOK ==
  /\ pc = "created" => pending = {} /\ ~inputClosed
  /\ \A n \in Input : worker[n] = "ok" => made[n] # NotYet
  /\ \A n \in completed : made[n] # NotYet
  /\ left > 0 => nextOutput \in Input /\ made[nextOutput] # NotYet
  /\ pc = "sort" => batch \subseteq pending
  /\ pc = "handle" => batch \subseteq pending \cup InRepair
  /\ pc = "admit" => ~inputClosed /\ Cardinality(pending) < Parallelism

Parted ==
  Running =>
    /\ Gone \cup Leaving \cup completed \cup pending \cup InRepair = 1..admitted
    /\ (Gone \cup Leaving) \cap (completed \cup pending \cup InRepair) = {}
    /\ completed \cap pending = {}
    /\ InRepair \cap (completed \cup pending) = {}

Counted == Running => Len(received[Source]) = admitted + Arrived

ChanInv == ChanTypeOK /\ Sides /\ Asleep /\ Balance
OwnInv  == PipeTypeOK /\ WorkOK /\ Parted
PipeInv == ChanInv /\ OwnInv /\ Counted

LEMMA PartsAreParts == NothingForgotten <=> Parted /\ Counted
BY DEF NothingForgotten, Parted, Counted

LEMMA InvInit == PipeInit => PipeInv
<1> SUFFICES ASSUME PipeInit PROVE PipeInv
  OBVIOUS
<1> USE PipelineAssumption, ChannelAssumption DEF PipeInit, Init
<1>1. ChanTypeOK
  <2>1. Answer("none") \in AnyAnswer BY AnswersAreAnswers DEF Status
  <2>2. <<>> \in Seq(Int) /\ <<>> \in Seq(Record) OBVIOUS
  <2> QED BY <2>1, <2>2 DEF ChanTypeOK
<1>2. \A t \in Task : future[t].is = "none"
  BY DEF Answer
<1>3. Sides /\ Asleep
  BY <1>2 DEF Sides, Asleep, Idle
<1>4. Balance
  BY <1>2 DEF Balance, Offered
<1>5. PipeTypeOK
  <2>1. Cardinality({}) = 0 BY FS_EmptySet
  <2>2. Parallelism >= 0 /\ MaxInputs >= 0 /\ MaxCancels >= 0 /\ Fan >= 0
    OBVIOUS
  <2>3. pending = {} /\ Cardinality(pending) <= Parallelism
    BY <2>1, <2>2
  <2>4. worker \in [Input -> Work] /\ made \in [Input -> 0..Fan \cup {NotYet}]
    BY DEF Work
  <2>5. /\ program \in Programs /\ pc \in Place /\ inputClosed \in BOOLEAN /\ end \in Ends
    BY DEF Place, Ends
  <2>6. /\ admitted \in 0..MaxInputs /\ fed \in 0..MaxInputs /\ cancels \in 0..MaxCancels
        /\ nextOutput \in 1..(admitted + 1) /\ left \in 0..Fan
    BY <2>2
  <2> QED BY <2>3, <2>4, <2>5, <2>6 DEF PipeTypeOK
<1>6. WorkOK
  BY DEF WorkOK, Input
<1>7. Parted
  BY DEF Parted, Gone, Leaving, InRepair
<1>8. Counted
  BY DEF Counted, Arrived
<1> QED BY <1>1, <1>3, <1>4, <1>5, <1>6, <1>7, <1>8 DEF PipeInv, ChanInv, OwnInv

----------------------------------------------------------------------------
(* The forwarder's own steps.                                               *)

LEMMA PendingFinite ==
  ASSUME PipeTypeOK
  PROVE  IsFiniteSet(pending) /\ Cardinality(pending) \in Nat
<1>1. IsFiniteSet(1..admitted)
  BY FS_Interval DEF PipeTypeOK
<1>2. IsFiniteSet(pending)
  BY <1>1, FS_Subset DEF PipeTypeOK
<1> QED BY <1>2, FS_CardinalityType

(* Fewer inputs in work are not too many. *)
LEMMA FewerPending ==
  ASSUME PipeTypeOK, NEW S, S \subseteq pending
  PROVE  Cardinality(S) <= Parallelism
<1>1. Cardinality(S) <= Cardinality(pending) /\ Cardinality(S) \in Nat
  BY PendingFinite, FS_Subset, FS_CardinalityType
<1> QED BY <1>1, PendingFinite, PipelineAssumption DEF PipeTypeOK

LEMMA OneMorePending ==
  ASSUME PipeTypeOK, Cardinality(pending) < Parallelism, NEW n
  PROVE  Cardinality(pending \cup {n}) <= Parallelism
<1>1. IsFiniteSet(pending) /\ Cardinality(pending) \in Nat /\ Parallelism \in Nat
  BY PendingFinite, PipelineAssumption
<1>2. CASE n \in pending
  <2>1. pending \cup {n} = pending BY <1>2
  <2> QED BY <1>1, <2>1
<1>3. CASE n \notin pending
  <2>1. Cardinality(pending \cup {n}) = Cardinality(pending) + 1
    BY <1>1, <1>3, FS_AddElement
  <2> QED BY <1>1, <2>1
<1> QED BY <1>2, <1>3

(* Where Proceed goes, and what it knows there. *)
LEMMA ProceedEffect ==
  ASSUME PipeTypeOK, NEW ended \in BOOLEAN, NEW running, Proceed(ended, running)
  PROVE  /\ pc' \in {"admit", "wait", "closing"} /\ end' \in Ends
         /\ pc' = "admit" => ~ended /\ Cardinality(running) < Parallelism
BY DEF Proceed, LoopHead, Stop, Goto, PipeTypeOK, Ends

(* It is asleep only in a call of take or put. *)
LEMMA AwakeElsewhere ==
  ASSUME Asleep, pc # "admit", pc # "emit" \/ left = 0, left \in Int
  PROVE  /\ Idle(Forwarder) /\ Arrived = 0
         /\ takes[Source] = {} /\ puts[Destination] = {}
<1>1. Idle(Forwarder) BY DEF Asleep
<1> QED BY <1>1 DEF Asleep, Arrived

(* Awake, it leaves the channels in order if nobody waits in its place. *)
LEMMA AwakeChan ==
  ASSUME ChanInv, ChanTypeOK', NoNewWaiters, Balance',
         takes'[Source] = {}, puts'[Destination] = {}, Idle(Forwarder)'
  PROVE  ChanInv'
<1>1. Source \in Chan /\ Destination \in Chan BY PipelineAssumption
<1>2. Sides' BY <1>1 DEF ChanInv, Sides, NoNewWaiters
<1>3. Asleep' BY DEF Asleep
<1> QED BY <1>2, <1>3 DEF ChanInv

(* The steps that call no channel. *)
LEMMA LocalChan ==
  ASSUME PipeInv, UNCHANGED <<vars, fed, admitted>>,
         pc # "admit", pc # "emit" \/ left = 0, Running' => Running
  PROVE  ChanInv' /\ Counted'
<1>1. /\ Idle(Forwarder) /\ Arrived = 0
      /\ takes[Source] = {} /\ puts[Destination] = {}
  <2>1. left \in Int BY DEF PipeInv, OwnInv, PipeTypeOK
  <2> QED BY <2>1, AwakeElsewhere DEF PipeInv, ChanInv
<1>2. /\ puts' = puts /\ takes' = takes /\ buffer' = buffer /\ future' = future
      /\ on' = on /\ received' = received
  BY DEF vars, chanVars, taskVars, pastVars
<1>3. ChanTypeOK' /\ NoNewWaiters /\ Balance'
  BY <1>2 DEF PipeInv, ChanInv, ChanTypeOK, NoNewWaiters, Balance, Offered
<1>4. Idle(Forwarder)' BY <1>1, <1>2 DEF Idle
<1>5. ChanInv' BY <1>1, <1>2, <1>3, <1>4, AwakeChan DEF PipeInv
<1>6. Arrived' = 0 BY <1>4 DEF Arrived, Idle
<1>7. Counted' BY <1>1, <1>2, <1>6 DEF PipeInv, Counted
<1> QED BY <1>5, <1>7

(* What the forwarder knows does not depend on the channels. *)
LEMMA OwnStays ==
  ASSUME OwnInv, UNCHANGED ownVars, fed' \in 0..MaxInputs, cancels' \in 0..MaxCancels
  PROVE  OwnInv'
<1>1. /\ program' = program /\ pc' = pc /\ worker' = worker /\ made' = made /\ end' = end
      /\ inputClosed' = inputClosed /\ admitted' = admitted /\ pending' = pending
      /\ batch' = batch /\ completed' = completed /\ nextOutput' = nextOutput /\ left' = left
  BY DEF ownVars, flowVars, outVars
<1>2. PipeTypeOK' BY <1>1 DEF OwnInv, PipeTypeOK
<1>3. InRepair' = InRepair /\ Gone' = Gone /\ Leaving' = Leaving /\ Running' = Running
  BY <1>1 DEF InRepair, Gone, Leaving, Running, IsFirst
<1>4. WorkOK' BY <1>1, <1>3 DEF OwnInv, WorkOK
<1>5. Parted' BY <1>1, <1>3 DEF OwnInv, Parted
<1> QED BY <1>2, <1>4, <1>5 DEF OwnInv

(* It comes to its end: nothing is said of its inputs any more. *)
LEMMA OwnEnds ==
  ASSUME OwnInv, pc' \in {"closing", "joining", "ended"}, end' \in Ends,
         UNCHANGED <<program, flowVars, outVars, made, fed>>, cancels' \in 0..MaxCancels,
         worker' \in [Input -> Work], \A n \in Input : worker'[n] = "ok" => worker[n] = "ok"
  PROVE  OwnInv' /\ ~Running'
<1>1. /\ program' = program /\ made' = made /\ fed' = fed
      /\ inputClosed' = inputClosed /\ admitted' = admitted /\ pending' = pending
      /\ batch' = batch /\ completed' = completed /\ nextOutput' = nextOutput /\ left' = left
  BY DEF flowVars, outVars
<1>2. pc' \in Place BY DEF Place
<1>3. PipeTypeOK' BY <1>1, <1>2 DEF OwnInv, PipeTypeOK
<1>4. WorkOK' BY <1>1 DEF OwnInv, WorkOK
<1>5. ~Running' BY DEF Running
<1>6. Parted' BY <1>5 DEF Parted
<1> QED BY <1>3, <1>4, <1>5, <1>6 DEF OwnInv
----------------------------------------------------------------------------
(* What each step does to the inputs.                                       *)

LEMMA StartOwn ==
  ASSUME PipeInv, Start
  PROVE  PipeInv'
<1>1. /\ pc = "created" /\ pc' = "admit"
      /\ UNCHANGED <<vars, envVars, program, flowVars, worker, outVars, made, end>>
  BY DEF Start, Goto
<1>2. OwnInv'
  <2>1. /\ program' = program /\ worker' = worker /\ made' = made /\ end' = end
        /\ inputClosed' = inputClosed /\ admitted' = admitted /\ pending' = pending
        /\ batch' = batch /\ completed' = completed /\ nextOutput' = nextOutput /\ left' = left
        /\ fed' = fed /\ cancels' = cancels
    BY <1>1 DEF flowVars, outVars, envVars
  <2>2. PipeTypeOK' BY <1>1, <2>1 DEF PipeInv, OwnInv, PipeTypeOK, Place
  <2>3. WorkOK'
    <3>1. Cardinality(pending') = 0
      BY <1>1, <2>1, FS_EmptySet DEF PipeInv, OwnInv, WorkOK
    <3> QED BY <1>1, <2>1, <3>1, PipelineAssumption DEF PipeInv, OwnInv, WorkOK
  <2>4. Parted'
    <3>1. InRepair = {} /\ InRepair' = {} /\ Running BY <1>1 DEF InRepair, Running
    <3>2. Gone' = Gone /\ Leaving' = Leaving BY <2>1 DEF Gone, Leaving
    <3> QED BY <2>1, <3>1, <3>2 DEF PipeInv, OwnInv, Parted
  <2> QED BY <2>2, <2>3, <2>4 DEF OwnInv
<1>3. ChanInv' /\ Counted'
  BY <1>1, LocalChan DEF envVars, flowVars, Running
<1> QED BY <1>2, <1>3 DEF PipeInv

LEMMA WaitReturnsOwn ==
  ASSUME OwnInv, WaitReturns
  PROVE  OwnInv'
<1>1. /\ pc = "wait" /\ pc' = "sort" /\ batch' = Finished /\ Finished \subseteq pending
      /\ program' = program /\ worker' = worker /\ made' = made /\ end' = end
      /\ inputClosed' = inputClosed /\ admitted' = admitted /\ pending' = pending
      /\ completed' = completed /\ nextOutput' = nextOutput /\ left' = left
      /\ fed' = fed /\ cancels' = cancels
  BY DEF WaitReturns, Goto, Finished, outVars, envVars
<1>2. PipeTypeOK' BY <1>1 DEF OwnInv, PipeTypeOK, Place
<1>3. WorkOK' BY <1>1 DEF OwnInv, WorkOK
<1>4. Parted'
  <2>1. InRepair = {} /\ InRepair' = {} /\ Running BY <1>1 DEF InRepair, Running
  <2>2. Gone' = Gone /\ Leaving' = Leaving BY <1>1 DEF Gone, Leaving
  <2> QED BY <1>1, <2>1, <2>2 DEF OwnInv, Parted
<1> QED BY <1>2, <1>3, <1>4 DEF OwnInv

(* The first of a set of inputs is one of them, and the only one. *)
LEMMA OneFirst ==
  ASSUME NEW S, S \subseteq Int, NEW n, IsFirst(n, S)
  PROVE  {m \in S : IsFirst(m, S)} = {n} /\ n \in S
<1>1. n \in S /\ \A m \in S : n <= m
  BY DEF IsFirst
<1>2. ASSUME NEW m \in S, IsFirst(m, S) PROVE m = n
  <2>1. m <= n /\ n <= m BY <1>1, <1>2 DEF IsFirst
  <2>2. m \in Int /\ n \in Int BY <1>1
  <2> QED BY <2>1, <2>2
<1> QED BY <1>1, <1>2

LEMMA TaskSucceededOwn ==
  ASSUME OwnInv, NEW n \in Input, TaskSucceeded(n)
  PROVE  OwnInv'
<1>1. /\ pc = "sort" /\ pc' = pc /\ n \in batch /\ worker[n] = "ok"
      /\ batch' = batch \ {n} /\ pending' = pending \ {n} /\ completed' = completed \cup {n}
      /\ program' = program /\ worker' = worker /\ made' = made /\ end' = end
      /\ inputClosed' = inputClosed /\ admitted' = admitted
      /\ nextOutput' = nextOutput /\ left' = left
      /\ fed' = fed /\ cancels' = cancels
  BY DEF TaskSucceeded, IsFirst, envVars
<1>2. n \in pending BY <1>1 DEF OwnInv, WorkOK
<1>3. PipeTypeOK'
  <2>1. Cardinality(pending') <= Parallelism BY <1>1, FewerPending DEF OwnInv
  <2>2. completed' \subseteq 1..admitted BY <1>1, <1>2 DEF OwnInv, PipeTypeOK
  <2> QED BY <1>1, <2>1, <2>2 DEF OwnInv, PipeTypeOK
<1>4. WorkOK' BY <1>1 DEF OwnInv, WorkOK
<1>5. Parted'
  <2>1. InRepair = {} /\ InRepair' = {} /\ Running BY <1>1 DEF InRepair, Running
  <2>2. Gone' = Gone /\ Leaving' = Leaving BY <1>1 DEF Gone, Leaving
  <2> QED BY <1>1, <1>2, <2>1, <2>2 DEF OwnInv, Parted
<1> QED BY <1>3, <1>4, <1>5 DEF OwnInv

LEMMA TaskFailedOwn ==
  ASSUME OwnInv, NEW n \in Input, TaskFailed(n)
  PROVE  OwnInv' /\ (pc' = "handle" \/ ~Running')
<1>1. /\ pc = "sort" /\ IsFirst(n, batch)
      /\ batch' = batch /\ pending' = pending \ {n} /\ completed' = completed
      /\ program' = program /\ worker' = worker /\ made' = made
      /\ inputClosed' = inputClosed /\ admitted' = admitted
      /\ nextOutput' = nextOutput /\ left' = left
      /\ fed' = fed /\ cancels' = cancels
      /\ \/ pc' = "handle" /\ end' = end
         \/ pc' = "closing" /\ end' = "failed"
  BY DEF TaskFailed, Goto, Stop, envVars, outVars
<1>2. n \in pending /\ {m \in batch : IsFirst(m, batch)} = {n}
  <2>1. batch \subseteq Int /\ batch \subseteq pending
    BY <1>1 DEF OwnInv, PipeTypeOK, WorkOK
  <2> QED BY <1>1, <2>1, OneFirst
<1>3. PipeTypeOK'
  <2>1. Cardinality(pending') <= Parallelism BY <1>1, FewerPending DEF OwnInv
  <2>2. pc' \in Place /\ end' \in Ends BY <1>1 DEF OwnInv, PipeTypeOK, Place, Ends
  <2> QED BY <1>1, <2>1, <2>2 DEF OwnInv, PipeTypeOK
<1>4. pc' = "handle" => InRepair' = {n} BY <1>1, <1>2 DEF InRepair, IsFirst
<1>5. WorkOK' BY <1>1, <1>4 DEF OwnInv, WorkOK
<1>6. Parted'
  <2>1. InRepair = {} /\ Running BY <1>1 DEF InRepair, Running
  <2>2. Gone' = Gone /\ Leaving' = Leaving BY <1>1 DEF Gone, Leaving
  <2>3. CASE pc' = "handle"
    BY <1>1, <1>2, <1>4, <2>1, <2>2, <2>3 DEF OwnInv, Parted
  <2>4. CASE pc' = "closing"
    BY <2>4 DEF Parted, Running
  <2> QED BY <1>1, <2>3, <2>4
<1>7. pc' = "handle" \/ ~Running' BY <1>1 DEF Running
<1> QED BY <1>3, <1>5, <1>6, <1>7 DEF OwnInv

LEMMA HandlerReturnsOwn ==
  ASSUME OwnInv, NEW n \in Input, HandlerReturns(n)
  PROVE  OwnInv'
<1>1. PICK k \in Yields : made' = [made EXCEPT ![n] = k]
  BY DEF HandlerReturns
<1>2. /\ pc = "handle" /\ pc' = "sort" /\ IsFirst(n, batch)
      /\ batch' = batch \ {n} /\ completed' = completed \cup {n}
      /\ program' = program /\ worker' = worker /\ end' = end
      /\ inputClosed' = inputClosed /\ admitted' = admitted /\ pending' = pending
      /\ nextOutput' = nextOutput /\ left' = left
      /\ fed' = fed /\ cancels' = cancels
  BY DEF HandlerReturns, Goto, envVars
<1>3. n \in batch /\ InRepair = {n}
  <2>1. batch \subseteq Int BY DEF OwnInv, PipeTypeOK
  <2> QED BY <1>2, <2>1, OneFirst DEF InRepair
<1>4. k \in 0..Fan /\ k # NotYet
  <2>1. k \in 0..Fan BY PipelineAssumption
  <2>2. 0..Fan \subseteq Nat BY PipelineAssumption
  <2> QED BY <2>1, <2>2, PipelineAssumption
<1>5. made \in [Input -> 0..Fan \cup {NotYet}] BY DEF OwnInv, PipeTypeOK
<1>6. PipeTypeOK' BY <1>1, <1>2, <1>3, <1>4 DEF OwnInv, PipeTypeOK, Place
<1>7. WorkOK' BY <1>1, <1>2, <1>3, <1>4, <1>5 DEF OwnInv, WorkOK
<1>8. Parted'
  <2>1. InRepair' = {} /\ Running BY <1>2 DEF InRepair, Running
  <2>2. Gone' = Gone /\ Leaving' = Leaving BY <1>2 DEF Gone, Leaving
  <2> QED BY <1>2, <1>3, <2>1, <2>2 DEF OwnInv, Parted
<1> QED BY <1>6, <1>7, <1>8 DEF OwnInv

LEMMA BatchDoneOwn ==
  ASSUME OwnInv, BatchDone
  PROVE  OwnInv'
<1>1. /\ pc = "sort" /\ pc' = "emit"
      /\ program' = program /\ worker' = worker /\ made' = made /\ end' = end
      /\ inputClosed' = inputClosed /\ admitted' = admitted /\ pending' = pending
      /\ batch' = batch /\ completed' = completed /\ nextOutput' = nextOutput /\ left' = left
      /\ fed' = fed /\ cancels' = cancels
  BY DEF BatchDone, Goto, flowVars, outVars, envVars
<1>2. PipeTypeOK' BY <1>1 DEF OwnInv, PipeTypeOK, Place
<1>3. WorkOK' BY <1>1 DEF OwnInv, WorkOK
<1>4. Parted'
  <2>1. InRepair = {} /\ InRepair' = {} /\ Running BY <1>1 DEF InRepair, Running
  <2>2. Gone' = Gone /\ Leaving' = Leaving BY <1>1 DEF Gone, Leaving
  <2> QED BY <1>1, <2>1, <2>2 DEF OwnInv, Parted
<1> QED BY <1>2, <1>3, <1>4 DEF OwnInv
LEMMA NextResultOwn ==
  ASSUME OwnInv, NEW n \in Input, NextResult(n)
  PROVE  OwnInv'
<1>1. /\ pc = "emit" /\ pc' = pc /\ left = 0 /\ n = nextOutput /\ n \in completed
      /\ completed' = completed \ {n} /\ left' = made[n]
      /\ nextOutput' = IF made[n] = 0 THEN n + 1 ELSE n
      /\ program' = program /\ worker' = worker /\ made' = made /\ end' = end
      /\ inputClosed' = inputClosed /\ admitted' = admitted /\ pending' = pending
      /\ batch' = batch /\ fed' = fed /\ cancels' = cancels
  BY DEF NextResult, IsNext, flowVars, envVars
<1>2. made[n] \in 0..Fan /\ Fan \in Nat
  <2>1. made[n] \in 0..Fan \cup {NotYet} BY DEF OwnInv, PipeTypeOK
  <2>2. made[n] # NotYet BY <1>1 DEF OwnInv, WorkOK
  <2> QED BY <2>1, <2>2, PipelineAssumption
<1>3. n \in 1..admitted /\ admitted \in Nat
  BY <1>1 DEF OwnInv, PipeTypeOK
<1>4. PipeTypeOK'
  <2>1. nextOutput' \in 1..(admitted' + 1) BY <1>1, <1>3
  <2> QED BY <1>1, <1>2, <2>1 DEF OwnInv, PipeTypeOK
<1>5. WorkOK'
  <2>1. left' > 0 => nextOutput' = n BY <1>1, <1>2
  <2>2. made'[n] # NotYet BY <1>1, <1>2, PipelineAssumption
  <2> QED BY <1>1, <2>1, <2>2 DEF OwnInv, WorkOK
<1>6. Parted'
  <2>1. InRepair = {} /\ InRepair' = {} /\ Running BY <1>1 DEF InRepair, Running
  <2>2. Gone' \cup Leaving' = (Gone \cup Leaving) \cup {n}
    <3>1. CASE made[n] = 0
      <4>1. Leaving = {} /\ Leaving' = {} BY <1>1, <3>1 DEF Leaving
      <4>2. Gone' = Gone \cup {n} BY <1>1, <1>3, <3>1 DEF Gone
      <4> QED BY <4>1, <4>2
    <3>2. CASE made[n] # 0
      <4>1. Leaving = {} /\ Leaving' = {n} BY <1>1, <1>2, <3>2 DEF Leaving
      <4>2. Gone' = Gone BY <1>1, <3>2 DEF Gone
      <4> QED BY <4>1, <4>2
    <3> QED BY <3>1, <3>2
  <2> QED BY <1>1, <2>1, <2>2 DEF OwnInv, Parted
<1> QED BY <1>4, <1>5, <1>6 DEF OwnInv

LEMMA NothingDueOwn ==
  ASSUME OwnInv, NothingDue
  PROVE  OwnInv'
<1>1. /\ pc = "emit" /\ Proceed(inputClosed, pending)
      /\ program' = program /\ worker' = worker /\ made' = made
      /\ inputClosed' = inputClosed /\ admitted' = admitted /\ pending' = pending
      /\ batch' = batch /\ completed' = completed /\ nextOutput' = nextOutput /\ left' = left
      /\ fed' = fed /\ cancels' = cancels
  BY DEF NothingDue, flowVars, outVars, envVars
<1>2. /\ pc' \in {"admit", "wait", "closing"} /\ end' \in Ends
      /\ pc' = "admit" => ~inputClosed /\ Cardinality(pending) < Parallelism
  <2>1. inputClosed \in BOOLEAN BY DEF OwnInv, PipeTypeOK
  <2> QED BY <1>1, <2>1, ProceedEffect DEF OwnInv
<1>3. PipeTypeOK' BY <1>1, <1>2 DEF OwnInv, PipeTypeOK, Place
<1>4. WorkOK' BY <1>1, <1>2 DEF OwnInv, WorkOK
<1>5. Parted'
  <2>1. InRepair = {} /\ InRepair' = {} /\ Running BY <1>1, <1>2 DEF InRepair, Running
  <2>2. Gone' = Gone /\ Leaving' = Leaving BY <1>1 DEF Gone, Leaving
  <2> QED BY <1>1, <2>1, <2>2 DEF OwnInv, Parted
<1> QED BY <1>3, <1>4, <1>5 DEF OwnInv

(* An output was put, or refused. *)
LEMMA PutDoneOwn ==
  ASSUME OwnInv, pc = "emit", left > 0, PutDone,
         UNCHANGED <<envVars, program, flowVars, worker, made>>
  PROVE  OwnInv' /\ pc' = pc /\ left' \in Int
<1>1. /\ pc' = pc /\ left' = left - 1 /\ completed' = completed /\ end' = end
      /\ nextOutput' = IF left = 1 THEN nextOutput + 1 ELSE nextOutput
      /\ program' = program /\ worker' = worker /\ made' = made
      /\ inputClosed' = inputClosed /\ admitted' = admitted /\ pending' = pending
      /\ batch' = batch /\ fed' = fed /\ cancels' = cancels
  BY DEF PutDone, flowVars, envVars
<1>2. left \in 1..Fan /\ Fan \in Nat
  BY PipelineAssumption DEF OwnInv, PipeTypeOK
<1>3. InRepair = {} /\ InRepair' = {} /\ Running BY <1>1 DEF InRepair, Running
<1>4. nextOutput \in 1..admitted /\ admitted \in Nat
  <2>1. nextOutput \in Leaving BY <1>2 DEF Leaving
  <2> QED BY <1>3, <2>1 DEF OwnInv, Parted, PipeTypeOK
<1>5. PipeTypeOK'
  <2>1. left' \in 0..Fan BY <1>1, <1>2
  <2>2. nextOutput' \in 1..(admitted' + 1) BY <1>1, <1>4
  <2> QED BY <1>1, <2>1, <2>2 DEF OwnInv, PipeTypeOK
<1>6. WorkOK'
  <2>1. left' > 0 => nextOutput' = nextOutput BY <1>1, <1>2
  <2> QED BY <1>1, <1>2, <2>1 DEF OwnInv, WorkOK
<1>7. Parted'
  <2>1. Gone' \cup Leaving' = Gone \cup Leaving
    <3>1. CASE left = 1
      <4>1. Leaving = {nextOutput} /\ Leaving' = {} BY <1>1, <3>1 DEF Leaving
      <4>2. Gone' = Gone \cup {nextOutput} BY <1>1, <1>4, <3>1 DEF Gone
      <4> QED BY <4>1, <4>2
    <3>2. CASE left # 1
      <4>1. Leaving = {nextOutput} /\ Leaving' = {nextOutput}
        BY <1>1, <1>2, <3>2 DEF Leaving
      <4>2. Gone' = Gone BY <1>1, <3>2 DEF Gone
      <4> QED BY <4>1, <4>2
    <3> QED BY <3>1, <3>2
  <2> QED BY <1>1, <1>3, <2>1 DEF OwnInv, Parted
<1>8. left' \in Int BY <1>1, <1>2
<1> QED BY <1>1, <1>5, <1>6, <1>7, <1>8 DEF OwnInv

LEMMA RefusedOwn ==
  ASSUME OwnInv, Refused, UNCHANGED <<envVars, program, flowVars, worker, made>>
  PROVE  OwnInv' /\ ~Running'
<1>1. /\ pc' = "closing" /\ end' \in Ends
      /\ UNCHANGED <<program, flowVars, outVars, made, fed>>
  BY DEF Refused, Stop, Goto, Ends, envVars
<1>2. /\ cancels' \in 0..MaxCancels /\ worker' \in [Input -> Work] /\ worker' = worker
  BY DEF envVars, OwnInv, PipeTypeOK
<1> QED BY <1>1, <1>2, OwnEnds

(* A value was taken from the source, or it is at its end. *)
LEMMA AdmitOwn ==
  ASSUME OwnInv, pc = "admit", admitted < MaxInputs, Admit, UNCHANGED envVars
  PROVE  OwnInv' /\ admitted' = admitted + 1 /\ pc' \in Place
<1> DEFINE n == admitted + 1
<1>1. /\ admitted' = n /\ program' = program /\ inputClosed' = inputClosed /\ batch' = batch
      /\ nextOutput' = nextOutput /\ left' = left /\ fed' = fed /\ cancels' = cancels
  BY DEF Admit, envVars
<1>2. /\ admitted \in Nat /\ n \in Input /\ n \in Nat /\ n \notin 1..admitted
      /\ 1..n = (1..admitted) \cup {n}
  BY PipelineAssumption DEF OwnInv, PipeTypeOK, Input
<1>3. /\ inputClosed \in BOOLEAN /\ ~inputClosed /\ Cardinality(pending) < Parallelism
      /\ nextOutput \in 1..n /\ pending \subseteq 1..admitted /\ completed \subseteq 1..admitted
      /\ batch \subseteq 1..admitted
  BY DEF OwnInv, PipeTypeOK, WorkOK
<1>4. /\ worker \in [Input -> Work] /\ made \in [Input -> 0..Fan \cup {NotYet}]
  BY DEF OwnInv, PipeTypeOK
<1>5. InRepair = {} /\ Running BY DEF InRepair, Running
<1>6. Gone' = Gone /\ Leaving' = Leaving BY <1>1 DEF Gone, Leaving
<1>7. CASE program.pipe
  <2>1. /\ completed' = completed \cup {n} /\ made' = [made EXCEPT ![n] = 1]
        /\ pc' = "emit" /\ pending' = pending /\ worker' = worker /\ end' = end
    BY <1>7 DEF Admit, Goto
  <2>2. 1 \in 0..Fan /\ 1 # NotYet BY PipelineAssumption
  <2>3. PipeTypeOK'
    <3>1. made' \in [Input -> 0..Fan \cup {NotYet}] BY <1>2, <1>4, <2>1, <2>2
    <3>2. /\ completed' \subseteq 1..n /\ pending' \subseteq 1..n /\ batch' \subseteq 1..n
          /\ n \in 0..MaxInputs /\ nextOutput' \in 1..(n + 1)
      BY <1>1, <1>2, <1>3, <2>1 DEF Input
    <3> HIDE DEF n
    <3> QED BY <1>1, <2>1, <3>1, <3>2 DEF OwnInv, PipeTypeOK, Place
  <2>4. WorkOK' BY <1>1, <1>2, <1>4, <2>1, <2>2 DEF OwnInv, WorkOK
  <2>5. Parted'
    <3>1. InRepair' = {} BY <2>1 DEF InRepair
    <3> HIDE DEF n
    <3> QED BY <1>1, <1>2, <1>5, <1>6, <2>1, <3>1 DEF OwnInv, Parted
  <2>6. pc' \in Place BY <2>1 DEF Place
  <2> QED BY <1>1, <2>3, <2>4, <2>5, <2>6 DEF OwnInv
<1>8. CASE ~program.pipe
  <2>1. /\ pending' = pending \cup {n} /\ worker' = [worker EXCEPT ![n] = "running"]
        /\ Proceed(inputClosed, pending') /\ completed' = completed /\ made' = made
    BY <1>8 DEF Admit
  <2>2. /\ pc' \in {"admit", "wait", "closing"} /\ end' \in Ends
        /\ pc' = "admit" => ~inputClosed /\ Cardinality(pending') < Parallelism
    BY <1>3, <2>1, ProceedEffect DEF OwnInv
  <2>3. PipeTypeOK'
    <3>1. worker' \in [Input -> Work] BY <1>4, <2>1 DEF Work
    <3>2. Cardinality(pending') <= Parallelism BY <1>3, <2>1, OneMorePending DEF OwnInv
    <3>3. /\ completed' \subseteq 1..n /\ pending' \subseteq 1..n /\ batch' \subseteq 1..n
          /\ n \in 0..MaxInputs /\ nextOutput' \in 1..(n + 1)
      BY <1>1, <1>2, <1>3, <2>1 DEF Input
    <3>4. pc' \in Place BY <2>2 DEF Place
    <3> HIDE DEF n
    <3> QED BY <1>1, <2>1, <2>2, <3>1, <3>2, <3>3, <3>4 DEF OwnInv, PipeTypeOK
  <2>4. WorkOK' BY <1>1, <1>2, <1>4, <2>1, <2>2 DEF OwnInv, WorkOK
  <2>5. Parted'
    <3>1. InRepair' = {} BY <2>2 DEF InRepair
    <3> HIDE DEF n
    <3> QED BY <1>1, <1>2, <1>3, <1>5, <1>6, <2>1, <3>1 DEF OwnInv, Parted
  <2>6. pc' \in Place BY <2>2 DEF Place
  <2> QED BY <1>1, <2>3, <2>4, <2>5, <2>6 DEF OwnInv
<1> QED BY <1>7, <1>8

LEMMA NoMoreInputOwn ==
  ASSUME OwnInv, pc = "admit", NoMoreInput, UNCHANGED envVars
  PROVE  OwnInv' /\ admitted' = admitted /\ pc' \in {"wait", "closing"}
<1>1. /\ Proceed(TRUE, pending) /\ inputClosed' = TRUE
      /\ program' = program /\ worker' = worker /\ made' = made
      /\ admitted' = admitted /\ pending' = pending
      /\ batch' = batch /\ completed' = completed /\ nextOutput' = nextOutput /\ left' = left
      /\ fed' = fed /\ cancels' = cancels
  BY DEF NoMoreInput, outVars, envVars
<1>2. pc' \in {"wait", "closing"} /\ end' \in Ends
  BY <1>1, ProceedEffect DEF OwnInv
<1>3. PipeTypeOK' BY <1>1, <1>2 DEF OwnInv, PipeTypeOK, Place
<1>4. WorkOK' BY <1>1, <1>2 DEF OwnInv, WorkOK
<1>5. Parted'
  <2>1. InRepair = {} /\ InRepair' = {} /\ Running BY <1>2 DEF InRepair, Running
  <2>2. Gone' = Gone /\ Leaving' = Leaving BY <1>1 DEF Gone, Leaving
  <2> QED BY <1>1, <2>1, <2>2 DEF OwnInv, Parted
<1> QED BY <1>1, <1>2, <1>3, <1>4, <1>5 DEF OwnInv
----------------------------------------------------------------------------
(* The steps that call a channel keep the whole invariant.                  *)

LEMMA TakeInputInv ==
  ASSUME PipeInv, TakeInput
  PROVE  PipeInv'
<1>1. /\ pc = "admit" /\ TakeNow(Forwarder, Source, admitted + 1) /\ UNCHANGED envVars
      /\ AtEnd(Source) => NoMoreInput
      /\ ~AtEnd(Source) => Admit
  BY DEF TakeInput
<1>2. /\ ChanTypeOK /\ Forwarder \in Task /\ Producer \in Task /\ Source \in Chan
      /\ Destination \in Chan /\ Producer # Forwarder
      /\ admitted \in Nat /\ admitted + 1 \in Int /\ fed \in 0..MaxInputs /\ fed' = fed
  BY <1>1, PipelineAssumption DEF PipeInv, ChanInv, OwnInv, PipeTypeOK, envVars
<1>3. Idle(Forwarder) /\ on' = on BY <1>1 DEF TakeNow, taskVars
<1>4. /\ takes[Source] = {} /\ puts[Destination] = {} /\ Running /\ Arrived = 0
      /\ Len(received[Source]) = admitted
  BY <1>1, <1>2, <1>3 DEF PipeInv, ChanInv, Asleep, Running, Arrived, Counted, Idle
<1>5. /\ ChanTypeOK' /\ NoNewWaiters
      /\ \/ AtEnd(Source) /\ future' = future /\ received' = received /\ buffer' = buffer
         \/ /\ ~AtEnd(Source) /\ Len(received'[Source]) = Len(received[Source]) + 1
            /\ \/ future' = future /\ Len(buffer'[Source]) = Len(buffer[Source]) - 1
               \/ /\ Len(buffer'[Source]) <= Len(buffer[Source])
                  /\ \E w \in puts[Source] :
                       /\ future[w.task].is = "pending"
                       /\ future' = [future EXCEPT ![w.task] = Answer("true")]
  BY <1>1, <1>2, TakeEffect
<1>6. /\ Len(received[Source]) \in Nat /\ Len(buffer[Source]) \in Nat
      /\ Len(received'[Source]) \in Nat /\ Len(buffer'[Source]) \in Nat
      /\ future \in [Task -> AnyAnswer]
  BY <1>2, <1>5 DEF ChanTypeOK
<1>7. \A w \in puts[Source] : w.task = Producer BY DEF PipeInv, ChanInv, Sides
<1> DEFINE r == Len(received[Source])  b == Len(buffer[Source])  o == Offered
           rr == Len(received'[Source]) bb == Len(buffer'[Source]) oo == Offered'
<1>s. /\ r \in Nat /\ b \in Nat /\ o \in Nat /\ rr \in Nat /\ bb \in Nat /\ oo \in Nat
      /\ fed \in Nat /\ r + b + o <= fed /\ (Balance' <=> rr + bb + oo <= fed)
  <2>1. o \in Nat /\ oo \in Nat BY DEF Offered
  <2>2. r \in Nat /\ b \in Nat /\ rr \in Nat /\ bb \in Nat BY <1>6
  <2>3. fed \in Nat BY <1>2, PipelineAssumption
  <2>4. r + b + o <= fed BY DEF PipeInv, ChanInv, Balance
  <2>5. Balance' <=> rr + bb + oo <= fed'
    BY DEF Balance
  <2> HIDE DEF r, b, o, rr, bb, oo
  <2> QED BY <1>2, <2>1, <2>2, <2>3, <2>4, <2>5
<1>8. /\ future'[Forwarder] = future[Forwarder]
      /\ rr + bb + oo <= fed
  <2>1. CASE AtEnd(Source) /\ future' = future /\ received' = received /\ buffer' = buffer
    <3>1. rr = r /\ bb = b /\ oo = o BY <2>1 DEF Offered
    <3> HIDE DEF r, b, o, rr, bb, oo
    <3> QED BY <1>s, <2>1, <3>1
  <2>2. CASE /\ future' = future /\ bb = b - 1 /\ rr = r + 1
    <3>1. oo = o BY <2>2 DEF Offered
    <3> HIDE DEF r, b, o, rr, bb, oo
    <3> QED BY <1>s, <2>2, <3>1
  <2>3. CASE /\ bb <= b /\ rr = r + 1
             /\ \E w \in puts[Source] :
                  /\ future[w.task].is = "pending"
                  /\ future' = [future EXCEPT ![w.task] = Answer("true")]
    <3>1. /\ future[Producer].is = "pending"
          /\ future' = [future EXCEPT ![Producer] = Answer("true")]
      BY <1>7, <2>3
    <3>2. future'[Producer].is = "true" BY <1>2, <1>6, <3>1 DEF Answer
    <3>3. o = 1 /\ oo = 0 BY <3>1, <3>2 DEF Offered
    <3>4. future'[Forwarder] = future[Forwarder] BY <1>2, <1>6, <3>1
    <3> HIDE DEF r, b, o, rr, bb, oo
    <3> QED BY <1>s, <2>3, <3>3, <3>4
  <2> QED BY <1>5, <2>1, <2>2, <2>3
<1>b. Balance' BY <1>s, <1>8
<1>9. Idle(Forwarder)' BY <1>3, <1>8 DEF Idle
<1>10. takes'[Source] = {} /\ puts'[Destination] = {}
  BY <1>2, <1>4, <1>5 DEF NoNewWaiters
<1>11. ChanInv'
  BY <1>5, <1>b, <1>9, <1>10, AwakeChan DEF PipeInv
<1>12. Arrived' = 0 BY <1>9 DEF Arrived, Idle
<1>13. CASE AtEnd(Source)
  <2>1. OwnInv' /\ admitted' = admitted
    BY <1>1, <1>13, NoMoreInputOwn DEF PipeInv
  <2>2. Counted' BY <1>2, <1>4, <1>5, <1>12, <1>13, <2>1 DEF Counted
  <2> QED BY <1>11, <2>1, <2>2 DEF PipeInv
<1>14. CASE ~AtEnd(Source)
  <2>1. Len(received'[Source]) = admitted + 1 BY <1>4, <1>5, <1>14
  <2>2. admitted < MaxInputs
    <3>1. rr = admitted + 1 BY <2>1
    <3> HIDE DEF r, b, o, rr, bb, oo
    <3>2. admitted + 1 <= fed BY <1>2, <1>s, <1>8, <3>1
    <3> QED BY <1>2, <3>2, PipelineAssumption
  <2>3. OwnInv' /\ admitted' = admitted + 1
    BY <1>1, <1>14, <2>2, AdmitOwn DEF PipeInv
  <2>4. Counted' BY <1>2, <2>1, <1>12, <2>3 DEF Counted
  <2> QED BY <1>11, <2>3, <2>4 DEF PipeInv
<1> QED BY <1>13, <1>14

(* The forwarder goes to sleep in the call of its place. *)
LEMMA AwaitInputInv ==
  ASSUME PipeInv, AwaitInput
  PROVE  PipeInv'
<1>1. /\ pc = "admit" /\ UNCHANGED <<ownVars, envVars>>
      /\ Sleep(Forwarder, [chan |-> Source, put |-> FALSE], admitted + 1)
  BY DEF AwaitInput, TakeFrom
<1>2. /\ ChanTypeOK /\ Forwarder \in Task /\ Producer \in Task /\ Source \in Chan
      /\ Destination \in Chan /\ Producer # Forwarder /\ Destination # Source
      /\ admitted + 1 \in Int
  BY PipelineAssumption DEF PipeInv, ChanInv, OwnInv, PipeTypeOK
<1>3. /\ ChanTypeOK' /\ buffer' = buffer /\ received' = received
      /\ Idle(Forwarder)
      /\ future' = [future EXCEPT ![Forwarder] = Answer("pending")]
      /\ on' = [on EXCEPT ![Forwarder] = {Source}]
      /\ \A d \in Chan :
           /\ puts'[d] \subseteq puts[d]
           /\ takes'[d] \subseteq
                takes[d] \cup (IF d = Source
                               THEN {[task |-> Forwarder, id |-> admitted + 1]} ELSE {})
  <2>1. FALSE \in BOOLEAN OBVIOUS
  <2> QED BY <1>1, <1>2, <2>1, SleepEffect
<1>4. /\ pc' = pc /\ left' = left /\ fed' = fed /\ cancels' = cancels /\ admitted' = admitted
  BY <1>1 DEF ownVars, flowVars, outVars, envVars
<1>5. /\ future'[Forwarder].is = "pending" /\ future'[Producer] = future[Producer]
      /\ on'[Forwarder] = {Source}
  BY <1>2, <1>3 DEF ChanTypeOK, Answer
<1>6. puts[Destination] = {} BY <1>1, <1>2 DEF PipeInv, ChanInv, Asleep
<1>7. Sides' BY <1>2, <1>3 DEF PipeInv, ChanInv, Sides
<1>8. Asleep'
  <2>1. puts'[Destination] = {} BY <1>2, <1>3, <1>6
  <2>2. ~Idle(Forwarder)' BY <1>5 DEF Idle
  <2> QED BY <1>1, <1>4, <1>5, <2>1, <2>2 DEF Asleep
<1>9. Balance' BY <1>3, <1>4, <1>5 DEF PipeInv, ChanInv, Balance, Offered
<1>10. OwnInv'
  <2>1. fed' \in 0..MaxInputs /\ cancels' \in 0..MaxCancels
    BY <1>4 DEF PipeInv, OwnInv, PipeTypeOK
  <2> QED BY <1>1, <2>1, OwnStays DEF PipeInv
<1>11. Counted'
  <2>1. Arrived = 0 BY <1>3 DEF Arrived, Idle
  <2>2. Arrived' = 0 BY <1>5 DEF Arrived
  <2>3. Running BY <1>1 DEF Running
  <2> QED BY <1>3, <1>4, <2>1, <2>2, <2>3 DEF PipeInv, Counted
<1> QED BY <1>3, <1>7, <1>8, <1>9, <1>10, <1>11 DEF PipeInv, ChanInv

LEMMA DueItemInt ==
  ASSUME OwnInv, pc = "emit", left > 0
  PROVE  DueItem \in Int
<1>1. left \in Int /\ Fan \in Int /\ left > 0 BY PipelineAssumption DEF OwnInv, PipeTypeOK
<1>2. nextOutput \in Leaving /\ Running BY <1>1 DEF Leaving, Running
<1>3. nextOutput \in 1..admitted BY <1>2 DEF OwnInv, Parted
<1>4. nextOutput \in Input /\ nextOutput \in Int
  BY <1>3, PipelineAssumption DEF OwnInv, PipeTypeOK, Input
<1>5. made[nextOutput] \in 0..Fan
  <2>1. made[nextOutput] \in 0..Fan \cup {NotYet} BY <1>4 DEF OwnInv, PipeTypeOK
  <2>2. made[nextOutput] # NotYet BY DEF OwnInv, WorkOK
  <2> QED BY <2>1, <2>2
<1>6. made[nextOutput] - left + 1 \in Int BY <1>1, <1>5
<1>7. (nextOutput - 1) * Fan \in Int BY <1>1, <1>4
<1> QED BY <1>6, <1>7 DEF DueItem, Item

LEMMA AwaitOutputInv ==
  ASSUME PipeInv, AwaitOutput
  PROVE  PipeInv'
<1>1. /\ pc = "emit" /\ left > 0 /\ UNCHANGED <<ownVars, envVars>>
      /\ Sleep(Forwarder, [chan |-> Destination, put |-> TRUE], DueItem)
  BY DEF AwaitOutput, PutTo
<1>2. /\ ChanTypeOK /\ Forwarder \in Task /\ Producer \in Task /\ Source \in Chan
      /\ Destination \in Chan /\ Producer # Forwarder /\ Destination # Source
  BY PipelineAssumption DEF PipeInv, ChanInv
<1>3. DueItem \in Int BY <1>1, DueItemInt DEF PipeInv
<1>4. /\ ChanTypeOK' /\ buffer' = buffer /\ received' = received
      /\ Idle(Forwarder)
      /\ future' = [future EXCEPT ![Forwarder] = Answer("pending")]
      /\ on' = [on EXCEPT ![Forwarder] = {Destination}]
      /\ \A d \in Chan :
           /\ puts'[d] \subseteq
                puts[d] \cup (IF d = Destination
                              THEN {[task |-> Forwarder, id |-> DueItem]} ELSE {})
           /\ takes'[d] \subseteq takes[d]
  <2> DEFINE item == DueItem
  <2>1. TRUE \in BOOLEAN /\ item \in Int BY <1>3
  <2>2. Sleep(Forwarder, [chan |-> Destination, put |-> TRUE], item) BY <1>1
  <2> HIDE DEF item
  <2>3. /\ ChanTypeOK' /\ buffer' = buffer /\ received' = received
        /\ Idle(Forwarder)
        /\ future' = [future EXCEPT ![Forwarder] = Answer("pending")]
        /\ on' = [on EXCEPT ![Forwarder] = {Destination}]
        /\ \A d \in Chan :
             /\ puts'[d] \subseteq
                  puts[d] \cup (IF d = Destination
                                THEN {[task |-> Forwarder, id |-> item]} ELSE {})
             /\ takes'[d] \subseteq takes[d]
    BY <1>2, <2>1, <2>2, SleepEffect
  <2> QED BY <2>3 DEF item
<1>5. /\ pc' = pc /\ left' = left /\ fed' = fed /\ cancels' = cancels /\ admitted' = admitted
  BY <1>1 DEF ownVars, flowVars, outVars, envVars
<1>6. /\ future'[Forwarder].is = "pending" /\ future'[Producer] = future[Producer]
      /\ on'[Forwarder] = {Destination}
  BY <1>2, <1>4 DEF ChanTypeOK, Answer
<1>7. takes[Source] = {} BY <1>1, <1>2 DEF PipeInv, ChanInv, Asleep
<1>8. Sides' BY <1>2, <1>4 DEF PipeInv, ChanInv, Sides
<1>9. Asleep'
  <2>1. takes'[Source] = {} BY <1>2, <1>4, <1>7
  <2>2. ~Idle(Forwarder)' BY <1>6 DEF Idle
  <2> QED BY <1>1, <1>5, <1>6, <2>1, <2>2 DEF Asleep
<1>10. Balance' BY <1>4, <1>5, <1>6 DEF PipeInv, ChanInv, Balance, Offered
<1>11. OwnInv'
  <2>1. fed' \in 0..MaxInputs /\ cancels' \in 0..MaxCancels
    BY <1>5 DEF PipeInv, OwnInv, PipeTypeOK
  <2> QED BY <1>1, <2>1, OwnStays DEF PipeInv
<1>12. Counted'
  <2>1. Arrived = 0 /\ Arrived' = 0 BY <1>1, <1>5 DEF Arrived
  <2>2. Running BY <1>1 DEF Running
  <2> QED BY <1>4, <1>5, <2>1, <2>2 DEF PipeInv, Counted
<1> QED BY <1>4, <1>8, <1>9, <1>10, <1>11, <1>12 DEF PipeInv, ChanInv
(* No value moves, and the producer does not wait with one more. *)
LEMMA BalanceStays ==
  ASSUME PipeInv, received'[Source] = received[Source], buffer'[Source] = buffer[Source],
         fed' = fed, future'[Producer].is = "pending" => future[Producer].is = "pending"
  PROVE  Balance'
<1> DEFINE r == Len(received[Source])  b == Len(buffer[Source])
           o == Offered  oo == Offered'
<1>1. r \in Nat /\ b \in Nat /\ fed \in Nat
  BY PipelineAssumption DEF PipeInv, ChanInv, ChanTypeOK, OwnInv, PipeTypeOK
<1>2. o \in Nat /\ oo \in Nat /\ oo <= o BY DEF Offered
<1>3. r + b + o <= fed BY DEF PipeInv, ChanInv, Balance
<1>4. Balance' <=> r + b + oo <= fed BY DEF Balance
<1> HIDE DEF r, b, o, oo
<1> QED BY <1>1, <1>2, <1>3, <1>4

LEMMA TasksAndChans ==
  /\ Forwarder \in Task /\ Producer \in Task /\ Consumer \in Task
  /\ Producer # Forwarder /\ Consumer # Forwarder /\ Consumer # Producer
  /\ Source \in Chan /\ Destination \in Chan /\ Destination # Source
BY PipelineAssumption

(* The forwarder wakes up: nobody waits in its place any more. *)
LEMMA ForwarderWakes ==
  ASSUME PipeInv, Resume(Forwarder), fed' = fed
  PROVE  /\ ChanInv' /\ Done(Forwarder) /\ received' = received /\ Arrived' = 0
         /\ pc = "admit" \/ (pc = "emit" /\ left > 0)
<1>1. ChanTypeOK BY DEF PipeInv, ChanInv
<1>2. /\ ChanTypeOK' /\ NoNewWaiters
      /\ buffer' = buffer /\ received' = received
      /\ Done(Forwarder) /\ future' = [future EXCEPT ![Forwarder] = Answer("none")]
      /\ \A c \in on[Forwarder] : \A w \in puts'[c] \cup takes'[c] : w.task # Forwarder
  BY <1>1, TasksAndChans, ResumeEffect
<1>3. ~Idle(Forwarder) BY <1>2 DEF Done, Idle
<1>4. /\ future'[Forwarder].is = "none" /\ future'[Producer] = future[Producer]
  BY <1>1, <1>2, TasksAndChans DEF ChanTypeOK, Answer
<1>5. Idle(Forwarder)' /\ Arrived' = 0 BY <1>4 DEF Idle, Arrived
<1>6. takes'[Source] = {}
  <2>1. CASE pc = "admit" /\ on[Forwarder] = {Source}
    <3>1. \A w \in takes'[Source] : w.task # Forwarder BY <1>2, <2>1
    <3>2. \A w \in takes'[Source] : w.task = Forwarder
      BY <1>2, TasksAndChans DEF NoNewWaiters, PipeInv, ChanInv, Sides
    <3> QED BY <3>1, <3>2
  <2>2. CASE pc = "emit"
    <3>1. takes[Source] = {} BY <2>2 DEF PipeInv, ChanInv, Asleep
    <3> QED BY <1>2, <3>1, TasksAndChans DEF NoNewWaiters
  <2> QED BY <1>3, <2>1, <2>2 DEF PipeInv, ChanInv, Asleep
<1>7. puts'[Destination] = {}
  <2>1. CASE pc = "admit"
    <3>1. puts[Destination] = {} BY <2>1 DEF PipeInv, ChanInv, Asleep
    <3> QED BY <1>2, <3>1, TasksAndChans DEF NoNewWaiters
  <2>2. CASE pc = "emit" /\ on[Forwarder] = {Destination}
    <3>1. \A w \in puts'[Destination] : w.task # Forwarder BY <1>2, <2>2
    <3>2. \A w \in puts'[Destination] : w.task = Forwarder
      BY <1>2, TasksAndChans DEF NoNewWaiters, PipeInv, ChanInv, Sides
    <3> QED BY <3>1, <3>2
  <2> QED BY <1>3, <2>1, <2>2 DEF PipeInv, ChanInv, Asleep
<1>8. Balance' BY <1>2, <1>4, BalanceStays
<1>9. ChanInv' BY <1>2, <1>5, <1>6, <1>7, <1>8, AwakeChan DEF PipeInv
<1>10. Asleep BY DEF PipeInv, ChanInv
<1>11. pc = "admit" \/ (pc = "emit" /\ left > 0) BY <1>3, <1>10 DEF Asleep
<1> QED BY <1>2, <1>5, <1>9, <1>11

LEMMA InputArrivesInv ==
  ASSUME PipeInv, InputArrives
  PROVE  PipeInv'
<1>1. /\ pc = "admit" /\ Resume(Forwarder) /\ ~Raises(Forwarder) /\ UNCHANGED envVars
      /\ fed' = fed
      /\ future[Forwarder].is = "nil" => NoMoreInput
      /\ future[Forwarder].is # "nil" => Admit
  BY DEF InputArrives, envVars
<1>2. ChanInv' /\ Done(Forwarder) /\ received' = received /\ Arrived' = 0
  BY <1>1, ForwarderWakes
<1>3. future[Forwarder].is \in {"value", "nil"}
  <2>1. ~Idle(Forwarder) /\ future[Forwarder].is # "pending" BY <1>2 DEF Done, Idle
  <2>2. future[Forwarder].is # "cancelled" BY <1>1 DEF Raises
  <2>3. future[Forwarder].is \in {"pending", "cancelled", "value", "nil"}
    BY <1>1, <2>1 DEF PipeInv, ChanInv, Asleep
  <2> QED BY <2>1, <2>2, <2>3
<1>4. Len(received[Source]) = admitted + Arrived BY <1>1 DEF PipeInv, Counted, Running
<1>5. admitted \in Nat BY DEF PipeInv, OwnInv, PipeTypeOK
<1>6. CASE future[Forwarder].is = "nil"
  <2>1. OwnInv' /\ admitted' = admitted BY <1>1, <1>6, NoMoreInputOwn DEF PipeInv
  <2>2. Arrived = 0 BY <1>6 DEF Arrived
  <2>3. Counted' BY <1>2, <1>4, <1>5, <2>1, <2>2 DEF Counted
  <2> QED BY <1>2, <2>1, <2>3 DEF PipeInv
<1>7. CASE future[Forwarder].is = "value"
  <2>1. Arrived = 1 BY <1>1, <1>7 DEF Arrived
  <2>2. admitted < MaxInputs
    <3> DEFINE b == Len(buffer[Source])
    <3>1. b \in Nat /\ Offered \in Nat
      BY TasksAndChans DEF Offered, PipeInv, ChanInv, ChanTypeOK
    <3>2. admitted + 1 + b + Offered <= fed BY <1>4, <2>1 DEF PipeInv, ChanInv, Balance
    <3>3. fed \in 0..MaxInputs /\ MaxInputs \in Nat
      BY PipelineAssumption DEF PipeInv, OwnInv, PipeTypeOK
    <3> HIDE DEF b
    <3> QED BY <1>5, <3>1, <3>2, <3>3
  <2>3. OwnInv' /\ admitted' = admitted + 1
    BY <1>1, <1>7, <2>2, AdmitOwn DEF PipeInv
  <2>4. Counted' BY <1>2, <1>4, <1>5, <2>1, <2>3 DEF Counted
  <2> QED BY <1>2, <2>3, <2>4 DEF PipeInv
<1> QED BY <1>3, <1>6, <1>7

LEMMA CallRaisesInv ==
  ASSUME PipeInv, CallRaises
  PROVE  PipeInv'
<1>1. /\ Resume(Forwarder) /\ pc' = "closing" /\ end' = "cancelled"
      /\ UNCHANGED <<program, flowVars, outVars, made, fed>> /\ fed' = fed
      /\ cancels' = cancels /\ worker' = worker
  BY DEF CallRaises, Stop, Goto, envVars
<1>2. ChanInv' BY <1>1, ForwarderWakes
<1>3. OwnInv' /\ ~Running'
  <2>1. /\ end' \in Ends /\ cancels' \in 0..MaxCancels /\ worker' \in [Input -> Work]
    BY <1>1 DEF Ends, PipeInv, OwnInv, PipeTypeOK
  <2> QED BY <1>1, <2>1, OwnEnds DEF PipeInv
<1> QED BY <1>2, <1>3 DEF PipeInv, Counted

LEMMA OutputReturnsInv ==
  ASSUME PipeInv, OutputReturns
  PROVE  PipeInv'
<1>1. /\ pc = "emit" /\ left > 0 /\ Resume(Forwarder) /\ fed' = fed
      /\ UNCHANGED <<envVars, program, flowVars, worker, made>>
      /\ Refused \/ PutDone
  BY DEF OutputReturns, envVars
<1>2. ChanInv' /\ received' = received /\ Arrived' = 0 BY <1>1, ForwarderWakes
<1>3. CASE Refused
  BY <1>1, <1>2, <1>3, RefusedOwn DEF PipeInv, Counted
<1>4. CASE PutDone
  <2>1. OwnInv' /\ pc' = pc BY <1>1, <1>4, PutDoneOwn DEF PipeInv
  <2>2. Arrived = 0 /\ Running BY <1>1 DEF Arrived, Running
  <2>3. admitted' = admitted BY <1>1 DEF flowVars
  <2>4. Counted' BY <1>2, <2>2, <2>3 DEF PipeInv, Counted
  <2> QED BY <1>2, <2>1, <2>4 DEF PipeInv
<1> QED BY <1>1, <1>3, <1>4

LEMMA PutOutputInv ==
  ASSUME PipeInv, PutOutput
  PROVE  PipeInv'
<1>1. /\ pc = "emit" /\ left > 0 /\ fed' = fed
      /\ PutNow(Forwarder, Destination, DueItem)
      /\ UNCHANGED <<envVars, program, flowVars, worker, made>>
      /\ Refused \/ PutDone
  BY DEF PutOutput, envVars
<1>2. DueItem \in Int BY <1>1, DueItemInt DEF PipeInv
<1>3. Idle(Forwarder) BY <1>1 DEF PutNow
<1>4. ChanTypeOK /\ takes[Source] = {} /\ puts[Destination] = {}
  BY <1>1, <1>3 DEF PipeInv, ChanInv, Asleep
<1>5. /\ ChanTypeOK' /\ NoNewWaiters
      /\ \A d \in Chan : d # Destination => buffer'[d] = buffer[d]
      /\ \A d \in Chan : d # Destination => received'[d] = received[d]
      /\ \/ future' = future
         \/ \E w \in takes[Destination] : future' = [future EXCEPT ![w.task] = Given(DueItem)]
  <2> DEFINE item == DueItem
  <2>1. item \in Int /\ PutNow(Forwarder, Destination, item) BY <1>1, <1>2
  <2> HIDE DEF item
  <2>2. /\ ChanTypeOK' /\ NoNewWaiters
        /\ \A d \in Chan : d # Destination => buffer'[d] = buffer[d]
        /\ \/ /\ future' = future /\ received' = received
              /\ Len(buffer'[Destination]) <= Len(buffer[Destination]) + 1
           \/ /\ buffer' = buffer
              /\ Len(received'[Destination]) = Len(received[Destination]) + 1
              /\ \A d \in Chan : d # Destination => received'[d] = received[d]
              /\ \E w \in takes[Destination] :
                   /\ future[w.task].is = "pending"
                   /\ future' = [future EXCEPT ![w.task] = Given(item)]
    BY <1>4, <2>1, TasksAndChans, PutEffect
  <2> QED BY <2>2 DEF item
<1>6. /\ received'[Source] = received[Source] /\ buffer'[Source] = buffer[Source]
      /\ takes'[Source] = {} /\ puts'[Destination] = {}
  BY <1>4, <1>5, TasksAndChans DEF NoNewWaiters
<1>7. future'[Forwarder] = future[Forwarder] /\ future'[Producer] = future[Producer]
  <2>1. \A w \in takes[Destination] : w.task = Consumer BY DEF PipeInv, ChanInv, Sides
  <2> QED BY <1>4, <1>5, <2>1, TasksAndChans DEF ChanTypeOK
<1>8. Idle(Forwarder)' /\ Arrived' = 0 BY <1>3, <1>7 DEF Idle, Arrived
<1>9. Balance' BY <1>1, <1>6, <1>7, BalanceStays
<1>10. ChanInv' BY <1>5, <1>6, <1>8, <1>9, AwakeChan DEF PipeInv
<1>11. CASE Refused
  BY <1>1, <1>10, <1>11, RefusedOwn DEF PipeInv, Counted
<1>12. CASE PutDone
  <2>1. OwnInv' /\ pc' = pc BY <1>1, <1>12, PutDoneOwn DEF PipeInv
  <2>2. Arrived = 0 /\ Running BY <1>1 DEF Arrived, Running
  <2>3. admitted' = admitted BY <1>1 DEF flowVars
  <2>4. Counted' BY <1>6, <1>8, <2>2, <2>3 DEF PipeInv, Counted
  <2> QED BY <1>10, <2>1, <2>4 DEF PipeInv
<1> QED BY <1>1, <1>11, <1>12
----------------------------------------------------------------------------
(* The end of the forwarder.                                                *)

(* It ends without calling a channel. *)
LEMMA EndsInv ==
  ASSUME PipeInv, pc # "admit", pc # "emit", pc' \in {"closing", "joining", "ended"},
         end' \in Ends, cancels' \in 0..MaxCancels,
         UNCHANGED <<vars, program, flowVars, outVars, made, fed>>,
         worker' \in [Input -> Work], \A n \in Input : worker'[n] = "ok" => worker[n] = "ok"
  PROVE  PipeInv'
<1>1. OwnInv' /\ ~Running' BY OwnEnds DEF PipeInv
<1>2. UNCHANGED <<vars, fed, admitted>> BY DEF flowVars
<1>3. ChanInv' /\ Counted' BY <1>1, <1>2, LocalChan
<1> QED BY <1>1, <1>3 DEF PipeInv

LEMMA HandlerRaisesInv ==
  ASSUME PipeInv, HandlerRaises
  PROVE  PipeInv'
<1>1. /\ pc = "handle" /\ pc' = "closing" /\ end' = "failed" /\ cancels' = cancels
      /\ UNCHANGED <<vars, program, flowVars, outVars, made, fed>> /\ worker' = worker
  BY DEF HandlerRaises, Stop, Goto, envVars
<1>2. end' \in Ends /\ cancels' \in 0..MaxCancels /\ worker' \in [Input -> Work]
  BY <1>1 DEF Ends, PipeInv, OwnInv, PipeTypeOK
<1> QED BY <1>1, <1>2, EndsInv

LEMMA AbandonInv ==
  ASSUME PipeInv, Abandon
  PROVE  PipeInv'
<1>1. /\ pc = "closing" /\ pc' = "joining" /\ end' = end /\ cancels' = cancels
      /\ UNCHANGED <<vars, program, flowVars, outVars, made, fed>>
      /\ worker' = [n \in Input |->
           IF n \in pending /\ worker[n] = "running" THEN "cancelled" ELSE worker[n]]
  BY DEF Abandon, Goto, envVars
<1>2. end' \in Ends /\ cancels' \in 0..MaxCancels
  BY <1>1 DEF PipeInv, OwnInv, PipeTypeOK
<1>3. /\ worker' \in [Input -> Work]
      /\ \A n \in Input : worker'[n] = "ok" => worker[n] = "ok"
  BY <1>1 DEF Work, PipeInv, OwnInv, PipeTypeOK
<1> QED BY <1>1, <1>2, <1>3, EndsInv

LEMMA LeaveInv ==
  ASSUME PipeInv, Leave
  PROVE  PipeInv'
<1>1. /\ pc = "joining" /\ pc' = "ended" /\ end' = end /\ cancels' = cancels /\ fed' = fed
      /\ UNCHANGED <<program, flowVars, outVars, made, fed>> /\ worker' = worker
      /\ UNCHANGED vars \/ Close(Destination)
  BY DEF Leave, CloseOutput, Goto, envVars
<1>2. end' \in Ends /\ cancels' \in 0..MaxCancels /\ worker' \in [Input -> Work]
  BY <1>1 DEF PipeInv, OwnInv, PipeTypeOK
<1>3. CASE UNCHANGED vars
  BY <1>1, <1>2, <1>3, EndsInv
<1>4. CASE Close(Destination)
  <2>1. OwnInv' /\ ~Running' BY <1>1, <1>2, OwnEnds DEF PipeInv
  <2>2. ChanTypeOK /\ left \in Int BY DEF PipeInv, ChanInv, OwnInv, PipeTypeOK
  <2>3. Idle(Forwarder) /\ takes[Source] = {} /\ puts[Destination] = {}
    BY <1>1, <2>2, AwakeElsewhere DEF PipeInv, ChanInv
  <2>4. /\ ChanTypeOK' /\ NoNewWaiters /\ buffer' = buffer /\ received' = received
        /\ \A t \in Task : future[t].is # "pending" => future'[t] = future[t]
        /\ \A t \in Task : future'[t].is = "pending" => future[t].is = "pending"
    BY <1>4, <2>2, TasksAndChans, CloseEffect
  <2>5. takes'[Source] = {} /\ puts'[Destination] = {}
    BY <2>3, <2>4, TasksAndChans DEF NoNewWaiters
  <2>6. Idle(Forwarder)' BY <2>3, <2>4, TasksAndChans DEF Idle
  <2>7. Balance' BY <1>1, <2>4, TasksAndChans, BalanceStays
  <2>8. ChanInv' BY <2>4, <2>5, <2>6, <2>7, AwakeChan DEF PipeInv
  <2> QED BY <2>1, <2>8 DEF PipeInv, Counted
<1> QED BY <1>1, <1>3, <1>4

LEMMA CancelForwarderInv ==
  ASSUME PipeInv, CancelForwarder
  PROVE  PipeInv'
<1>1. /\ fed' = fed /\ cancels' \in 0..MaxCancels
      /\ CancelAsleep \/ CancelElsewhere
  BY PipelineAssumption DEF CancelForwarder, PipeInv, OwnInv, PipeTypeOK
<1>2. CASE CancelElsewhere
  <2>1. /\ pc # "admit" /\ pc # "emit" /\ pc' \in {"closing", "joining", "ended"}
        /\ end' \in Ends
    BY <1>2 DEF CancelElsewhere, Stop, Goto, Ends
  <2>2. UNCHANGED <<vars, program, flowVars, outVars, made, fed>> /\ worker' = worker
    BY <1>1, <1>2 DEF CancelElsewhere
  <2>3. worker' \in [Input -> Work] BY <2>2 DEF PipeInv, OwnInv, PipeTypeOK
  <2> QED BY <1>1, <2>1, <2>2, <2>3, EndsInv
<1>3. CASE CancelAsleep
  <2>1. Cancel(Forwarder) /\ UNCHANGED ownVars BY <1>3 DEF CancelAsleep
  <2>2. ChanTypeOK BY DEF PipeInv, ChanInv
  <2>3. /\ ChanTypeOK' /\ UNCHANGED <<puts, takes, buffer, received, on>>
        /\ \/ future' = future
           \/ /\ future[Forwarder].is = "pending"
              /\ future' = [future EXCEPT ![Forwarder] = Answer("cancelled")]
    BY <2>1, <2>2, TasksAndChans, CancelEffect
  <2>4. /\ pc' = pc /\ left' = left /\ admitted' = admitted
    BY <2>1 DEF ownVars, flowVars, outVars
  <2>5. OwnInv'
    <3>1. fed' \in 0..MaxInputs BY <1>1 DEF PipeInv, OwnInv, PipeTypeOK
    <3> QED BY <1>1, <2>1, <3>1, OwnStays DEF PipeInv
  <2>6. /\ future'[Producer] = future[Producer]
        /\ \/ future'[Forwarder] = future[Forwarder]
           \/ future[Forwarder].is = "pending" /\ future'[Forwarder].is = "cancelled"
    BY <2>2, <2>3, TasksAndChans DEF ChanTypeOK, Answer
  <2>7. Balance' BY <1>1, <2>3, <2>6, BalanceStays
  <2>8. Sides' BY <2>3 DEF PipeInv, ChanInv, Sides
  <2>9. Asleep' BY <2>3, <2>4, <2>6 DEF PipeInv, ChanInv, Asleep, Idle
  <2>10. Counted'
    <3>1. Arrived' = Arrived BY <2>4, <2>6 DEF Arrived
    <3>2. Running' = Running BY <2>4 DEF Running
    <3> QED BY <2>3, <2>4, <3>1, <3>2 DEF PipeInv, Counted
  <2> QED BY <2>3, <2>5, <2>7, <2>8, <2>9, <2>10 DEF PipeInv, ChanInv
<1> QED BY <1>1, <1>2, <1>3

----------------------------------------------------------------------------
(* The threads and the other tasks.                                         *)

LEMMA WorkerEndsInv ==
  ASSUME PipeInv, NEW n \in Input, WorkerEnds(n)
  PROVE  PipeInv'
<1>1. /\ UNCHANGED <<vars, envVars, program, pc, flowVars, outVars, end>>
      /\ \/ \E k \in Yields : worker' = [worker EXCEPT ![n] = "ok"] /\ made' = [made EXCEPT ![n] = k]
         \/ worker' = [worker EXCEPT ![n] = "failed"] /\ made' = made
  BY DEF WorkerEnds
<1>2. /\ program' = program /\ pc' = pc /\ end' = end
      /\ inputClosed' = inputClosed /\ admitted' = admitted /\ pending' = pending
      /\ batch' = batch /\ completed' = completed /\ nextOutput' = nextOutput /\ left' = left
      /\ fed' = fed /\ cancels' = cancels
  BY <1>1 DEF flowVars, outVars, envVars
<1>3. /\ puts' = puts /\ takes' = takes /\ buffer' = buffer /\ future' = future
      /\ on' = on /\ received' = received
  BY <1>1 DEF vars, chanVars, taskVars, pastVars
<1>4. /\ worker \in [Input -> Work] /\ made \in [Input -> 0..Fan \cup {NotYet}]
  BY DEF PipeInv, OwnInv, PipeTypeOK
<1>5. \A k \in Yields : k \in 0..Fan /\ k # NotYet
  <2>1. 0..Fan \subseteq Nat /\ Yields \subseteq 0..Fan BY PipelineAssumption
  <2> QED BY <2>1, PipelineAssumption
<1>6. /\ worker' \in [Input -> Work] /\ made' \in [Input -> 0..Fan \cup {NotYet}]
      /\ \A m \in Input : made[m] # NotYet => made'[m] # NotYet
      /\ worker'[n] = "ok" => made'[n] # NotYet
      /\ \A m \in Input : m # n => worker'[m] = worker[m]
  BY <1>1, <1>4, <1>5 DEF Work
<1>7. PipeTypeOK' BY <1>2, <1>6 DEF PipeInv, OwnInv, PipeTypeOK
<1>8. Gone' = Gone /\ Leaving' = Leaving /\ InRepair' = InRepair /\ Running' = Running
  BY <1>2 DEF Gone, Leaving, InRepair, IsFirst, Running
<1>9. Parted' BY <1>2, <1>8 DEF PipeInv, OwnInv, Parted
<1>10. WorkOK'
  <2>1. completed \subseteq Input
    BY PipelineAssumption DEF PipeInv, OwnInv, PipeTypeOK, Input
  <2>2. left > 0 => nextOutput \in Input /\ made'[nextOutput] # NotYet
    BY <1>6 DEF PipeInv, OwnInv, WorkOK
  <2>3. \A m \in Input : worker'[m] = "ok" => made'[m] # NotYet
    BY <1>6 DEF PipeInv, OwnInv, WorkOK
  <2>4. \A m \in completed : made'[m] # NotYet
    BY <1>6, <2>1 DEF PipeInv, OwnInv, WorkOK
  <2> QED BY <1>2, <1>8, <2>2, <2>3, <2>4 DEF PipeInv, OwnInv, WorkOK
<1>11. ChanInv'
  <2>1. ChanTypeOK' BY <1>3 DEF PipeInv, ChanInv, ChanTypeOK
  <2>2. Sides' BY <1>3 DEF PipeInv, ChanInv, Sides
  <2>3. Asleep' BY <1>2, <1>3 DEF PipeInv, ChanInv, Asleep, Idle
  <2>4. Balance' BY <1>2, <1>3, BalanceStays
  <2> QED BY <2>1, <2>2, <2>3, <2>4 DEF ChanInv
<1>12. Counted' BY <1>2, <1>3, <1>8 DEF PipeInv, Counted, Arrived
<1> QED BY <1>7, <1>9, <1>10, <1>11, <1>12 DEF PipeInv, OwnInv
(* Steps of others: the forwarder's own variables stay, and if it is asleep *)
(* it may be answered. *)
LEMMA OthersInv ==
  ASSUME PipeInv, ChanTypeOK', Sides', Balance', UNCHANGED <<ownVars, cancels>>,
         fed' \in 0..MaxInputs, on'[Forwarder] = on[Forwarder],
         takes'[Source] \subseteq takes[Source],
         puts'[Destination] \subseteq puts[Destination],
         \/ /\ future'[Forwarder] = future[Forwarder]
            /\ Len(received'[Source]) = Len(received[Source])
         \/ /\ takes[Source] # {} /\ future[Forwarder].is = "pending"
            /\ future'[Forwarder].is = "value"
            /\ Len(received'[Source]) = Len(received[Source]) + 1
         \/ /\ takes[Source] # {} /\ future[Forwarder].is = "pending"
            /\ future'[Forwarder].is = "nil"
            /\ Len(received'[Source]) = Len(received[Source])
         \/ /\ puts[Destination] # {} /\ future[Forwarder].is = "pending"
            /\ future'[Forwarder].is \in {"true", "false"}
            /\ Len(received'[Source]) = Len(received[Source])
  PROVE  PipeInv'
<1>1. pc' = pc /\ left' = left /\ admitted' = admitted /\ cancels' = cancels
  BY DEF ownVars, flowVars, outVars
<1>2. OwnInv'
  <2>1. cancels' \in 0..MaxCancels BY <1>1 DEF PipeInv, OwnInv, PipeTypeOK
  <2> QED BY <2>1, OwnStays DEF PipeInv
<1>3. /\ Asleep
      /\ takes[Source] # {} => ~Idle(Forwarder) /\ pc = "admit"
      /\ puts[Destination] # {} => ~Idle(Forwarder) /\ pc = "emit"
  BY DEF PipeInv, ChanInv, Asleep
<1>4. Asleep' BY <1>1, <1>3 DEF Asleep, Idle
<1>5. /\ admitted \in Nat /\ Len(received[Source]) \in Nat
      /\ Running => Len(received[Source]) = admitted + Arrived
  BY TasksAndChans DEF PipeInv, ChanInv, ChanTypeOK, OwnInv, PipeTypeOK, Counted
<1>6. Counted'
  <2>1. Running' = Running BY <1>1 DEF Running
  <2>2. CASE /\ future'[Forwarder] = future[Forwarder]
             /\ Len(received'[Source]) = Len(received[Source])
    <3>1. Arrived' = Arrived BY <1>1, <2>2 DEF Arrived
    <3> QED BY <1>1, <1>5, <2>1, <2>2, <3>1 DEF Counted
  <2>3. CASE /\ takes[Source] # {} /\ future[Forwarder].is = "pending"
             /\ future'[Forwarder].is = "value"
             /\ Len(received'[Source]) = Len(received[Source]) + 1
    <3>1. Arrived = 0 /\ Arrived' = 1 BY <1>1, <1>3, <2>3 DEF Arrived
    <3> QED BY <1>1, <1>5, <2>1, <2>3, <3>1 DEF Counted
  <2>4. CASE /\ future[Forwarder].is = "pending"
             /\ future'[Forwarder].is \in {"nil", "true", "false"}
             /\ Len(received'[Source]) = Len(received[Source])
    <3>1. Arrived = 0 /\ Arrived' = 0 BY <1>1, <2>4 DEF Arrived
    <3> QED BY <1>1, <1>5, <2>1, <2>4, <3>1 DEF Counted
  <2> QED BY <2>2, <2>3, <2>4
<1> QED BY <1>2, <1>4, <1>6 DEF PipeInv, ChanInv

LEMMA WakeInv ==
  ASSUME PipeInv, NEW t \in {Producer, Consumer}, Wake(t)
  PROVE  PipeInv'
<1>1. Resume(t) /\ UNCHANGED <<ownVars, cancels>> /\ fed' = fed
  BY DEF Wake, envVars
<1>2. t \in Task /\ t # Forwarder /\ ChanTypeOK
  BY TasksAndChans DEF PipeInv, ChanInv
<1>3. /\ ChanTypeOK' /\ NoNewWaiters /\ buffer' = buffer /\ received' = received
      /\ future' = [future EXCEPT ![t] = Answer("none")]
      /\ on' = [on EXCEPT ![t] = {}]
  BY <1>1, <1>2, ResumeEffect
<1>4. /\ future'[Forwarder] = future[Forwarder] /\ on'[Forwarder] = on[Forwarder]
      /\ future'[Producer].is = "pending" => future[Producer].is = "pending"
  BY <1>2, <1>3, TasksAndChans DEF ChanTypeOK, Answer
<1>5. Balance' BY <1>1, <1>3, <1>4, BalanceStays
<1>6. Sides' BY <1>3, TasksAndChans DEF NoNewWaiters, PipeInv, ChanInv, Sides
<1>7. /\ takes'[Source] \subseteq takes[Source]
      /\ puts'[Destination] \subseteq puts[Destination]
      /\ fed' \in 0..MaxInputs
  BY <1>1, <1>3, TasksAndChans DEF NoNewWaiters, PipeInv, OwnInv, PipeTypeOK
<1> QED BY <1>1, <1>3, <1>4, <1>5, <1>6, <1>7, OthersInv

LEMMA CloseEndInv ==
  ASSUME PipeInv, NEW c \in Chan, CloseEnd(c)
  PROVE  PipeInv'
<1>1. Close(c) /\ UNCHANGED <<ownVars, cancels>> /\ fed' = fed
  BY DEF CloseEnd, envVars
<1>2. ChanTypeOK BY DEF PipeInv, ChanInv
<1>3. /\ ChanTypeOK' /\ NoNewWaiters
      /\ buffer' = buffer /\ received' = received /\ on' = on
      /\ \A t \in Task :
           \/ future'[t] = future[t]
           \/ /\ future[t].is = "pending" /\ future'[t].is = "false"
              /\ \E w \in puts[c] : w.task = t
           \/ /\ future[t].is = "pending" /\ future'[t].is = "nil"
              /\ \E w \in takes[c] : w.task = t
  BY <1>1, <1>2, CloseEffect
<1>4. future'[Producer].is = "pending" => future[Producer].is = "pending"
  BY <1>3, TasksAndChans
<1>5. Balance' BY <1>1, <1>3, <1>4, BalanceStays
<1>6. Sides' BY <1>3, TasksAndChans DEF NoNewWaiters, PipeInv, ChanInv, Sides
<1>7. /\ takes'[Source] \subseteq takes[Source]
      /\ puts'[Destination] \subseteq puts[Destination]
      /\ fed' \in 0..MaxInputs
  BY <1>1, <1>3, TasksAndChans DEF NoNewWaiters, PipeInv, OwnInv, PipeTypeOK
<1>8. \/ future'[Forwarder] = future[Forwarder]
      \/ /\ puts[Destination] # {} /\ future[Forwarder].is = "pending"
         /\ future'[Forwarder].is = "false"
      \/ /\ takes[Source] # {} /\ future[Forwarder].is = "pending"
         /\ future'[Forwarder].is = "nil"
  <2>1. c = Source \/ c = Destination BY PipelineAssumption
  <2>2. ASSUME \E w \in puts[c] : w.task = Forwarder PROVE puts[Destination] # {}
    BY <2>1, <2>2, TasksAndChans DEF PipeInv, ChanInv, Sides
  <2>3. ASSUME \E w \in takes[c] : w.task = Forwarder PROVE takes[Source] # {}
    BY <2>1, <2>3, TasksAndChans DEF PipeInv, ChanInv, Sides
  <2> QED BY <1>3, <2>2, <2>3, TasksAndChans
<1> QED BY <1>1, <1>3, <1>5, <1>6, <1>7, <1>8, OthersInv

LEMMA ConsumeInv ==
  ASSUME PipeInv, Consume
  PROVE  PipeInv'
<1>1. /\ UNCHANGED <<ownVars, cancels>> /\ fed' = fed
      /\ \/ TakeNow(Consumer, Destination, 1)
         \/ Sleep(Consumer, [chan |-> Destination, put |-> FALSE], 1)
  BY DEF Consume, TakeFrom, envVars
<1>2. ChanTypeOK /\ 1 \in Int /\ FALSE \in BOOLEAN BY DEF PipeInv, ChanInv
<1>3. fed' \in 0..MaxInputs BY <1>1 DEF PipeInv, OwnInv, PipeTypeOK
<1>4. CASE TakeNow(Consumer, Destination, 1)
  <2>1. /\ ChanTypeOK' /\ NoNewWaiters
        /\ \A d \in Chan : d # Destination => buffer'[d] = buffer[d]
        /\ \A d \in Chan : d # Destination => received'[d] = received[d]
        /\ \/ future' = future
           \/ \E w \in puts[Destination] :
                /\ future[w.task].is = "pending"
                /\ future' = [future EXCEPT ![w.task] = Answer("true")]
    BY <1>2, <1>4, TasksAndChans, TakeEffect
  <2>2. /\ received'[Source] = received[Source] /\ buffer'[Source] = buffer[Source]
        /\ takes'[Source] \subseteq takes[Source]
        /\ puts'[Destination] \subseteq puts[Destination]
    BY <2>1, TasksAndChans DEF NoNewWaiters
  <2>3. on' = on BY <1>4 DEF TakeNow, taskVars
  <2>4. /\ future'[Producer] = future[Producer]
        /\ \/ future'[Forwarder] = future[Forwarder]
           \/ /\ puts[Destination] # {} /\ future[Forwarder].is = "pending"
              /\ future'[Forwarder].is = "true"
    <3>1. \A w \in puts[Destination] : w.task = Forwarder BY DEF PipeInv, ChanInv, Sides
    <3>2. future \in [Task -> AnyAnswer] BY <1>2 DEF ChanTypeOK
    <3>3. CASE \E w \in puts[Destination] :
                 /\ future[w.task].is = "pending"
                 /\ future' = [future EXCEPT ![w.task] = Answer("true")]
      <4>1. /\ puts[Destination] # {} /\ future[Forwarder].is = "pending"
            /\ future' = [future EXCEPT ![Forwarder] = Answer("true")]
        BY <3>1, <3>3
      <4> QED BY <3>2, <4>1, TasksAndChans DEF Answer
    <3> QED BY <2>1, <3>3
  <2>5. Balance' BY <1>1, <2>2, <2>4, BalanceStays
  <2>6. Sides' BY <2>1, TasksAndChans DEF NoNewWaiters, PipeInv, ChanInv, Sides
  <2> QED BY <1>1, <1>3, <2>1, <2>2, <2>3, <2>4, <2>5, <2>6, OthersInv
<1>5. CASE Sleep(Consumer, [chan |-> Destination, put |-> FALSE], 1)
  <2>1. /\ ChanTypeOK' /\ buffer' = buffer /\ received' = received
        /\ future' = [future EXCEPT ![Consumer] = Answer("pending")]
        /\ on' = [on EXCEPT ![Consumer] = {Destination}]
        /\ \A d \in Chan :
             /\ puts'[d] \subseteq puts[d]
             /\ takes'[d] \subseteq
                  takes[d] \cup (IF d = Destination
                                 THEN {[task |-> Consumer, id |-> 1]} ELSE {})
    BY <1>2, <1>5, TasksAndChans, SleepEffect
  <2>2. /\ future'[Producer] = future[Producer] /\ future'[Forwarder] = future[Forwarder]
        /\ on'[Forwarder] = on[Forwarder]
    BY <1>2, <2>1, TasksAndChans DEF ChanTypeOK
  <2>3. /\ takes'[Source] \subseteq takes[Source]
        /\ puts'[Destination] \subseteq puts[Destination]
    BY <2>1, TasksAndChans
  <2>4. Balance' BY <1>1, <2>1, <2>2, BalanceStays
  <2>5. Sides' BY <2>1, TasksAndChans DEF PipeInv, ChanInv, Sides
  <2> QED BY <1>1, <1>3, <2>1, <2>2, <2>3, <2>4, <2>5, OthersInv
<1> QED BY <1>1, <1>4, <1>5

LEMMA FeedInv ==
  ASSUME PipeInv, Feed
  PROVE  PipeInv'
<1> DEFINE v == fed + 1
           r == Len(received[Source])  b == Len(buffer[Source])  o == Offered
           rr == Len(received'[Source]) bb == Len(buffer'[Source]) oo == Offered'
<1>1. /\ UNCHANGED <<ownVars, cancels>> /\ fed' = v /\ fed < MaxInputs
      /\ \/ PutNow(Producer, Source, v)
         \/ Sleep(Producer, [chan |-> Source, put |-> TRUE], v)
  BY DEF Feed, PutTo
<1>2. ChanTypeOK /\ fed \in Nat /\ v \in Int /\ v \in 0..MaxInputs /\ TRUE \in BOOLEAN
  BY <1>1, PipelineAssumption DEF PipeInv, ChanInv, OwnInv, PipeTypeOK
<1>3. Idle(Producer) BY <1>1 DEF PutNow, Sleep
<1>4. /\ r \in Nat /\ b \in Nat /\ o = 0 /\ r + b + o <= fed
      /\ Balance' <=> rr + bb + oo <= fed'
  BY <1>2, <1>3, TasksAndChans DEF ChanTypeOK, Offered, Idle, PipeInv, ChanInv, Balance
<1> HIDE DEF v
<1>5. CASE PutNow(Producer, Source, v)
  <2>1. /\ ChanTypeOK' /\ NoNewWaiters
        /\ \/ future' = future /\ received' = received /\ bb <= b + 1
           \/ /\ buffer' = buffer /\ rr = r + 1
              /\ \E w \in takes[Source] :
                   /\ future[w.task].is = "pending"
                   /\ future' = [future EXCEPT ![w.task] = Given(v)]
    BY <1>2, <1>5, TasksAndChans, PutEffect
  <2>2. rr \in Nat /\ bb \in Nat BY <2>1, TasksAndChans DEF ChanTypeOK
  <2>3. on' = on BY <1>5 DEF PutNow, taskVars
  <2>4. /\ future'[Producer] = future[Producer]
        /\ \/ future'[Forwarder] = future[Forwarder] /\ rr = r /\ bb <= b + 1
           \/ /\ takes[Source] # {} /\ future[Forwarder].is = "pending"
              /\ future'[Forwarder].is = "value" /\ rr = r + 1 /\ bb = b
    <3>1. \A w \in takes[Source] : w.task = Forwarder BY DEF PipeInv, ChanInv, Sides
    <3>2. future \in [Task -> AnyAnswer] BY <1>2 DEF ChanTypeOK
    <3>3. CASE /\ buffer' = buffer /\ rr = r + 1
               /\ \E w \in takes[Source] :
                    /\ future[w.task].is = "pending"
                    /\ future' = [future EXCEPT ![w.task] = Given(v)]
      <4>1. /\ takes[Source] # {} /\ future[Forwarder].is = "pending"
            /\ future' = [future EXCEPT ![Forwarder] = Given(v)]
        BY <3>1, <3>3
      <4>2. /\ future'[Producer] = future[Producer] /\ future'[Forwarder].is = "value"
        BY <3>2, <4>1, TasksAndChans DEF Given
      <4> QED BY <3>3, <4>1, <4>2
    <3> QED BY <2>1, <3>3
  <2>5. oo = 0 BY <1>3, <2>4 DEF Offered, Idle
  <2>6. Balance'
    <3> HIDE DEF r, b, o, rr, bb, oo
    <3> QED BY <1>1, <1>2, <1>4, <2>2, <2>4, <2>5 DEF v
  <2>7. Sides' BY <2>1, TasksAndChans DEF NoNewWaiters, PipeInv, ChanInv, Sides
  <2>8. /\ takes'[Source] \subseteq takes[Source]
        /\ puts'[Destination] \subseteq puts[Destination]
    BY <2>1, TasksAndChans DEF NoNewWaiters
  <2> QED BY <1>1, <1>2, <2>1, <2>3, <2>4, <2>6, <2>7, <2>8, OthersInv
<1>6. CASE Sleep(Producer, [chan |-> Source, put |-> TRUE], v)
  <2>1. /\ ChanTypeOK' /\ buffer' = buffer /\ received' = received
        /\ future' = [future EXCEPT ![Producer] = Answer("pending")]
        /\ on' = [on EXCEPT ![Producer] = {Source}]
        /\ \A d \in Chan :
             /\ puts'[d] \subseteq
                  puts[d] \cup (IF d = Source THEN {[task |-> Producer, id |-> v]} ELSE {})
             /\ takes'[d] \subseteq takes[d]
    BY <1>2, <1>6, TasksAndChans, SleepEffect
  <2>2. future'[Forwarder] = future[Forwarder] /\ on'[Forwarder] = on[Forwarder]
    BY <1>2, <2>1, TasksAndChans DEF ChanTypeOK
  <2>3. /\ takes'[Source] \subseteq takes[Source]
        /\ puts'[Destination] \subseteq puts[Destination]
    BY <2>1, TasksAndChans
  <2>4. rr = r /\ bb = b /\ oo \in {0, 1} BY <2>1 DEF Offered
  <2>5. Balance'
    <3> HIDE DEF r, b, o, rr, bb, oo
    <3> QED BY <1>1, <1>2, <1>4, <2>4 DEF v
  <2>6. Sides' BY <2>1, TasksAndChans DEF PipeInv, ChanInv, Sides
  <2> QED BY <1>1, <1>2, <2>1, <2>2, <2>3, <2>4, <2>5, <2>6, OthersInv
<1> QED BY <1>1, <1>5, <1>6
----------------------------------------------------------------------------
(* All together.                                                            *)

LEMMA LocalInv ==
  ASSUME PipeInv,
         \/ WaitReturns \/ BatchDone \/ NothingDue
         \/ \E n \in Input :
              TaskSucceeded(n) \/ TaskFailed(n) \/ HandlerReturns(n) \/ NextResult(n)
  PROVE  PipeInv'
<1>1. UNCHANGED <<vars, fed, admitted>>
  BY DEF WaitReturns, BatchDone, NothingDue, TaskSucceeded, TaskFailed, HandlerReturns,
         NextResult, envVars, flowVars
<1>2. pc \in {"wait", "sort", "handle"} \/ (pc = "emit" /\ left = 0)
  BY DEF WaitReturns, BatchDone, NothingDue, TaskSucceeded, TaskFailed, HandlerReturns,
         NextResult
<1>3. Running /\ pc # "admit" /\ (pc # "emit" \/ left = 0) BY <1>2 DEF Running
<1>4. ChanInv' /\ Counted' BY <1>1, <1>3, LocalChan
<1>5. OwnInv'
  BY WaitReturnsOwn, BatchDoneOwn, NothingDueOwn, TaskSucceededOwn, TaskFailedOwn,
     HandlerReturnsOwn, NextResultOwn DEF PipeInv
<1> QED BY <1>4, <1>5 DEF PipeInv

LEMMA StepInv ==
  ASSUME PipeInv, Step
  PROVE  PipeInv'
<1>1. CASE Start BY <1>1, StartOwn
<1>2. CASE TakeInput BY <1>2, TakeInputInv
<1>3. CASE AwaitInput BY <1>3, AwaitInputInv
<1>4. CASE InputArrives BY <1>4, InputArrivesInv
<1>5. CASE WaitReturns BY <1>5, LocalInv
<1>6. CASE HandlerRaises BY <1>6, HandlerRaisesInv
<1>7. CASE BatchDone BY <1>7, LocalInv
<1>8. CASE NothingDue BY <1>8, LocalInv
<1>9. CASE PutOutput BY <1>9, PutOutputInv
<1>10. CASE AwaitOutput BY <1>10, AwaitOutputInv
<1>11. CASE OutputReturns BY <1>11, OutputReturnsInv
<1>12. CASE Abandon BY <1>12, AbandonInv
<1>13. CASE Leave BY <1>13, LeaveInv
<1>14. CASE CallRaises BY <1>14, CallRaisesInv
<1>15. CASE \E n \in Input :
              TaskSucceeded(n) \/ TaskFailed(n) \/ HandlerReturns(n) \/ NextResult(n)
  BY <1>15, LocalInv
<1> QED
  BY <1>1, <1>2, <1>3, <1>4, <1>5, <1>6, <1>7, <1>8, <1>9, <1>10, <1>11, <1>12, <1>13,
     <1>14, <1>15 DEF Step

LEMMA InvNext ==
  ASSUME PipeInv, [PipeNext]_pipeVars
  PROVE  PipeInv'
<1>1. CASE Step BY <1>1, StepInv
<1>2. CASE \E n \in Input : WorkerEnds(n) BY <1>2, WorkerEndsInv
<1>3. CASE CancelForwarder BY <1>3, CancelForwarderInv
<1>4. CASE Feed BY <1>4, FeedInv
<1>5. CASE Consume BY <1>5, ConsumeInv
<1>6. CASE \E t \in {Producer, Consumer} : Wake(t) BY <1>6, WakeInv
<1>7. CASE \E c \in Chan : CloseEnd(c) BY <1>7, CloseEndInv
<1>8. CASE UNCHANGED pipeVars
  <2>1. /\ puts' = puts /\ takes' = takes /\ buffer' = buffer /\ future' = future
        /\ on' = on /\ received' = received /\ UNCHANGED <<ownVars, cancels>> /\ fed' = fed
    BY <1>8 DEF pipeVars, vars, chanVars, taskVars, pastVars, envVars
  <2>2. ChanTypeOK' BY <2>1 DEF PipeInv, ChanInv, ChanTypeOK
  <2>3. Sides' BY <2>1 DEF PipeInv, ChanInv, Sides
  <2>4. Balance' BY <2>1, BalanceStays
  <2>5. fed' \in 0..MaxInputs BY <2>1 DEF PipeInv, OwnInv, PipeTypeOK
  <2> QED BY <2>1, <2>2, <2>3, <2>4, <2>5, OthersInv
<1> QED BY <1>1, <1>2, <1>3, <1>4, <1>5, <1>6, <1>7, <1>8 DEF PipeNext

(* The invariant all of this establishes: what the tasks may assume of the  *)
(* channels between them and the forwarder of its inputs. *)
THEOREM PipeInvariant == PipeSpec => []PipeInv
BY InvInit, InvNext, PTL DEF PipeSpec

(* The forwarder's variables keep their types, and no more inputs are in    *)
(* work than `parallelism` allows, whatever others do to its channels. *)
THEOREM PipeTypeCorrect == PipeSpec => []PipeTypeOK
<1>1. PipeInv => PipeTypeOK BY DEF PipeInv, OwnInv
<1> QED BY <1>1, PipeInvariant, PTL

(* While the forwarder runs, every value it took from the source is in one  *)
(* place and in one only, whichever tasks end, fail or are cancelled. *)
THEOREM InputsAccountedFor == PipeSpec => []NothingForgotten
<1>1. PipeInv => NothingForgotten BY PartsAreParts DEF PipeInv, OwnInv
<1> QED BY <1>1, PipeInvariant, PTL
=============================================================================
