----------------------------- MODULE ChannelProofs -----------------------------
(***************************************************************************)
(* Proofs about channels, for any channels, tasks, requests and number of   *)
(* calls: no call waits in vain or out of turn, none leaves a waiter, and   *)
(* the channels implement the bounded queues of SerialChannels.  First come *)
(* the types, then what a step does to the calls that wait, then what it    *)
(* does to the one channel it stores a value in or takes one from.          *)
(***************************************************************************)
EXTENDS ChannelProps, TLAPS

(* The time each leaf is given: most need a second, a busy machine needs more. *)
USE SMTT(60), ZenonT(60)

----------------------------------------------------------------------------
(* Sequences.                                                               *)

(* An element of a longer sequence is new or was there before. *)
IsAppended(q, s, e) ==
  /\ \A i \in DOMAIN q : q[i] = e \/ \E j \in DOMAIN s : q[i] = s[j]
  /\ \E i \in DOMAIN q : q[i] = e
  /\ \A j \in DOMAIN s : \E i \in DOMAIN q : q[i] = s[j]

LEMMA AppendElements ==
  ASSUME NEW S, NEW s \in Seq(S), NEW e \in S
  PROVE  /\ Append(s, e) \in Seq(S)
         /\ Len(Append(s, e)) = Len(s) + 1
         /\ IsAppended(Append(s, e), s, e)
<1>1. /\ Append(s, e) \in Seq(S) /\ Len(Append(s, e)) = Len(s) + 1
      /\ Len(s) \in Nat /\ DOMAIN s = 1..Len(s) /\ DOMAIN Append(s, e) = 1..(Len(s) + 1)
      /\ \A i \in 1..Len(s) : Append(s, e)[i] = s[i]
      /\ Append(s, e)[Len(s) + 1] = e
  OBVIOUS
<1> QED BY <1>1 DEF IsAppended

LEMMA TailElements ==
  ASSUME NEW S, NEW s \in Seq(S), s # <<>>
  PROVE  /\ Head(s) \in S /\ Tail(s) \in Seq(S)
         /\ Len(Tail(s)) = Len(s) - 1 /\ Len(s) \in Nat \ {0}
         /\ \A i \in DOMAIN Tail(s) : \E j \in DOMAIN s : Tail(s)[i] = s[j]
         /\ \E j \in DOMAIN s : Head(s) = s[j]
<1>1. /\ Head(s) \in S /\ Tail(s) \in Seq(S)
      /\ Len(Tail(s)) = Len(s) - 1 /\ Len(s) \in Nat \ {0}
      /\ DOMAIN s = 1..Len(s) /\ DOMAIN Tail(s) = 1..(Len(s) - 1)
      /\ \A i \in 1..(Len(s) - 1) : Tail(s)[i] = s[i + 1]
      /\ Head(s) = s[1]
  OBVIOUS
<1> QED BY <1>1

LEMMA ElementType ==
  ASSUME NEW S, NEW s \in Seq(S), NEW i \in DOMAIN s
  PROVE  s[i] \in S
OBVIOUS

LEMMA KindFacts ==
  ASSUME kind \in Kinds, NEW c \in Chan
  PROVE  /\ kind[c].capacity \in Nat /\ kind[c].policy \in Policy
         /\ kind[c].capacity = 0 => kind[c].policy = "fixed"
BY ChannelAssumption DEF ChannelAssumption, Kind

(* The ports of a request. *)
LEMMA RequestFacts ==
  ASSUME NEW ports \in Requests, NEW i \in DOMAIN ports
  PROVE  ports[i].chan \in Chan /\ ports[i].put \in BOOLEAN
<1>1. ports \in Seq(Port) BY ChannelAssumption DEF ChannelAssumption
<1>2. ports[i] \in Port BY <1>1
<1> QED BY <1>2 DEF Port

----------------------------------------------------------------------------
(* Waiters.                                                                 *)

(* No waiter is added to a channel; some may be removed. *)
NoNewWaiters ==
  /\ puts' \in [Chan -> SUBSET Waiter]
  /\ takes' \in [Chan -> SUBSET Waiter]
  /\ \A d \in Chan : puts'[d] \subseteq puts[d] /\ takes'[d] \subseteq takes[d]

(* A waiter that can be matched is that of a call in which its task sleeps. *)
LEMMA LiveFacts ==
  ASSUME TypeOK, NEW c \in Chan, NEW w \in Live(puts[c]) \cup Live(takes[c])
  PROVE  /\ w \in Waiter /\ w.task \in Task /\ w.id \in Call
         /\ call[w.task] = w.id /\ future[w.task].is = "pending"
BY DEF TypeOK, Live, Active, Waiter

LEMMA DiscardEffect ==
  ASSUME TypeOK, NEW C, Discard(C)
  PROVE  /\ NoNewWaiters
         /\ \A d \in C \cap Chan : puts'[d] = Live(puts[d]) /\ takes'[d] = Live(takes[d])
BY DEF TypeOK, Discard, Discarded, NoNewWaiters, Live

LEMMA PopEffect ==
  ASSUME TypeOK, NEW C, NEW c \in Chan, NEW w, PopPut(c, C, w) \/ PopTake(c, C, w)
  PROVE  NoNewWaiters
<1>1. /\ Discarded(puts, C) \in [Chan -> SUBSET Waiter]
      /\ Discarded(takes, C) \in [Chan -> SUBSET Waiter]
      /\ \A d \in Chan : /\ Discarded(puts, C)[d] \subseteq puts[d]
                         /\ Discarded(takes, C)[d] \subseteq takes[d]
  BY DEF TypeOK, Discarded, Live
<1>2. CASE PopPut(c, C, w)
  BY <1>1, <1>2 DEF PopPut, NoNewWaiters
<1>3. CASE PopTake(c, C, w)
  BY <1>1, <1>3 DEF PopTake, NoNewWaiters
<1> QED BY <1>2, <1>3

(* Answers. *)
Answers == {Answer(s) : s \in Status} \cup {Given(v) : v \in Call}

LEMMA AnswerFacts ==
  /\ \A s \in Status : Answer(s) \in Answers /\ Answer(s).is = s
  /\ \A v \in Call : Given(v) \in Answers /\ Given(v).is = "value"
BY DEF Answer, Given, Answers

LEMMA ResolveEffect ==
  ASSUME TypeOK, NEW t \in Task, NEW a \in Answers, a.is # "pending",
         future' = [future EXCEPT ![t] = a]
  PROVE  /\ future' \in [Task -> Answers]
         /\ future'[t].is # "pending"
         /\ \A u \in Task : u # t => future'[u] = future[u]
BY DEF TypeOK, Answers

----------------------------------------------------------------------------
(* What a step that does not put its caller to sleep does: one of six      *)
(* effects.                                                                 *)

(* What becomes of calls that wait, when no call starts to wait. *)
NobodyStarts ==
  /\ NoNewWaiters
  /\ call' = call
  /\ future' \in [Task -> Answers]
  /\ \A t \in Task : future'[t].is = "pending" => future[t].is = "pending"
  /\ \A t \in Task : future[t].is # "none" => future'[t].is # "none"

(* Nothing is put or taken. *)
Nothing == NobodyStarts /\ UNCHANGED <<buffer, future, accepted, received>>

(* Call k puts into the buffer of c. *)
Stores(c, k) ==
  /\ NobodyStarts /\ UNCHANGED <<future, received>>
  /\ ~closed[c] /\ Live(takes[c]) = {}
  /\ \E q \in Serial!Added(c, buffer[c], k) : buffer' = [buffer EXCEPT ![c] = q]
  /\ Accept(k)

(* A waiting take w gets the value of call k. *)
HandsTo(c, k, w) ==
  /\ NobodyStarts /\ UNCHANGED buffer
  /\ ~closed[c] /\ w \in Oldest(Live(takes[c]))
  /\ future'[w.task].is # "pending"
  /\ Accept(k) /\ Receive(c, k, w.id)

(* Call k takes the value of a waiting put w. *)
TakesFrom(c, k, w) ==
  /\ NobodyStarts /\ UNCHANGED buffer
  /\ buffer[c] = <<>> /\ w \in Oldest(Live(puts[c]))
  /\ future'[w.task].is # "pending"
  /\ Accept(w.id) /\ Receive(c, w.id, k)

(* Call k takes from the buffer; no put waits for the room, or w does. *)
TakesOnly(c, k) ==
  /\ NobodyStarts /\ UNCHANGED <<future, accepted>>
  /\ buffer[c] # <<>> /\ Live(puts[c]) = {}
  /\ buffer' = [buffer EXCEPT ![c] = Tail(@)]
  /\ Receive(c, Head(buffer[c]), k)

TakesAndFills(c, k, w) ==
  /\ NobodyStarts
  /\ buffer[c] # <<>> /\ w \in Oldest(Live(puts[c]))
  /\ future'[w.task].is # "pending"
  /\ buffer' = [buffer EXCEPT ![c] = Append(Tail(@), w.id)]
  /\ Accept(w.id) /\ Receive(c, Head(buffer[c]), k)

Effect(c, k) ==
  \/ Nothing
  \/ Stores(c, k) \/ TakesOnly(c, k)
  \/ \E w \in Waiter : HandsTo(c, k, w) \/ TakesFrom(c, k, w) \/ TakesAndFills(c, k, w)

LEMMA QuietEffect ==
  ASSUME TypeOK, NoNewWaiters, UNCHANGED <<call, future>>
  PROVE  NobodyStarts
BY DEF NobodyStarts, TypeOK, Answers

(* Resolving a waiter, with an answer that is not a future still to come. *)
LEMMA MatchEffect ==
  ASSUME TypeOK, NoNewWaiters, call' = call,
         NEW c \in Chan, NEW w \in Live(puts[c]) \cup Live(takes[c]),
         NEW a \in Answers, a.is \notin {"none", "pending"}, Resolve(w, a)
  PROVE  NobodyStarts /\ future'[w.task].is # "pending"
<1>1. w.task \in Task BY LiveFacts
<1>2. /\ future' \in [Task -> Answers]
      /\ future'[w.task] = a
      /\ \A u \in Task : u # w.task => future'[u] = future[u]
  BY <1>1 DEF Resolve, TypeOK, Answers
<1> QED BY <1>1, <1>2 DEF NobodyStarts

LEMMA PutEffect ==
  ASSUME TypeOK, NEW c \in Chan, NEW k \in Call, NEW C, call' = call, TryPut(c, k, C)
  PROVE  Effect(c, k)
<1> DEFINE D == C \cup {c}
<1>1. CASE PutRefused(C)
  <2>1. NoNewWaiters BY <1>1, DiscardEffect DEF PutRefused
  <2> QED BY <1>1, <2>1, QuietEffect DEF PutRefused, Effect, Nothing
<1>2. CASE ~closed[c] /\ PutHanded(c, k, D)
  <2>1. PICK w \in Oldest(Live(takes[c])) :
          PopTake(c, D, w) /\ Resolve(w, Given(k)) /\ Accept(k) /\ Receive(c, k, w.id)
    BY <1>2 DEF PutHanded
  <2>2. w \in Live(takes[c]) /\ w \in Waiter BY LiveFacts DEF Oldest
  <2>3. NoNewWaiters BY <2>1, PopEffect
  <2>4. Given(k) \in Answers /\ Given(k).is \notin {"none", "pending"} BY AnswerFacts
  <2>5. NobodyStarts /\ future'[w.task].is # "pending"
    BY <2>1, <2>2, <2>3, <2>4, MatchEffect
  <2>6. buffer' = buffer BY <1>2 DEF PutHanded
  <2>7. HandsTo(c, k, w) BY <1>2, <2>1, <2>5, <2>6 DEF HandsTo
  <2> QED BY <2>2, <2>7 DEF Effect
<1>3. CASE ~closed[c] /\ PutStored(c, k, D)
  <2>1. NoNewWaiters BY <1>3, DiscardEffect DEF PutStored
  <2>2. NobodyStarts BY <1>3, <2>1, QuietEffect DEF PutStored
  <2>3. \E q \in Serial!Added(c, buffer[c], k) : buffer' = [buffer EXCEPT ![c] = q]
    BY <1>3 DEF PutStored, HasRoom, Serial!Added, TypeOK
  <2>4. Stores(c, k) BY <1>3, <2>2, <2>3 DEF PutStored, Stores
  <2> QED BY <2>4 DEF Effect
<1> QED BY <1>1, <1>2, <1>3 DEF TryPut

LEMMA TakeEffect ==
  ASSUME TypeOK, NEW c \in Chan, NEW k \in Call, NEW C, call' = call, TryTake(c, k, C)
  PROVE  Effect(c, k)
<1>1. ASSUME NEW w \in Oldest(Live(puts[c])), PopPut(c, C, w), Resolve(w, Answer("true"))
      PROVE  w \in Waiter /\ NobodyStarts /\ future'[w.task].is # "pending"
  <2>1. w \in Live(puts[c]) /\ w \in Waiter BY LiveFacts DEF Oldest
  <2>2. NoNewWaiters BY <1>1, PopEffect
  <2>3. Answer("true") \in Answers /\ Answer("true").is \notin {"none", "pending"}
    BY AnswerFacts DEF Status
  <2> QED BY <1>1, <2>1, <2>2, <2>3, MatchEffect
<1>2. CASE TakeNil(c, C)
  <2>1. NoNewWaiters BY <1>2, DiscardEffect DEF TakeNil
  <2> QED BY <1>2, <2>1, QuietEffect DEF TakeNil, Effect, Nothing
<1>3. CASE TakeHanded(c, k, C)
  <2>1. PICK w \in Oldest(Live(puts[c])) :
          /\ PopPut(c, C, w) /\ Resolve(w, Answer("true"))
          /\ Accept(w.id) /\ Receive(c, w.id, k)
    BY <1>3 DEF TakeHanded
  <2>2. buffer' = buffer /\ buffer[c] = <<>> BY <1>3 DEF TakeHanded
  <2>3. TakesFrom(c, k, w) BY <1>1, <2>1, <2>2 DEF TakesFrom
  <2> QED BY <1>1, <2>1, <2>3 DEF Effect
<1>4. CASE TakeStored(c, k, C)
  <2>1. /\ buffer[c] # <<>> /\ Receive(c, Head(buffer[c]), k) /\ FillBuffer(c, C)
    BY <1>4 DEF TakeStored
  <2>2. CASE /\ Live(puts[c]) = {} /\ buffer' = [buffer EXCEPT ![c] = Tail(@)]
             /\ Discard(C) /\ UNCHANGED <<future, accepted>>
    <3>1. NoNewWaiters BY <2>2, DiscardEffect
    <3>2. NobodyStarts BY <2>2, <3>1, QuietEffect
    <3>3. TakesOnly(c, k) BY <2>1, <2>2, <3>2 DEF TakesOnly
    <3> QED BY <3>3 DEF Effect
  <2>3. CASE \E w \in Oldest(Live(puts[c])) :
               /\ buffer' = [buffer EXCEPT ![c] = Append(Tail(@), w.id)]
               /\ PopPut(c, C, w) /\ Resolve(w, Answer("true")) /\ Accept(w.id)
    <3>1. PICK w \in Oldest(Live(puts[c])) :
               /\ buffer' = [buffer EXCEPT ![c] = Append(Tail(@), w.id)]
               /\ PopPut(c, C, w) /\ Resolve(w, Answer("true")) /\ Accept(w.id)
      BY <2>3
    <3>2. TakesAndFills(c, k, w) BY <1>1, <2>1, <3>1 DEF TakesAndFills
    <3> QED BY <1>1, <3>1, <3>2 DEF Effect
  <2> QED BY <2>1, <2>2, <2>3 DEF FillBuffer
<1> QED BY <1>2, <1>3, <1>4 DEF TryTake

(* The whole step of a call that does not wait. *)
LEMMA SucceedEffect ==
  ASSUME TypeOK, NEW t \in Task, NEW ports \in Requests, Succeed(t, ports)
  PROVE  /\ Idle(t)
         /\ calls' = calls + 1 /\ calls' \in Call
         /\ UNCHANGED <<kind, closed, taskVars>>
         /\ \E c \in Chan : Effect(c, calls')
<1>1. /\ Idle(t)
      /\ calls < MaxCalls /\ calls' = calls + 1
      /\ UNCHANGED <<kind, closed, taskVars>>
  BY DEF Succeed
<1>2. calls' \in Call
  BY <1>1, ChannelAssumption DEF ChannelAssumption, TypeOK, Call
<1>3. PICK i \in DOMAIN ports : Try(ports[i], calls', {ports[j].chan : j \in 1..(i - 1)})
  BY DEF Succeed
<1>4. ports[i].chan \in Chan BY RequestFacts
<1>5. call' = call BY <1>1 DEF taskVars
<1>6. Effect(ports[i].chan, calls')
  BY <1>2, <1>3, <1>4, <1>5, PutEffect, TakeEffect DEF Try
<1> QED BY <1>1, <1>2, <1>4, <1>6

----------------------------------------------------------------------------
(* Types.                                                                   *)

LEMMA BufferFacts ==
  ASSUME TypeOK, NEW c \in Chan
  PROVE  /\ buffer[c] \in Seq(Call) /\ Len(buffer[c]) \in Nat
         /\ Len(buffer[c]) <= kind[c].capacity
         /\ received[c] \in Seq([value : Call, by : Call])
<1>1. /\ buffer \in [Chan -> Seq(Call)] /\ Len(buffer[c]) <= kind[c].capacity
      /\ received \in [Chan -> Seq([value : Call, by : Call])]
  BY DEF TypeOK
<1>2. buffer[c] \in Seq(Call) /\ received[c] \in Seq([value : Call, by : Call])
  BY <1>1
<1>3. Len(buffer[c]) \in Nat BY <1>2
<1> QED BY <1>1, <1>2, <1>3

LEMMA AddedFacts ==
  ASSUME TypeOK, NEW c \in Chan, NEW k \in Call, NEW q \in Serial!Added(c, buffer[c], k)
  PROVE  /\ q \in Seq(Call) /\ Len(q) <= kind[c].capacity
         /\ kind[c].policy = "fixed" => HasRoom(c)
         /\ \A i \in DOMAIN q : q[i] = k \/ \E j \in DOMAIN buffer[c] : q[i] = buffer[c][j]
<1> DEFINE s == buffer[c]
<1>1. /\ s \in Seq(Call) /\ Len(s) \in Nat /\ Len(s) <= kind[c].capacity
      /\ kind[c].capacity \in Nat
      /\ kind[c].capacity = 0 => kind[c].policy = "fixed"
  BY BufferFacts, KindFacts DEF TypeOK
<1> HIDE DEF s
<1>2. CASE Len(s) < kind[c].capacity /\ q = Append(s, k)
  BY <1>1, <1>2, AppendElements DEF IsAppended, HasRoom, s
<1>3. CASE Len(s) >= kind[c].capacity /\ kind[c].policy = "sliding" /\ q = Append(Tail(s), k)
  <2>1. Len(s) # 0 /\ s # <<>> /\ Len(s) = kind[c].capacity BY <1>1, <1>3
  <2>2. /\ Tail(s) \in Seq(Call) /\ Len(Tail(s)) = Len(s) - 1
        /\ \A i \in DOMAIN Tail(s) : \E j \in DOMAIN s : Tail(s)[i] = s[j]
    BY <1>1, <2>1, TailElements
  <2>3. /\ q \in Seq(Call) /\ Len(q) = Len(Tail(s)) + 1
        /\ \A i \in DOMAIN q : q[i] = k \/ \E j \in DOMAIN Tail(s) : q[i] = Tail(s)[j]
    BY <1>3, <2>2, AppendElements DEF IsAppended
  <2>4. \A i \in DOMAIN q : q[i] = k \/ \E j \in DOMAIN s : q[i] = s[j]
    BY <2>2, <2>3
  <2>5. Len(q) <= kind[c].capacity BY <1>1, <2>1, <2>2, <2>3
  <2> QED BY <1>3, <2>3, <2>4, <2>5 DEF s
<1>4. CASE Len(s) >= kind[c].capacity /\ kind[c].policy = "dropping" /\ q = s
  BY <1>1, <1>4 DEF s
<1> QED BY <1>1, <1>2, <1>3, <1>4 DEF Serial!Added, s

(* What a taker is told keeps its type. *)
LEMMA ReceiveType ==
  ASSUME TypeOK, NEW c \in Chan, NEW v \in Call, NEW k \in Call, Receive(c, v, k)
  PROVE  received' \in [Chan -> Seq([value : Call, by : Call])]
<1>1. [value |-> v, by |-> k] \in [value : Call, by : Call] OBVIOUS
<1>2. Append(received[c], [value |-> v, by |-> k]) \in Seq([value : Call, by : Call])
  BY <1>1, BufferFacts, AppendElements
<1> QED BY <1>2 DEF Receive, TypeOK

LEMMA StoreType ==
  ASSUME TypeOK, kind' = kind, NEW c \in Chan, NEW q \in Seq(Call),
         Len(q) <= kind[c].capacity, buffer' = [buffer EXCEPT ![c] = q]
  PROVE  /\ buffer' \in [Chan -> Seq(Call)]
         /\ \A d \in Chan : Len(buffer'[d]) <= kind'[d].capacity
BY DEF TypeOK

LEMMA AcceptType ==
  ASSUME TypeOK, NEW v \in Call, Accept(v)
  PROVE  accepted' \subseteq Call
BY DEF TypeOK, Accept

(* The first of the waiters. *)
LEMMA OldestFacts ==
  ASSUME TypeOK, NEW c \in Chan, NEW W, W = puts[c] \/ W = takes[c], NEW w \in Oldest(Live(W))
  PROVE  /\ w \in Live(W) /\ w \in Waiter /\ w.task \in Task /\ w.id \in Call
         /\ call[w.task] = w.id /\ future[w.task].is = "pending"
         /\ \A x \in Live(W) : w.id <= x.id
<1>1. w \in Live(W) /\ \A x \in Live(W) : w.id <= x.id BY DEF Oldest
<1> QED BY <1>1, LiveFacts

LEMMA EffectType ==
  ASSUME TypeOK, UNCHANGED <<kind, closed, taskVars>>, calls' \in Call,
         NEW c \in Chan, NEW k \in Call, Effect(c, k)
  PROVE  TypeOK'
<1>1. ASSUME /\ buffer' \in [Chan -> Seq(Call)]
             /\ \A d \in Chan : Len(buffer'[d]) <= kind'[d].capacity
             /\ accepted' \subseteq Call
             /\ received' \in [Chan -> Seq([value : Call, by : Call])]
             /\ NobodyStarts
      PROVE  TypeOK'
  <2>1. calls' \in 0..MaxCalls BY ChannelAssumption DEF ChannelAssumption, Call
  <2> QED BY <1>1, <2>1 DEF TypeOK, NobodyStarts, NoNewWaiters, Answers, taskVars
<1>2. /\ kind' = kind /\ buffer \in [Chan -> Seq(Call)] /\ accepted \subseteq Call
      /\ \A d \in Chan : Len(buffer[d]) <= kind[d].capacity
      /\ received \in [Chan -> Seq([value : Call, by : Call])]
  BY DEF TypeOK
<1>3. CASE Nothing
  BY <1>1, <1>2, <1>3 DEF Nothing
<1>4. CASE Stores(c, k)
  <2>1. accepted' \subseteq Call BY <1>4, AcceptType DEF Stores
  <2>2. PICK q \in Serial!Added(c, buffer[c], k) : buffer' = [buffer EXCEPT ![c] = q]
    BY <1>4 DEF Stores
  <2>3. q \in Seq(Call) /\ Len(q) <= kind[c].capacity BY AddedFacts
  <2>4. /\ buffer' \in [Chan -> Seq(Call)]
        /\ \A d \in Chan : Len(buffer'[d]) <= kind'[d].capacity
    BY <1>2, <2>2, <2>3, StoreType
  <2> QED BY <1>1, <1>2, <1>4, <2>1, <2>4 DEF Stores
<1>5. CASE TakesOnly(c, k)
  <2>1. /\ Head(buffer[c]) \in Call /\ Tail(buffer[c]) \in Seq(Call)
        /\ Len(Tail(buffer[c])) = Len(buffer[c]) - 1
    BY <1>5, BufferFacts, TailElements DEF TakesOnly
  <2>2. Len(Tail(buffer[c])) <= kind[c].capacity
    BY <2>1, BufferFacts, KindFacts DEF TypeOK
  <2>3. /\ buffer' \in [Chan -> Seq(Call)]
        /\ \A d \in Chan : Len(buffer'[d]) <= kind'[d].capacity
    BY <1>2, <1>5, <2>1, <2>2, StoreType DEF TakesOnly
  <2>4. received' \in [Chan -> Seq([value : Call, by : Call])]
    BY <1>5, <2>1, ReceiveType DEF TakesOnly
  <2> QED BY <1>1, <1>2, <1>5, <2>3, <2>4 DEF TakesOnly
<1>6. CASE \E w \in Waiter : HandsTo(c, k, w)
  <2>1. PICK w \in Waiter : HandsTo(c, k, w) BY <1>6
  <2>2. w.id \in Call BY DEF Waiter
  <2>3. accepted' \subseteq Call BY <2>1, AcceptType DEF HandsTo
  <2>4. received' \in [Chan -> Seq([value : Call, by : Call])]
    BY <2>1, <2>2, ReceiveType DEF HandsTo
  <2> QED BY <1>1, <1>2, <2>1, <2>3, <2>4 DEF HandsTo
<1>7. CASE \E w \in Waiter : TakesFrom(c, k, w)
  <2>1. PICK w \in Waiter : TakesFrom(c, k, w) BY <1>7
  <2>2. w.id \in Call BY DEF Waiter
  <2>3. accepted' \subseteq Call BY <2>1, <2>2, AcceptType DEF TakesFrom
  <2>4. received' \in [Chan -> Seq([value : Call, by : Call])]
    BY <2>1, <2>2, ReceiveType DEF TakesFrom
  <2> QED BY <1>1, <1>2, <2>1, <2>3, <2>4 DEF TakesFrom
<1>8. CASE \E w \in Waiter : TakesAndFills(c, k, w)
  <2>1. PICK w \in Waiter : TakesAndFills(c, k, w) BY <1>8
  <2>2. w.id \in Call BY DEF Waiter
  <2>3. /\ Head(buffer[c]) \in Call /\ Tail(buffer[c]) \in Seq(Call)
        /\ Len(Tail(buffer[c])) = Len(buffer[c]) - 1
    BY <2>1, BufferFacts, TailElements DEF TakesAndFills
  <2>4. /\ Append(Tail(buffer[c]), w.id) \in Seq(Call)
        /\ Len(Append(Tail(buffer[c]), w.id)) = Len(Tail(buffer[c])) + 1
    BY <2>2, <2>3, AppendElements
  <2>5. Len(Append(Tail(buffer[c]), w.id)) <= kind[c].capacity
    BY <2>3, <2>4, BufferFacts
  <2>6. /\ buffer' \in [Chan -> Seq(Call)]
        /\ \A d \in Chan : Len(buffer'[d]) <= kind'[d].capacity
    BY <1>2, <2>1, <2>4, <2>5, StoreType DEF TakesAndFills
  <2>7. accepted' \subseteq Call BY <2>1, <2>2, AcceptType DEF TakesAndFills
  <2>8. received' \in [Chan -> Seq([value : Call, by : Call])]
    BY <2>1, <2>3, ReceiveType DEF TakesAndFills
  <2> QED BY <1>1, <2>1, <2>6, <2>7, <2>8 DEF TakesAndFills
<1> QED BY <1>3, <1>4, <1>5, <1>6, <1>7, <1>8 DEF Effect

(* The channels of a request that is to put, or to take. *)
Asked(ports, put) == {ports[i].chan : i \in {j \in DOMAIN ports : ports[j].put = put}}

(* A call that starts to wait leaves a waiter where nothing was ready for it. *)
LEMMA WaitEffect ==
  ASSUME TypeOK, NEW t \in Task, NEW ports \in Requests, Wait(t, ports)
  PROVE  LET w == [task |-> t, id |-> calls']
         IN  /\ TypeOK'
             /\ w \in Waiter /\ calls' = calls + 1
             /\ \A d \in Chan :
                  /\ \A x \in puts'[d] :
                       \/ x \in puts[d]
                       \/ /\ x = w /\ d \in on'[t] /\ ~PutReady(d)
                  /\ \A x \in takes'[d] :
                       \/ x \in takes[d]
                       \/ /\ x = w /\ d \in on'[t] /\ ~TakeReady(d)
<1> DEFINE w == [task |-> t, id |-> calls']
           C == ChansOf(ports)
<1>1. /\ Idle(t) /\ calls < MaxCalls /\ calls' = calls + 1 /\ NoneReady(ports)
      /\ puts' = Enqueued(Discarded(puts, C), ports, TRUE, w)
      /\ takes' = Enqueued(Discarded(takes, C), ports, FALSE, w)
      /\ on' = [on EXCEPT ![t] = C]
      /\ future' = [future EXCEPT ![t] = Answer("pending")]
      /\ call' = [call EXCEPT ![t] = calls']
      /\ UNCHANGED <<kind, closed, buffer, doomed, accepted, received>>
  BY DEF Wait, pastVars
<1>2. calls' \in Call /\ calls' \in 0..MaxCalls
  BY <1>1, ChannelAssumption DEF ChannelAssumption, TypeOK, Call
<1>3. w \in Waiter BY <1>2 DEF Waiter
<1>4. /\ puts \in [Chan -> SUBSET Waiter] /\ takes \in [Chan -> SUBSET Waiter]
      /\ on \in [Task -> SUBSET Chan] /\ call \in [Task -> Call \cup {Nobody}]
      /\ future \in [Task -> Answers]
  BY DEF TypeOK, Answers
<1>5. C \subseteq Chan BY RequestFacts DEF ChansOf
<1>6. on' \in [Task -> SUBSET Chan] /\ on'[t] = C BY <1>1, <1>4, <1>5
<1>7. call' \in [Task -> Call \cup {Nobody}] BY <1>1, <1>2, <1>4
<1>8. future' \in [Task -> Answers] BY <1>1, <1>4, AnswerFacts DEF Status
<1>a. /\ \A d \in Asked(ports, TRUE) : d \in C /\ ~PutReady(d)
      /\ \A d \in Asked(ports, FALSE) : d \in C /\ ~TakeReady(d)
  BY <1>1 DEF NoneReady, Ready, ChansOf, Asked
<1> DEFINE p == Discarded(puts, C)
           q == Discarded(takes, C)
<1>b. /\ puts' = [d \in Chan |-> IF d \in Asked(ports, TRUE) THEN p[d] \cup {w} ELSE p[d]]
      /\ takes' = [d \in Chan |-> IF d \in Asked(ports, FALSE) THEN q[d] \cup {w} ELSE q[d]]
  BY <1>1 DEF Enqueued, Asked
<1>c. /\ p \in [Chan -> SUBSET Waiter] /\ \A d \in Chan : p[d] \subseteq puts[d]
      /\ q \in [Chan -> SUBSET Waiter] /\ \A d \in Chan : q[d] \subseteq takes[d]
  BY <1>4 DEF Discarded, Live
<1> HIDE DEF w, C, p, q
<1>9. /\ puts' \in [Chan -> SUBSET Waiter]
      /\ \A d \in Chan : \A x \in puts'[d] :
           x \in puts[d] \/ (x = w /\ d \in Asked(ports, TRUE))
  BY <1>3, <1>b, <1>c
<1>10. /\ takes' \in [Chan -> SUBSET Waiter]
       /\ \A d \in Chan : \A x \in takes'[d] :
            x \in takes[d] \/ (x = w /\ d \in Asked(ports, FALSE))
  BY <1>3, <1>b, <1>c
<1>11. TypeOK'
  BY <1>1, <1>2, <1>6, <1>7, <1>8, <1>9, <1>10 DEF TypeOK, Answers
<1>12. \A d \in Chan : \A x \in puts'[d] :
         x \in puts[d] \/ (x = w /\ d \in on'[t] /\ ~PutReady(d))
  BY <1>6, <1>9, <1>a
<1>13. \A d \in Chan : \A x \in takes'[d] :
         x \in takes[d] \/ (x = w /\ d \in on'[t] /\ ~TakeReady(d))
  BY <1>6, <1>10, <1>a
<1> QED BY <1>1, <1>3, <1>11, <1>12, <1>13 DEF w

(* Giving up, going on, being cancelled and closing start no call. *)
LEMMA GiveUpEffect ==
  ASSUME TypeOK, NEW ports \in Requests, GiveUp(ports)
  PROVE  TypeOK' /\ Nothing /\ UNCHANGED <<kind, closed, on, calls>>
<1>1. NoNewWaiters BY DiscardEffect DEF GiveUp
<1>2. UNCHANGED <<kind, closed, buffer, future, call, on, doomed, calls, accepted, received>>
  BY DEF GiveUp, taskVars, pastVars
<1>3. Nothing BY <1>1, <1>2, QuietEffect DEF Nothing
<1> QED BY <1>1, <1>2, <1>3 DEF TypeOK, NoNewWaiters

LEMMA ResumeEffect ==
  ASSUME TypeOK, NEW t \in Task, Resume(t)
  PROVE  /\ TypeOK' /\ NoNewWaiters
         /\ Done(t)
         /\ \A c \in on[t] : puts'[c] = Live(puts[c]) /\ takes'[c] = Live(takes[c])
         /\ future' = [future EXCEPT ![t] = Answer("none")]
         /\ call' = [call EXCEPT ![t] = Nobody]
         /\ on' = [on EXCEPT ![t] = {}]
         /\ UNCHANGED <<kind, closed, buffer, calls, accepted, received>>
<1>1. /\ Done(t) /\ Discard(on[t])
      /\ future' = [future EXCEPT ![t] = Answer("none")]
      /\ call' = [call EXCEPT ![t] = Nobody]
      /\ on' = [on EXCEPT ![t] = {}]
      /\ doomed' = [doomed EXCEPT ![t] = FALSE]
      /\ UNCHANGED <<kind, closed, buffer, calls, accepted, received>>
  BY DEF Resume, pastVars
<1>2. /\ NoNewWaiters
      /\ \A d \in on[t] \cap Chan : puts'[d] = Live(puts[d]) /\ takes'[d] = Live(takes[d])
  BY <1>1, DiscardEffect
<1>3. on[t] \subseteq Chan BY DEF TypeOK
<1>4. future' \in [Task -> Answers]
  BY <1>1, AnswerFacts DEF TypeOK, Answers, Status
<1>5. /\ call' \in [Task -> Call \cup {Nobody}] /\ on' \in [Task -> SUBSET Chan]
      /\ doomed' \in [Task -> BOOLEAN]
  BY <1>1 DEF TypeOK
<1>6. TypeOK'
  BY <1>1, <1>2, <1>4, <1>5 DEF TypeOK, NoNewWaiters, Answers
<1> QED BY <1>1, <1>2, <1>3, <1>6

LEMMA CancelEffect ==
  ASSUME TypeOK, NEW t \in Task, Cancel(t)
  PROVE  /\ TypeOK' /\ NobodyStarts
         /\ UNCHANGED <<kind, closed, buffer, puts, takes, on, calls, accepted, received>>
<1>1. UNCHANGED <<kind, closed, buffer, puts, takes, call, on, calls, accepted, received>>
  BY DEF Cancel, chanVars, pastVars
<1>2. \/ /\ future[t].is = "pending" /\ doomed' = doomed
         /\ future' = [future EXCEPT ![t] = Answer("cancelled")]
      \/ future' = future /\ doomed' = [doomed EXCEPT ![t] = TRUE]
  BY DEF Cancel
<1>3. Answer("cancelled") \in Answers /\ Answer("cancelled").is = "cancelled"
  BY AnswerFacts DEF Status
<1>4. doomed' \in [Task -> BOOLEAN] BY <1>2 DEF TypeOK
<1>5. /\ future' \in [Task -> Answers]
      /\ \A u \in Task : future'[u].is = "pending" => future[u].is = "pending"
      /\ \A u \in Task : future[u].is # "none" => future'[u].is # "none"
  <2>1. future \in [Task -> Answers] BY DEF TypeOK, Answers
  <2> QED BY <1>2, <1>3, <2>1
<1>6. NoNewWaiters BY <1>1 DEF NoNewWaiters, TypeOK
<1>7. TypeOK' BY <1>1, <1>4, <1>5 DEF TypeOK, Answers
<1> QED BY <1>1, <1>5, <1>6, <1>7 DEF NobodyStarts

LEMMA CloseEffect ==
  ASSUME TypeOK, NEW c \in Chan, Close(c)
  PROVE  /\ TypeOK' /\ NobodyStarts
         /\ closed' = [closed EXCEPT ![c] = TRUE]
         /\ puts'[c] = {} /\ (buffer[c] = <<>> => takes'[c] = {})
         /\ UNCHANGED <<kind, buffer, on, calls, accepted, received>>
<1>1. /\ closed' = [closed EXCEPT ![c] = TRUE]
      /\ future' = [t \in Task |-> Woken(c, t)]
      /\ puts' = [puts EXCEPT ![c] = {}]
      /\ takes' = [takes EXCEPT ![c] = IF buffer[c] = <<>> THEN {} ELSE Live(@)]
      /\ UNCHANGED <<kind, buffer, call, on, doomed, calls, accepted, received>>
  BY DEF Close, taskVars, pastVars
<1>2. ASSUME NEW t \in Task
      PROVE  /\ Woken(c, t) \in Answers
             /\ Woken(c, t).is = "pending" => future[t].is = "pending"
             /\ future[t].is # "none" => Woken(c, t).is # "none"
  <2>1. /\ Answer("false") \in Answers /\ Answer("false").is = "false"
        /\ Answer("nil") \in Answers /\ Answer("nil").is = "nil"
    BY AnswerFacts DEF Status
  <2>2. future[t] \in Answers BY DEF TypeOK, Answers
  <2> QED BY <2>1, <2>2 DEF Woken
<1>3. NoNewWaiters BY <1>1 DEF NoNewWaiters, TypeOK, Live
<1>4. NobodyStarts BY <1>1, <1>2, <1>3 DEF NobodyStarts
<1>5. puts'[c] = {} /\ (buffer[c] = <<>> => takes'[c] = {}) BY <1>1 DEF TypeOK
<1>6. TypeOK'
  BY <1>1, <1>4 DEF TypeOK, NobodyStarts, NoNewWaiters, Answers
<1> QED BY <1>1, <1>4, <1>5, <1>6

----------------------------------------------------------------------------
(* The inductive invariant.                                                 *)

(* A call that waits on c has no partner there, and no room. *)
WaitsForReason(c) ==
  /\ \A w \in Live(puts[c]) :
       /\ ~closed[c] /\ ~HasRoom(c) /\ kind[c].policy = "fixed"
       /\ \A x \in Live(takes[c]) : x.task = w.task
  /\ Live(takes[c]) # {} => ~closed[c] /\ buffer[c] = <<>>

(* The calls that wait on c came after those that had their effect on it. *)
WaitsInTurn(c) ==
  /\ \A w \in Live(puts[c]) :
       /\ \A i \in DOMAIN received[c] : received[c][i].value < w.id
       /\ \A i \in DOMAIN buffer[c] : buffer[c][i] < w.id
  /\ \A w \in Live(takes[c]) : \A i \in DOMAIN received[c] : received[c][i].by < w.id

(* Calls are numbered in the order in which they are made. *)
Numbered ==
  /\ \A t \in Task : call[t] <= calls /\ (Idle(t) => call[t] = Nobody)
  /\ \A t, u \in Task : call[t] = call[u] /\ call[t] # Nobody => t = u
  /\ \A v \in accepted : v <= calls
  /\ \A c \in Chan :
       /\ \A i \in DOMAIN buffer[c] : buffer[c][i] <= calls
       /\ \A i \in DOMAIN received[c] : received[c][i].value <= calls /\ received[c][i].by <= calls

(* A call that waits has had no effect. *)
NoEffectYet ==
  \A t \in Task : future[t].is = "pending" => call[t] \notin accepted \cup Takers

ChanInv ==
  /\ TypeOK /\ NoStaleWaiters /\ Numbered /\ NoEffectYet
  /\ \A c \in Chan : WaitsForReason(c) /\ WaitsInTurn(c)

LEMMA InvImplies == ChanInv => TypeOK /\ NoStaleWaiters /\ NobodyWaitsInVain /\ InTurn
BY DEF ChanInv, NobodyWaitsInVain, InTurn, WaitsForReason, WaitsInTurn

LEMMA InitEstablishes == Init => ChanInv
<1> SUFFICES ASSUME Init PROVE ChanInv
  OBVIOUS
<1>1. TypeOK
  BY KindFacts, ChannelAssumption, AnswerFacts
  DEF Init, TypeOK, ChannelAssumption, Answers, Status, Nobody
<1>2. \A c \in Chan : puts[c] = {} /\ takes[c] = {} /\ Live(puts[c]) = {} /\ Live(takes[c]) = {}
  BY DEF Init, Live
<1>3. \A c \in Chan : buffer[c] = <<>> /\ received[c] = <<>> /\ DOMAIN buffer[c] = {} /\ DOMAIN received[c] = {}
  BY DEF Init
<1>4. Takers = {} BY <1>3 DEF Takers
<1>5. Numbered BY <1>3 DEF Init, Numbered, Nobody
<1>6. NoEffectYet BY <1>4 DEF Init, NoEffectYet, Answer
<1>7. NoStaleWaiters BY <1>2 DEF NoStaleWaiters
<1>8. \A c \in Chan : WaitsForReason(c) /\ WaitsInTurn(c)
  BY <1>2 DEF WaitsForReason, WaitsInTurn
<1> QED BY <1>1, <1>5, <1>6, <1>7, <1>8 DEF ChanInv

----------------------------------------------------------------------------
(* A step preserves it.                                                     *)

(* If no call starts to wait, those that still wait did so before. *)
LEMMA LiveShrinks ==
  ASSUME TypeOK, NobodyStarts, NEW d \in Chan
  PROVE  /\ \A w \in Live(puts[d])' : w \in Live(puts[d]) /\ future'[w.task].is = "pending"
         /\ \A w \in Live(takes[d])' : w \in Live(takes[d]) /\ future'[w.task].is = "pending"
<1>1. /\ puts'[d] \subseteq puts[d] /\ takes'[d] \subseteq takes[d]
      /\ puts[d] \subseteq Waiter /\ takes[d] \subseteq Waiter
  BY DEF NobodyStarts, NoNewWaiters, TypeOK
<1>2. \A w \in Waiter : w.task \in Task BY DEF Waiter
<1>3. call' = call /\ \A t \in Task : future'[t].is = "pending" => future[t].is = "pending"
  BY DEF NobodyStarts
<1> QED BY <1>1, <1>2, <1>3 DEF Live, Active

(* A channel on which nothing happens but that waiters may go. *)
LEMMA Elsewhere ==
  ASSUME TypeOK, NobodyStarts, NEW d \in Chan, WaitsForReason(d), WaitsInTurn(d),
         kind' = kind, closed'[d] = closed[d], buffer'[d] = buffer[d], received'[d] = received[d]
  PROVE  WaitsForReason(d)' /\ WaitsInTurn(d)'
<1>1. WaitsForReason(d)'
  BY LiveShrinks DEF WaitsForReason, HasRoom
<1>2. WaitsInTurn(d)'
  BY LiveShrinks DEF WaitsInTurn
<1> QED BY <1>1, <1>2

LEMMA NobodyStartsKeeps ==
  ASSUME NoStaleWaiters, NobodyStarts, on' = on
  PROVE  NoStaleWaiters'
BY DEF NoStaleWaiters, NobodyStarts, NoNewWaiters

(* What was received before, and what is received now. *)
LEMMA ReceiveElements ==
  ASSUME TypeOK, NEW c \in Chan, NEW v \in Call, NEW k \in Call, Receive(c, v, k)
  PROVE  /\ \A d \in Chan : d # c => received'[d] = received[d]
         /\ \A i \in DOMAIN received'[c] :
              \/ received'[c][i] = [value |-> v, by |-> k]
              \/ \E j \in DOMAIN received[c] : received'[c][i] = received[c][j]
         /\ \E i \in DOMAIN received'[c] : received'[c][i] = [value |-> v, by |-> k]
         /\ \A j \in DOMAIN received[c] : \E i \in DOMAIN received'[c] : received'[c][i] = received[c][j]
<1> DEFINE e == [value |-> v, by |-> k]
           S == [value : Call, by : Call]
           r == received[c]
           q == Append(r, e)
<1>1. e \in S OBVIOUS
<1>2. received \in [Chan -> Seq(S)] BY DEF TypeOK
<1>3. received' = [received EXCEPT ![c] = q] BY DEF Receive
<1>4. r \in Seq(S) BY <1>2
<1> HIDE DEF e, S, r
<1>5. /\ \A i \in DOMAIN q : q[i] = e \/ \E j \in DOMAIN r : q[i] = r[j]
      /\ \E i \in DOMAIN q : q[i] = e
      /\ \A j \in DOMAIN r : \E i \in DOMAIN q : q[i] = r[j]
  <2>1. IsAppended(q, r, e) BY <1>1, <1>4, AppendElements
  <2> HIDE DEF q
  <2> QED BY <2>1 DEF IsAppended
<1> HIDE DEF q
<1>6. received'[c] = q /\ \A d \in Chan : d # c => received'[d] = received[d] BY <1>2, <1>3
<1> QED BY <1>5, <1>6 DEF e, r

LEMMA ReceiveTakers ==
  ASSUME TypeOK, NEW c \in Chan, NEW v \in Call, NEW k \in Call, Receive(c, v, k)
  PROVE  Takers' = Takers \cup {k}
<1> DEFINE By(x) == \E d \in Chan : \E i \in DOMAIN received[d] : received[d][i].by = x
           ByNow(x) == \E d \in Chan : \E i \in DOMAIN received'[d] : received'[d][i].by = x
<1>1. \A x : x \in Takers <=> By(x) BY DEF Takers
<1>2. \A x : x \in Takers' <=> ByNow(x) BY DEF Takers
<1>a. /\ \A d \in Chan : d # c => received'[d] = received[d]
      /\ \A i \in DOMAIN received'[c] :
           \/ received'[c][i] = [value |-> v, by |-> k]
           \/ \E j \in DOMAIN received[c] : received'[c][i] = received[c][j]
      /\ \E i \in DOMAIN received'[c] : received'[c][i] = [value |-> v, by |-> k]
      /\ \A j \in DOMAIN received[c] : \E i \in DOMAIN received'[c] : received'[c][i] = received[c][j]
  BY ReceiveElements
<1>b. [value |-> v, by |-> k].by = k OBVIOUS
<1>3. ASSUME NEW x, By(x) PROVE ByNow(x)
  <2>1. PICK d \in Chan : \E j \in DOMAIN received[d] : received[d][j].by = x BY <1>3
  <2>2. CASE d = c BY <1>a, <2>1, <2>2
  <2>3. CASE d # c BY <1>a, <2>1, <2>3
  <2> QED BY <2>2, <2>3
<1>4. ByNow(k)
  <2>1. PICK i \in DOMAIN received'[c] : received'[c][i] = [value |-> v, by |-> k] BY <1>a
  <2>2. received'[c][i].by = k BY <1>b, <2>1
  <2> QED BY <2>2
<1>5. ASSUME NEW x, ByNow(x) PROVE By(x) \/ x = k
  <2>1. PICK d \in Chan : \E i \in DOMAIN received'[d] : received'[d][i].by = x BY <1>5
  <2>2. CASE d = c
    <3>1. PICK i \in DOMAIN received'[c] : received'[c][i].by = x BY <2>1, <2>2
    <3> QED BY <1>a, <1>b, <3>1
  <2>3. CASE d # c BY <1>a, <2>1, <2>3
  <2> QED BY <2>2, <2>3
<1> QED BY <1>1, <1>2, <1>3, <1>4, <1>5

LEMMA CallNumbers ==
  ASSUME TypeOK
  PROVE  calls \in Nat /\ \A t \in Task : call[t] \in Nat
BY DEF TypeOK, Call, Nobody

(* What is stored or received came from calls made before. *)
LEMMA NumbersMade ==
  ASSUME TypeOK, Numbered, NEW c \in Chan
  PROVE  /\ \A i \in DOMAIN buffer[c] : buffer[c][i] \in Nat /\ buffer[c][i] <= calls
         /\ \A i \in DOMAIN received[c] :
              /\ received[c][i].value \in Nat /\ received[c][i].value <= calls
              /\ received[c][i].by \in Nat /\ received[c][i].by <= calls
<1>1. buffer[c] \in Seq(Call) /\ received[c] \in Seq([value : Call, by : Call])
  BY BufferFacts
<1>2. \A i \in DOMAIN buffer[c] : buffer[c][i] \in Nat
  <2>1. \A i \in DOMAIN buffer[c] : buffer[c][i] \in Call BY <1>1, ElementType
  <2> QED BY <2>1 DEF Call
<1>3. \A i \in DOMAIN received[c] : received[c][i].value \in Nat /\ received[c][i].by \in Nat
  <2>1. \A i \in DOMAIN received[c] : received[c][i] \in [value : Call, by : Call]
    BY <1>1, ElementType
  <2> QED BY <2>1 DEF Call
<1> QED BY <1>2, <1>3 DEF Numbered

(* Only the calls E have their effect in a step, and none of them still waits. *)
Records(E) ==
  /\ accepted' \subseteq accepted \cup E
  /\ \A e \in E : e \in Nat /\ e <= calls + 1
  /\ \A t \in Task : future'[t].is = "pending" => call[t] \notin E
  /\ \A d \in Chan : \A i \in DOMAIN buffer'[d] :
       buffer'[d][i] \in E \/ \E j \in DOMAIN buffer[d] : buffer'[d][i] = buffer[d][j]
  /\ \A d \in Chan : \A i \in DOMAIN received'[d] :
       \/ received'[d][i].by \in E /\ received'[d][i].value <= calls + 1
       \/ \E j \in DOMAIN received[d] : received'[d][i] = received[d][j]

LEMMA RecordsKeeps ==
  ASSUME ChanInv, TypeOK', NobodyStarts, calls' = calls + 1, NEW E, Records(E)
  PROVE  Numbered' /\ NoEffectYet'
<1>1. /\ TypeOK /\ Numbered /\ NoEffectYet /\ call' = call /\ calls \in Nat
      /\ \A t \in Task : call[t] \in Nat
      /\ \A t \in Task : future'[t].is = "pending" => future[t].is = "pending"
      /\ \A t \in Task : Idle(t)' => Idle(t)
  BY CallNumbers DEF ChanInv, NobodyStarts, Idle
<1>2. \A c \in Chan :
        /\ \A i \in DOMAIN buffer[c] : buffer[c][i] \in Nat /\ buffer[c][i] <= calls
        /\ \A i \in DOMAIN received[c] :
             /\ received[c][i].value \in Nat /\ received[c][i].value <= calls
             /\ received[c][i].by \in Nat /\ received[c][i].by <= calls
  BY <1>1, NumbersMade
<1>3. \A c \in Chan :
        /\ \A i \in DOMAIN buffer'[c] : buffer'[c][i] <= calls + 1
        /\ \A i \in DOMAIN received'[c] :
             received'[c][i].value <= calls + 1 /\ received'[c][i].by <= calls + 1
  BY <1>1, <1>2 DEF Records
<1>4. \A v \in accepted' : v <= calls + 1
  <2>1. \A v \in accepted : v \in Nat /\ v <= calls BY <1>1 DEF Numbered, TypeOK, Call
  <2> QED BY <1>1, <2>1 DEF Records
<1>5. \A t \in Task : call'[t] <= calls' /\ (Idle(t)' => call'[t] = Nobody)
  BY <1>1 DEF Numbered
<1>6. Numbered'
  BY <1>1, <1>3, <1>4, <1>5 DEF Numbered
<1>7. Takers' \subseteq Takers \cup E
  BY DEF Takers, Records
<1>8. NoEffectYet'
  BY <1>1, <1>7 DEF NoEffectYet, Records
<1> QED BY <1>6, <1>8

(* The call that was matched is over; the calls left came after it. *)
LEMMA MatchedFirst ==
  ASSUME ChanInv, NobodyStarts, NEW c \in Chan, NEW w \in Live(puts[c]) \cup Live(takes[c]),
         future'[w.task].is # "pending"
  PROVE  \A x \in Live(puts[c])' \cup Live(takes[c])' :
           /\ x.task # w.task /\ x.id # w.id
           /\ x \in Live(puts[c])' /\ w \in Oldest(Live(puts[c])) => w.id < x.id
           /\ x \in Live(takes[c])' /\ w \in Oldest(Live(takes[c])) => w.id < x.id
<1> SUFFICES ASSUME NEW x \in Live(puts[c])' \cup Live(takes[c])'
             PROVE  /\ x.task # w.task /\ x.id # w.id
                    /\ x \in Live(puts[c])' /\ w \in Oldest(Live(puts[c])) => w.id < x.id
                    /\ x \in Live(takes[c])' /\ w \in Oldest(Live(takes[c])) => w.id < x.id
  OBVIOUS
<1>1. TypeOK /\ Numbered BY DEF ChanInv
<1>2. /\ x \in Live(puts[c])' => x \in Live(puts[c])
      /\ x \in Live(takes[c])' => x \in Live(takes[c])
      /\ future'[x.task].is = "pending"
  BY <1>1, LiveShrinks
<1>3. /\ x.task \in Task /\ x.id \in Call /\ call[x.task] = x.id
      /\ w.task \in Task /\ w.id \in Call /\ call[w.task] = w.id
  BY <1>1, <1>2, LiveFacts
<1>4. x.task # w.task BY <1>2
<1>5. x.id # Nobody /\ x.id \in Nat /\ w.id \in Nat BY <1>3 DEF Call, Nobody
<1>6. x.id # w.id BY <1>1, <1>3, <1>4, <1>5 DEF Numbered
<1>7. /\ x \in Live(puts[c])' /\ w \in Oldest(Live(puts[c])) => w.id <= x.id
      /\ x \in Live(takes[c])' /\ w \in Oldest(Live(takes[c])) => w.id <= x.id
  BY <1>2 DEF Oldest
<1> QED BY <1>4, <1>5, <1>6, <1>7

LEMMA StoresKeeps ==
  ASSUME ChanInv, NEW c \in Chan, NEW k \in Call, Stores(c, k)
  PROVE  WaitsForReason(c)' /\ WaitsInTurn(c)'
<1>1. TypeOK /\ NobodyStarts /\ WaitsForReason(c) /\ Live(takes[c]) = {}
  BY DEF ChanInv, Stores
<1>2. PICK q \in Serial!Added(c, buffer[c], k) : buffer' = [buffer EXCEPT ![c] = q]
  BY DEF Stores
<1>3. kind[c].policy = "fixed" => HasRoom(c) BY <1>1, AddedFacts
<1>4. Live(puts[c]) = {} BY <1>1, <1>3 DEF WaitsForReason
<1>5. Live(puts[c])' = {} /\ Live(takes[c])' = {} BY <1>1, <1>4, LiveShrinks
<1> QED BY <1>5 DEF WaitsForReason, WaitsInTurn

LEMMA HandsToKeeps ==
  ASSUME ChanInv, NEW c \in Chan, NEW k \in Call, NEW w \in Waiter, HandsTo(c, k, w),
         UNCHANGED <<kind, closed>>
  PROVE  WaitsForReason(c)' /\ WaitsInTurn(c)'
<1>1. TypeOK /\ NobodyStarts /\ WaitsForReason(c) /\ WaitsInTurn(c) /\ buffer' = buffer
  BY DEF ChanInv, HandsTo
<1>2. w \in Oldest(Live(takes[c])) /\ future'[w.task].is # "pending" BY DEF HandsTo
<1>3. w \in Live(takes[c]) /\ w.id \in Call BY <1>1, <1>2, OldestFacts
<1>4. \A x \in Live(puts[c])' \cup Live(takes[c])' :
        x.task # w.task /\ (x \in Live(takes[c])' => w.id < x.id)
  BY <1>2, <1>3, <1>1, MatchedFirst
<1>5. Live(puts[c])' = {}
  BY <1>1, <1>3, <1>4, LiveShrinks DEF WaitsForReason
<1>6. Live(takes[c])' # {} => ~closed'[c] /\ buffer'[c] = <<>>
  BY <1>1, <1>3 DEF WaitsForReason
<1>7. \A i \in DOMAIN received'[c] :
        \/ received'[c][i] = [value |-> k, by |-> w.id]
        \/ \E j \in DOMAIN received[c] : received'[c][i] = received[c][j]
  BY <1>1, <1>3, ReceiveElements DEF HandsTo
<1>8. ASSUME NEW x \in Live(takes[c])', NEW i \in DOMAIN received'[c]
      PROVE  received'[c][i].by < x.id
  <2>1. x \in Live(takes[c]) BY <1>1, LiveShrinks
  <2> QED BY <1>1, <1>4, <1>7, <2>1 DEF WaitsInTurn
<1> QED BY <1>5, <1>6, <1>8 DEF WaitsForReason, WaitsInTurn

LEMMA TakesFromKeeps ==
  ASSUME ChanInv, NEW c \in Chan, NEW k \in Call, NEW w \in Waiter, TakesFrom(c, k, w),
         UNCHANGED <<kind, closed>>
  PROVE  WaitsForReason(c)' /\ WaitsInTurn(c)'
<1>1. TypeOK /\ NobodyStarts /\ WaitsForReason(c) /\ WaitsInTurn(c) /\ buffer' = buffer
  BY DEF ChanInv, TakesFrom
<1>2. w \in Oldest(Live(puts[c])) /\ future'[w.task].is # "pending" BY DEF TakesFrom
<1>3. w \in Live(puts[c]) /\ w.id \in Call BY <1>1, <1>2, OldestFacts
<1>4. \A x \in Live(puts[c])' \cup Live(takes[c])' :
        x.task # w.task /\ (x \in Live(puts[c])' => w.id < x.id)
  BY <1>2, <1>3, <1>1, MatchedFirst
<1>5. Live(takes[c])' = {}
  BY <1>1, <1>3, <1>4, LiveShrinks DEF WaitsForReason
<1>6. \A x \in Live(puts[c])' : ~closed'[c] /\ ~HasRoom(c)' /\ kind'[c].policy = "fixed"
  BY <1>1, LiveShrinks DEF WaitsForReason, HasRoom
<1>7. \A i \in DOMAIN received'[c] :
        \/ received'[c][i] = [value |-> w.id, by |-> k]
        \/ \E j \in DOMAIN received[c] : received'[c][i] = received[c][j]
  BY <1>1, <1>3, ReceiveElements DEF TakesFrom
<1>8. ASSUME NEW x \in Live(puts[c])'
      PROVE  /\ \A i \in DOMAIN received'[c] : received'[c][i].value < x.id
             /\ \A i \in DOMAIN buffer'[c] : buffer'[c][i] < x.id
  <2>1. x \in Live(puts[c]) BY <1>1, LiveShrinks
  <2> QED BY <1>1, <1>4, <1>7, <2>1 DEF WaitsInTurn
<1> QED BY <1>5, <1>6, <1>8 DEF WaitsForReason, WaitsInTurn

LEMMA TakesOnlyKeeps ==
  ASSUME ChanInv, NEW c \in Chan, NEW k \in Call, TakesOnly(c, k)
  PROVE  WaitsForReason(c)' /\ WaitsInTurn(c)'
<1>1. TypeOK /\ NobodyStarts /\ WaitsForReason(c) /\ Live(puts[c]) = {} /\ buffer[c] # <<>>
  BY DEF ChanInv, TakesOnly
<1>2. Live(takes[c]) = {} BY <1>1 DEF WaitsForReason
<1>3. Live(puts[c])' = {} /\ Live(takes[c])' = {} BY <1>1, <1>2, LiveShrinks
<1> QED BY <1>3 DEF WaitsForReason, WaitsInTurn

LEMMA TakesAndFillsKeeps ==
  ASSUME ChanInv, NEW c \in Chan, NEW k \in Call, NEW w \in Waiter, TakesAndFills(c, k, w),
         UNCHANGED <<kind, closed>>
  PROVE  WaitsForReason(c)' /\ WaitsInTurn(c)'
<1>1. /\ TypeOK /\ NobodyStarts /\ WaitsForReason(c) /\ WaitsInTurn(c)
      /\ buffer[c] # <<>> /\ buffer \in [Chan -> Seq(Call)] /\ buffer[c] \in Seq(Call)
  BY DEF ChanInv, TakesAndFills, TypeOK
<1>2. w \in Oldest(Live(puts[c])) /\ future'[w.task].is # "pending" BY DEF TakesAndFills
<1>3. w \in Live(puts[c]) /\ w.id \in Call BY <1>1, <1>2, OldestFacts
<1>4. \A x \in Live(puts[c])' : w.id < x.id
  BY <1>2, <1>3, <1>1, MatchedFirst
<1>5. Live(takes[c])' = {}
  <2>1. Live(takes[c]) = {} BY <1>1 DEF WaitsForReason
  <2> QED BY <1>1, <2>1, LiveShrinks
<1>6. /\ Head(buffer[c]) \in Call /\ Tail(buffer[c]) \in Seq(Call)
      /\ Len(Tail(buffer[c])) = Len(buffer[c]) - 1 /\ Len(buffer[c]) \in Nat \ {0}
      /\ \A i \in DOMAIN Tail(buffer[c]) : \E j \in DOMAIN buffer[c] : Tail(buffer[c])[i] = buffer[c][j]
      /\ \E j \in DOMAIN buffer[c] : Head(buffer[c]) = buffer[c][j]
  BY <1>1, TailElements
<1> DEFINE q == Append(Tail(buffer[c]), w.id)
<1>7. /\ Len(q) = Len(Tail(buffer[c])) + 1
      /\ \A i \in DOMAIN q : q[i] = w.id \/ \E j \in DOMAIN Tail(buffer[c]) : q[i] = Tail(buffer[c])[j]
  BY <1>3, <1>6, AppendElements DEF IsAppended
<1>8. buffer'[c] = q BY <1>1 DEF TakesAndFills
<1> HIDE DEF q
<1>9. Len(buffer'[c]) = Len(buffer[c]) BY <1>6, <1>7, <1>8
<1>10. \A x \in Live(puts[c])' : ~closed'[c] /\ ~HasRoom(c)' /\ kind'[c].policy = "fixed"
  BY <1>1, <1>9, LiveShrinks DEF WaitsForReason, HasRoom
<1>11. \A i \in DOMAIN received'[c] :
        \/ received'[c][i] = [value |-> Head(buffer[c]), by |-> k]
        \/ \E j \in DOMAIN received[c] : received'[c][i] = received[c][j]
  BY <1>1, <1>6, ReceiveElements DEF TakesAndFills
<1>12. ASSUME NEW x \in Live(puts[c])'
       PROVE  /\ \A i \in DOMAIN received'[c] : received'[c][i].value < x.id
              /\ \A i \in DOMAIN buffer'[c] : buffer'[c][i] < x.id
  <2>1. x \in Live(puts[c]) BY <1>1, LiveShrinks
  <2>2. /\ \A i \in DOMAIN received[c] : received[c][i].value < x.id
        /\ \A i \in DOMAIN buffer[c] : buffer[c][i] < x.id
    BY <1>1, <2>1 DEF WaitsInTurn
  <2>3. Head(buffer[c]) < x.id BY <1>6, <2>2
  <2>4. \A i \in DOMAIN received'[c] : received'[c][i].value < x.id BY <1>11, <2>2, <2>3
  <2>5. \A i \in DOMAIN Tail(buffer[c]) : Tail(buffer[c])[i] < x.id BY <1>6, <2>2
  <2>6. \A i \in DOMAIN buffer'[c] : buffer'[c][i] < x.id BY <1>4, <1>7, <1>8, <2>5
  <2> QED BY <2>4, <2>6
<1> QED BY <1>5, <1>10, <1>12 DEF WaitsForReason, WaitsInTurn

(* The calls that have their effect in a step, and what is recorded of them. *)
LEMMA EffectRecords ==
  ASSUME ChanInv, TypeOK', NEW c \in Chan, calls' = calls + 1, calls' \in Call, Effect(c, calls'),
         UNCHANGED <<kind, closed, taskVars>>
  PROVE  Numbered' /\ NoEffectYet'
<1> DEFINE k == calls'
<1>1. /\ TypeOK /\ Numbered /\ k \in Call /\ k = calls + 1 /\ calls \in Nat
      /\ buffer \in [Chan -> Seq(Call)] /\ buffer[c] \in Seq(Call)
  BY CallNumbers DEF ChanInv, TypeOK
<1>2. NobodyStarts
  BY DEF Effect, Nothing, Stores, TakesOnly, HandsTo, TakesFrom, TakesAndFills
<1>3. \A t \in Task : call[t] # k
  <2>1. \A t \in Task : call[t] \in Nat /\ call[t] <= calls BY <1>1, CallNumbers DEF Numbered
  <2> QED BY <1>1, <2>1
<1>4. ASSUME NEW w \in Waiter, w \in Live(puts[c]) \cup Live(takes[c]),
             future'[w.task].is # "pending"
      PROVE  /\ w.id \in Call /\ w.id <= calls + 1
             /\ \A t \in Task : future'[t].is = "pending" => call[t] # w.id
  <2>1. w.task \in Task /\ w.id \in Call /\ call[w.task] = w.id BY <1>1, <1>4, LiveFacts
  <2>2. w.id \in Nat /\ w.id # Nobody BY <2>1 DEF Call, Nobody
  <2>3. w.id <= calls BY <1>1, <2>1 DEF Numbered
  <2>4. ASSUME NEW t \in Task, call[t] = w.id PROVE t = w.task
    BY <1>1, <2>1, <2>2, <2>4 DEF Numbered
  <2> QED BY <1>1, <1>4, <2>1, <2>2, <2>3, <2>4
<1>5. ASSUME NEW v \in Call, NEW j \in Call, Receive(c, v, j), v <= calls + 1
      PROVE  \A d \in Chan : \A i \in DOMAIN received'[d] :
               \/ received'[d][i].by = j /\ received'[d][i].value <= calls + 1
               \/ \E n \in DOMAIN received[d] : received'[d][i] = received[d][n]
  <2>1. /\ \A d \in Chan : d # c => received'[d] = received[d]
        /\ \A i \in DOMAIN received'[c] :
             \/ received'[c][i] = [value |-> v, by |-> j]
             \/ \E n \in DOMAIN received[c] : received'[c][i] = received[c][n]
    BY <1>1, <1>5, ReceiveElements
  <2> QED BY <1>5, <2>1
<1>6. ASSUME buffer[c] # <<>>
      PROVE  /\ Head(buffer[c]) \in Call /\ Head(buffer[c]) <= calls + 1
             /\ Tail(buffer[c]) \in Seq(Call)
             /\ \A i \in DOMAIN Tail(buffer[c]) : \E j \in DOMAIN buffer[c] : Tail(buffer[c])[i] = buffer[c][j]
  <2>1. /\ Head(buffer[c]) \in Call /\ Tail(buffer[c]) \in Seq(Call)
        /\ \A i \in DOMAIN Tail(buffer[c]) : \E j \in DOMAIN buffer[c] : Tail(buffer[c])[i] = buffer[c][j]
        /\ \E j \in DOMAIN buffer[c] : Head(buffer[c]) = buffer[c][j]
    BY <1>1, <1>6, TailElements
  <2>2. Head(buffer[c]) <= calls BY <1>1, <2>1 DEF Numbered
  <2>3. Head(buffer[c]) \in Nat BY <2>1 DEF Call
  <2> QED BY <1>1, <2>1, <2>2, <2>3
<1>7. ASSUME NEW E, Records(E) PROVE Numbered' /\ NoEffectYet'
  BY <1>1, <1>2, <1>7, RecordsKeeps
<1>e. ASSUME NEW j \in Call, j <= calls + 1,
              \A t \in Task : future'[t].is = "pending" => call[t] # j,
              accepted' \subseteq accepted \cup {k, j},
              \A d \in Chan : \A i \in DOMAIN buffer'[d] :
                buffer'[d][i] = j \/ \E n \in DOMAIN buffer[d] : buffer'[d][i] = buffer[d][n],
              \A d \in Chan : \A i \in DOMAIN received'[d] :
                \/ /\ received'[d][i].by = k \/ received'[d][i].by = j
                   /\ received'[d][i].value <= calls + 1
                \/ \E n \in DOMAIN received[d] : received'[d][i] = received[d][n]
       PROVE  Numbered' /\ NoEffectYet'
  <2> DEFINE E == {k, j}
  <2>1. k \in E /\ j \in E /\ \A e \in E : e = k \/ e = j OBVIOUS
  <2>2. accepted' \subseteq accepted \cup E BY <1>e
  <2>3. k \in Nat /\ j \in Nat BY <1>1 DEF Call
  <2> HIDE DEF E, k
  <2>4. \A e \in E : e \in Nat /\ e <= calls + 1 BY <1>1, <1>e, <2>1, <2>3
  <2>5. \A t \in Task : future'[t].is = "pending" => call[t] \notin E BY <1>3, <1>e, <2>1
  <2>6. \A d \in Chan : \A i \in DOMAIN buffer'[d] :
          buffer'[d][i] \in E \/ \E n \in DOMAIN buffer[d] : buffer'[d][i] = buffer[d][n]
    BY <1>e, <2>1
  <2>7. \A d \in Chan : \A i \in DOMAIN received'[d] :
          \/ received'[d][i].by \in E /\ received'[d][i].value <= calls + 1
          \/ \E n \in DOMAIN received[d] : received'[d][i] = received[d][n]
    BY <1>e, <2>1
  <2>8. Records(E) BY <2>2, <2>4, <2>5, <2>6, <2>7 DEF Records
  <2> QED BY <1>7, <2>8
<1>f. ASSUME accepted' \subseteq accepted \cup {k},
             \A d \in Chan : \A i \in DOMAIN buffer'[d] :
               buffer'[d][i] = k \/ \E n \in DOMAIN buffer[d] : buffer'[d][i] = buffer[d][n],
             \A d \in Chan : \A i \in DOMAIN received'[d] :
               \/ received'[d][i].by = k /\ received'[d][i].value <= calls + 1
               \/ \E n \in DOMAIN received[d] : received'[d][i] = received[d][n]
      PROVE  Numbered' /\ NoEffectYet'
  <2>1. k <= calls + 1 BY <1>1
  <2>2. accepted' \subseteq accepted \cup {k, k} BY <1>f
  <2>3. /\ \A t \in Task : future'[t].is = "pending" => call[t] # k
        /\ \A d \in Chan : \A i \in DOMAIN received'[d] :
             \/ /\ received'[d][i].by = k \/ received'[d][i].by = k
                /\ received'[d][i].value <= calls + 1
             \/ \E n \in DOMAIN received[d] : received'[d][i] = received[d][n]
    BY <1>3, <1>f
  <2> HIDE DEF k
  <2> QED BY <1>1, <1>e, <1>f, <2>1, <2>2, <2>3, Zenon
<1>8. CASE Nothing
  <2>1. Records({}) BY <1>8 DEF Nothing, Records
  <2> QED BY <1>7, <2>1
<1>9. CASE Stores(c, k)
  <2>1. PICK q \in Serial!Added(c, buffer[c], k) : buffer' = [buffer EXCEPT ![c] = q]
    BY <1>9 DEF Stores
  <2>2. \A i \in DOMAIN q : q[i] = k \/ \E j \in DOMAIN buffer[c] : q[i] = buffer[c][j]
    BY <1>1, AddedFacts
  <2>3. accepted' = accepted \cup {k} /\ received' = received
    BY <1>9 DEF Stores, Accept
  <2>4. \A d \in Chan : \A i \in DOMAIN buffer'[d] :
          buffer'[d][i] = k \/ \E j \in DOMAIN buffer[d] : buffer'[d][i] = buffer[d][j]
    <3>1. buffer'[c] = q /\ \A d \in Chan : d # c => buffer'[d] = buffer[d] BY <1>1, <2>1
    <3> QED BY <2>2, <3>1
  <2> QED BY <1>f, <2>3, <2>4
<1>10. CASE TakesOnly(c, k)
  <2>1. /\ buffer[c] # <<>> /\ buffer' = [buffer EXCEPT ![c] = Tail(@)]
        /\ accepted' = accepted /\ Receive(c, Head(buffer[c]), k)
    BY <1>10 DEF TakesOnly
  <2>2. \A d \in Chan : \A i \in DOMAIN buffer'[d] :
          \E j \in DOMAIN buffer[d] : buffer'[d][i] = buffer[d][j]
    <3>1. buffer'[c] = Tail(buffer[c]) /\ \A d \in Chan : d # c => buffer'[d] = buffer[d]
      BY <1>1, <2>1
    <3> QED BY <1>6, <2>1, <3>1
  <2>3. \A d \in Chan : \A i \in DOMAIN received'[d] :
           \/ received'[d][i].by = k /\ received'[d][i].value <= calls + 1
           \/ \E n \in DOMAIN received[d] : received'[d][i] = received[d][n]
    BY <1>1, <1>5, <1>6, <2>1
  <2> QED BY <1>f, <2>1, <2>2, <2>3
<1>11. CASE \E w \in Waiter : HandsTo(c, k, w)
  <2>1. PICK w \in Waiter : HandsTo(c, k, w) BY <1>11
  <2>2. /\ w.id \in Call /\ w.id <= calls + 1
        /\ \A t \in Task : future'[t].is = "pending" => call[t] # w.id
    BY <1>1, <1>4, <2>1, OldestFacts DEF HandsTo
  <2>3. accepted' = accepted \cup {k} /\ buffer' = buffer /\ Receive(c, k, w.id)
    BY <2>1 DEF HandsTo, Accept
  <2>4. k <= calls + 1 BY <1>1
  <2>5. \A d \in Chan : \A i \in DOMAIN received'[d] :
           \/ received'[d][i].by = w.id /\ received'[d][i].value <= calls + 1
           \/ \E n \in DOMAIN received[d] : received'[d][i] = received[d][n]
    BY <1>1, <1>5, <2>2, <2>3, <2>4
  <2> QED BY <1>e, <2>2, <2>3, <2>5
<1>12. CASE \E w \in Waiter : TakesFrom(c, k, w)
  <2>1. PICK w \in Waiter : TakesFrom(c, k, w) BY <1>12
  <2>2. /\ w.id \in Call /\ w.id <= calls + 1
        /\ \A t \in Task : future'[t].is = "pending" => call[t] # w.id
    BY <1>1, <1>4, <2>1, OldestFacts DEF TakesFrom
  <2>3. accepted' = accepted \cup {w.id} /\ buffer' = buffer /\ Receive(c, w.id, k)
    BY <2>1 DEF TakesFrom, Accept
  <2>5. \A d \in Chan : \A i \in DOMAIN received'[d] :
           \/ received'[d][i].by = k /\ received'[d][i].value <= calls + 1
           \/ \E n \in DOMAIN received[d] : received'[d][i] = received[d][n]
    BY <1>1, <1>5, <2>2, <2>3
  <2> QED BY <1>e, <2>2, <2>3, <2>5
<1>13. CASE \E w \in Waiter : TakesAndFills(c, k, w)
  <2>1. PICK w \in Waiter : TakesAndFills(c, k, w) BY <1>13
  <2>2. /\ w.id \in Call /\ w.id <= calls + 1
        /\ \A t \in Task : future'[t].is = "pending" => call[t] # w.id
    BY <1>1, <1>4, <2>1, OldestFacts DEF TakesAndFills
  <2>3. /\ accepted' = accepted \cup {w.id} /\ buffer[c] # <<>>
        /\ buffer' = [buffer EXCEPT ![c] = Append(Tail(@), w.id)]
        /\ Receive(c, Head(buffer[c]), k)
    BY <2>1 DEF TakesAndFills, Accept
  <2>5. \A d \in Chan : \A i \in DOMAIN received'[d] :
           \/ received'[d][i].by = k /\ received'[d][i].value <= calls + 1
           \/ \E n \in DOMAIN received[d] : received'[d][i] = received[d][n]
    BY <1>1, <1>5, <1>6, <2>3
  <2>7. \A i \in DOMAIN Append(Tail(buffer[c]), w.id) :
          \/ Append(Tail(buffer[c]), w.id)[i] = w.id
          \/ \E j \in DOMAIN Tail(buffer[c]) : Append(Tail(buffer[c]), w.id)[i] = Tail(buffer[c])[j]
    BY <1>6, <2>2, <2>3, AppendElements DEF IsAppended
  <2>8. \A d \in Chan : \A i \in DOMAIN buffer'[d] :
          buffer'[d][i] = w.id \/ \E j \in DOMAIN buffer[d] : buffer'[d][i] = buffer[d][j]
    <3> DEFINE q == Append(Tail(buffer[c]), w.id)
    <3>1. \A i \in DOMAIN q : q[i] = w.id \/ \E j \in DOMAIN buffer[c] : q[i] = buffer[c][j]
      BY <1>6, <2>3, <2>7
    <3>2. buffer'[c] = q /\ \A d \in Chan : d # c => buffer'[d] = buffer[d] BY <1>1, <2>3
    <3> HIDE DEF q
    <3>3. ASSUME NEW d \in Chan, NEW i \in DOMAIN buffer'[d]
          PROVE  buffer'[d][i] = w.id \/ \E j \in DOMAIN buffer[d] : buffer'[d][i] = buffer[d][j]
      <4>1. CASE d = c BY <3>1, <3>2, <4>1
      <4>2. CASE d # c BY <3>2, <4>2
      <4> QED BY <4>1, <4>2
    <3> QED BY <3>3
  <2>9. accepted' \subseteq accepted \cup {k, w.id} BY <2>3
  <2>10. \A d \in Chan : \A i \in DOMAIN received'[d] :
           \/ /\ received'[d][i].by = k \/ received'[d][i].by = w.id
              /\ received'[d][i].value <= calls + 1
           \/ \E n \in DOMAIN received[d] : received'[d][i] = received[d][n]
    BY <2>5
  <2> HIDE DEF k
  <2> QED BY <1>e, <2>2, <2>8, <2>9, <2>10
<1> QED BY <1>8, <1>9, <1>10, <1>11, <1>12, <1>13 DEF Effect

(* A call that does not wait. *)
LEMMA SucceedKeeps ==
  ASSUME ChanInv, NEW t \in Task, NEW ports \in Requests, Succeed(t, ports)
  PROVE  ChanInv'
<1>1. TypeOK /\ NoStaleWaiters BY DEF ChanInv
<1>2. /\ calls' = calls + 1 /\ calls' \in Call
      /\ UNCHANGED <<kind, closed, taskVars>>
      /\ \E c \in Chan : Effect(c, calls')
  BY <1>1, SucceedEffect
<1>3. PICK c \in Chan : Effect(c, calls') BY <1>2
<1>4. TypeOK' BY <1>1, <1>2, <1>3, EffectType
<1>5. NobodyStarts
  BY <1>3 DEF Effect, Nothing, Stores, TakesOnly, HandsTo, TakesFrom, TakesAndFills
<1>6. NoStaleWaiters' BY <1>1, <1>2, <1>5, NobodyStartsKeeps DEF taskVars
<1>7. Numbered' /\ NoEffectYet' BY <1>2, <1>3, <1>4, EffectRecords
<1>8. \A d \in Chan : d # c => buffer'[d] = buffer[d] /\ received'[d] = received[d]
  BY <1>1, <1>3 DEF Effect, Nothing, Stores, TakesOnly, HandsTo, TakesFrom, TakesAndFills,
                    Receive, TypeOK
<1>9. WaitsForReason(c)' /\ WaitsInTurn(c)'
  <2>1. CASE Nothing
    BY <1>1, <1>2, <1>5, <2>1, Elsewhere DEF Nothing, ChanInv
  <2>2. CASE Stores(c, calls')
    BY <1>2, <2>2, StoresKeeps
  <2>3. CASE TakesOnly(c, calls')
    BY <1>2, <2>3, TakesOnlyKeeps
  <2>4. CASE \E w \in Waiter : HandsTo(c, calls', w)
    BY <1>2, <2>4, HandsToKeeps
  <2>5. CASE \E w \in Waiter : TakesFrom(c, calls', w)
    BY <1>2, <2>5, TakesFromKeeps
  <2>6. CASE \E w \in Waiter : TakesAndFills(c, calls', w)
    BY <1>2, <2>6, TakesAndFillsKeeps
  <2> QED BY <1>3, <2>1, <2>2, <2>3, <2>4, <2>5, <2>6 DEF Effect
<1>10. \A d \in Chan : WaitsForReason(d)' /\ WaitsInTurn(d)'
  <2> SUFFICES ASSUME NEW d \in Chan, d # c PROVE WaitsForReason(d)' /\ WaitsInTurn(d)'
    BY <1>9
  <2>1. WaitsForReason(d) /\ WaitsInTurn(d) BY DEF ChanInv
  <2> QED BY <1>1, <1>2, <1>5, <1>8, <2>1, Elsewhere
<1> QED BY <1>4, <1>6, <1>7, <1>10 DEF ChanInv

(* A step in which nothing is recorded. *)
LEMMA QuietKeeps ==
  ASSUME TypeOK, Numbered, NoEffectYet, UNCHANGED <<buffer, calls, accepted, received>>,
         \A t \in Task : call'[t] = call[t] \/ (call'[t] = Nobody /\ future'[t].is = "none"),
         \A t \in Task : future'[t].is = "none" => future[t].is = "none" \/ call'[t] = Nobody,
         \A t \in Task : future'[t].is = "pending" => future[t].is = "pending"
  PROVE  Numbered' /\ NoEffectYet'
<1>1. calls \in Nat /\ Nobody <= calls BY CallNumbers DEF Nobody
<1>2. Numbered' BY <1>1 DEF Numbered, Idle
<1>3. Takers' = Takers BY DEF Takers
<1>4. NoEffectYet' BY <1>3 DEF NoEffectYet
<1> QED BY <1>2, <1>4

(* A call that begins to wait: nothing was ready for it. *)
LEMMA WaitKeeps ==
  ASSUME ChanInv, NEW t \in Task, NEW ports \in Requests, Wait(t, ports)
  PROVE  ChanInv'
<1> DEFINE w == [task |-> t, id |-> calls']
<1>1. /\ TypeOK /\ NoStaleWaiters /\ Numbered /\ NoEffectYet /\ calls \in Nat
      /\ \A c \in Chan : WaitsForReason(c) /\ WaitsInTurn(c)
  BY CallNumbers DEF ChanInv
<1>2. /\ Idle(t) /\ calls' = calls + 1
      /\ future' = [future EXCEPT ![t] = Answer("pending")]
      /\ call' = [call EXCEPT ![t] = calls']
      /\ on' = [on EXCEPT ![t] = ChansOf(ports)]
      /\ UNCHANGED <<kind, closed, buffer, doomed, accepted, received>>
  BY DEF Wait, pastVars
<1>3. /\ TypeOK' /\ w \in Waiter
      /\ \A d \in Chan : \A x \in puts'[d] :
           x \in puts[d] \/ (x = w /\ d \in on'[t] /\ ~PutReady(d))
      /\ \A d \in Chan : \A x \in takes'[d] :
           x \in takes[d] \/ (x = w /\ d \in on'[t] /\ ~TakeReady(d))
  BY <1>1, WaitEffect
<1>4. w.task = t /\ w.id = calls + 1 BY <1>2
<1>5. /\ future'[t].is = "pending" /\ call'[t] = calls + 1
      /\ \A u \in Task : u # t => future'[u] = future[u] /\ call'[u] = call[u] /\ on'[u] = on[u]
  BY <1>1, <1>2 DEF TypeOK, Answer
<1>6. call[t] = Nobody BY <1>1, <1>2 DEF Numbered
<1>7. \A d \in Chan : \A x \in puts[d] \cup takes[d] :
        x \in Waiter /\ x.task # t /\ x.task \in Task /\ call[x.task] = x.id /\ d \in on[x.task]
  <2> SUFFICES ASSUME NEW d \in Chan, NEW x \in puts[d] \cup takes[d]
               PROVE  x \in Waiter /\ x.task # t /\ x.task \in Task /\ call[x.task] = x.id /\ d \in on[x.task]
    OBVIOUS
  <2>1. x \in Waiter BY <1>1 DEF TypeOK
  <2>2. call[x.task] = x.id /\ d \in on[x.task] BY <1>1 DEF NoStaleWaiters
  <2>3. x.task \in Task /\ x.id # Nobody BY <2>1 DEF Waiter, Call, Nobody
  <2> QED BY <1>6, <2>1, <2>2, <2>3
<1> HIDE DEF w
<1>8. NoStaleWaiters'
  BY <1>3, <1>4, <1>5, <1>7, <1>2 DEF NoStaleWaiters
<1>9. \A d \in Chan :
        /\ \A x \in Live(puts[d])' : x \in Live(puts[d]) \/ (x = w /\ ~PutReady(d))
        /\ \A x \in Live(takes[d])' : x \in Live(takes[d]) \/ (x = w /\ ~TakeReady(d))
  BY <1>3, <1>5, <1>7 DEF Live, Active
<1>10. ASSUME NEW d \in Chan PROVE WaitsForReason(d)'
  <2>1. WaitsForReason(d) BY <1>1
  <2>2. ASSUME NEW x \in Live(puts[d])'
        PROVE  /\ ~closed'[d] /\ ~HasRoom(d)' /\ kind'[d].policy = "fixed"
               /\ \A y \in Live(takes[d])' : y.task = x.task
    <3>1. CASE x \in Live(puts[d])
      <4>1. TakeReady(d) BY <3>1 DEF TakeReady
      <4>2. \A y \in Live(takes[d])' : y \in Live(takes[d]) BY <1>9, <4>1
      <4> QED BY <1>2, <2>1, <3>1, <4>2 DEF WaitsForReason, HasRoom
    <3>2. CASE x = w /\ ~PutReady(d)
      <4>1. Live(takes[d]) = {} /\ ~closed[d] /\ ~HasRoom(d) /\ kind[d].policy = "fixed"
        BY <3>2 DEF PutReady
      <4>2. \A y \in Live(takes[d])' : y = w BY <1>9, <4>1
      <4> QED BY <1>2, <3>2, <4>1, <4>2 DEF HasRoom
    <3> QED BY <1>9, <3>1, <3>2
  <2>3. ASSUME Live(takes[d])' # {} PROVE ~closed'[d] /\ buffer'[d] = <<>>
    <3>1. CASE Live(takes[d]) # {} BY <1>2, <2>1, <3>1 DEF WaitsForReason
    <3>2. CASE ~TakeReady(d) BY <1>2, <3>2 DEF TakeReady
    <3> QED BY <1>9, <2>3, <3>1, <3>2
  <2> QED BY <2>2, <2>3 DEF WaitsForReason
<1>11. ASSUME NEW d \in Chan PROVE WaitsInTurn(d)'
  <2>1. WaitsInTurn(d) BY <1>1
  <2>2. /\ \A i \in DOMAIN received[d] :
             received[d][i].value < calls + 1 /\ received[d][i].by < calls + 1
        /\ \A i \in DOMAIN buffer[d] : buffer[d][i] < calls + 1
    BY <1>1, NumbersMade
  <2> QED BY <1>2, <1>4, <1>9, <2>1, <2>2 DEF WaitsInTurn
<1>12. Numbered'
  <2>1. /\ \A u \in Task : call[u] \in Nat /\ call[u] <= calls
        /\ \A v \in accepted : v \in Nat
    <3>1. accepted \subseteq Call BY <1>1 DEF TypeOK
    <3>2. \A v \in accepted : v \in Nat BY <3>1 DEF Call
    <3> QED BY <1>1, <3>2, CallNumbers DEF Numbered
  <2>2. \A u \in Task : call'[u] <= calls' /\ (Idle(u)' => call'[u] = Nobody)
    <3>1. \A u \in Task : Idle(u)' => u # t /\ Idle(u) BY <1>5 DEF Idle
    <3>2. \A u \in Task : u # t /\ Idle(u) => call'[u] = Nobody BY <1>1, <1>5 DEF Numbered
    <3>3. \A u \in Task : call'[u] <= calls + 1 BY <1>1, <1>5, <2>1
    <3> QED BY <1>2, <3>1, <3>2, <3>3
  <2>3. \A u, v \in Task : call'[u] = call'[v] /\ call'[u] # Nobody => u = v
    BY <1>1, <1>5, <2>1 DEF Numbered
  <2>4. \A d \in Chan :
          /\ \A i \in DOMAIN buffer[d] : buffer[d][i] <= calls + 1
          /\ \A i \in DOMAIN received[d] :
               received[d][i].value <= calls + 1 /\ received[d][i].by <= calls + 1
    BY <1>1, NumbersMade
  <2>5. \A v \in accepted' : v <= calls' BY <1>1, <1>2, <2>1 DEF Numbered
  <2> QED BY <1>2, <2>2, <2>3, <2>4, <2>5 DEF Numbered
<1>13. NoEffectYet'
  <2>1. Takers' = Takers BY <1>2 DEF Takers
  <2>2. calls + 1 \notin accepted
    <3>1. \A v \in accepted : v \in Nat /\ v <= calls BY <1>1 DEF Numbered, TypeOK, Call
    <3> QED BY <1>1, <3>1
  <2>3. calls + 1 \notin Takers
    <3>1. \A d \in Chan : \A i \in DOMAIN received[d] : received[d][i].by <= calls
      BY <1>1 DEF Numbered
    <3>2. ~(calls + 1 <= calls) BY <1>1
    <3> QED BY <3>1, <3>2 DEF Takers
  <2> QED BY <1>1, <1>2, <1>5, <2>1, <2>2, <2>3 DEF NoEffectYet
<1> QED BY <1>3, <1>8, <1>10, <1>11, <1>12, <1>13 DEF ChanInv

LEMMA ResumeKeeps ==
  ASSUME ChanInv, NEW t \in Task, Resume(t)
  PROVE  ChanInv'
<1>1. /\ TypeOK /\ NoStaleWaiters /\ Numbered /\ NoEffectYet
      /\ \A c \in Chan : WaitsForReason(c) /\ WaitsInTurn(c)
  BY DEF ChanInv
<1>2. /\ TypeOK' /\ NoNewWaiters /\ Done(t)
      /\ \A c \in on[t] : puts'[c] = Live(puts[c]) /\ takes'[c] = Live(takes[c])
      /\ future' = [future EXCEPT ![t] = Answer("none")]
      /\ call' = [call EXCEPT ![t] = Nobody]
      /\ on' = [on EXCEPT ![t] = {}]
      /\ UNCHANGED <<kind, closed, buffer, calls, accepted, received>>
  BY <1>1, ResumeEffect
<1>3. /\ future'[t].is = "none" /\ call'[t] = Nobody
      /\ \A u \in Task : u # t => future'[u] = future[u] /\ call'[u] = call[u] /\ on'[u] = on[u]
      /\ future[t].is \notin {"none", "pending"}
  BY <1>1, <1>2 DEF TypeOK, Answer, Done
<1>4. \A c \in Chan : \A w \in puts'[c] \cup takes'[c] :
        /\ w \in puts[c] \cup takes[c] /\ w \in Waiter /\ w.task \in Task /\ w.task # t
        /\ call[w.task] = w.id /\ c \in on[w.task]
  <2> SUFFICES ASSUME NEW c \in Chan, NEW w \in puts'[c] \cup takes'[c]
               PROVE  /\ w \in puts[c] \cup takes[c] /\ w \in Waiter /\ w.task \in Task /\ w.task # t
                      /\ call[w.task] = w.id /\ c \in on[w.task]
    OBVIOUS
  <2>1. w \in puts[c] \cup takes[c] BY <1>2 DEF NoNewWaiters
  <2>2. w \in Waiter BY <1>1, <2>1 DEF TypeOK
  <2>3. w.task \in Task BY <2>2 DEF Waiter
  <2>4. call[w.task] = w.id /\ c \in on[w.task] BY <1>1, <2>1 DEF NoStaleWaiters
  <2>5. ASSUME w.task = t PROVE FALSE
    <3>1. w \in Live(puts[c]) \/ w \in Live(takes[c]) BY <1>2, <2>4, <2>5
    <3> QED BY <1>1, <1>3, <2>5, <3>1, LiveFacts
  <2> QED BY <2>1, <2>2, <2>3, <2>4, <2>5
<1>5. NoStaleWaiters' BY <1>3, <1>4 DEF NoStaleWaiters
<1>6. ASSUME NEW d \in Chan
      PROVE  Live(puts[d])' \subseteq Live(puts[d]) /\ Live(takes[d])' \subseteq Live(takes[d])
  BY <1>2, <1>3, <1>4 DEF Live, Active, NoNewWaiters
<1>7. \A d \in Chan : WaitsForReason(d)' /\ WaitsInTurn(d)'
  <2> SUFFICES ASSUME NEW d \in Chan PROVE WaitsForReason(d)' /\ WaitsInTurn(d)'
    OBVIOUS
  <2>1. WaitsForReason(d) /\ WaitsInTurn(d) BY <1>1
  <2>2. WaitsForReason(d)' BY <1>2, <1>6, <2>1 DEF WaitsForReason, HasRoom
  <2>3. WaitsInTurn(d)' BY <1>2, <1>6, <2>1 DEF WaitsInTurn
  <2> QED BY <2>2, <2>3
<1>8. /\ \A u \in Task : call'[u] = call[u] \/ (call'[u] = Nobody /\ future'[u].is = "none")
      /\ \A u \in Task : future'[u].is = "none" => future[u].is = "none" \/ call'[u] = Nobody
      /\ \A u \in Task : future'[u].is = "pending" => future[u].is = "pending"
  BY <1>3
<1>9. Numbered' /\ NoEffectYet' BY <1>1, <1>2, <1>8, QuietKeeps
<1> QED BY <1>2, <1>5, <1>7, <1>9 DEF ChanInv

(* Steps that start no call and record nothing. *)
LEMMA NobodyStartsQuietly ==
  ASSUME ChanInv, TypeOK', NobodyStarts, UNCHANGED <<kind, buffer, on, calls, accepted, received>>
  PROVE  /\ NoStaleWaiters' /\ Numbered' /\ NoEffectYet'
         /\ \A d \in Chan :
              closed'[d] = closed[d] => WaitsForReason(d)' /\ WaitsInTurn(d)'
<1>1. /\ TypeOK /\ NoStaleWaiters /\ Numbered /\ NoEffectYet
      /\ \A c \in Chan : WaitsForReason(c) /\ WaitsInTurn(c)
  BY DEF ChanInv
<1>2. NoStaleWaiters' BY <1>1, NobodyStartsKeeps
<1>3. /\ \A u \in Task : call'[u] = call[u]
      /\ \A u \in Task : future'[u].is = "none" => future[u].is = "none"
      /\ \A u \in Task : future'[u].is = "pending" => future[u].is = "pending"
  BY DEF NobodyStarts
<1>4. Numbered' /\ NoEffectYet' BY <1>1, <1>3, QuietKeeps
<1>5. \A d \in Chan : closed'[d] = closed[d] => WaitsForReason(d)' /\ WaitsInTurn(d)'
  BY <1>1, Elsewhere
<1> QED BY <1>2, <1>4, <1>5

LEMMA GiveUpKeeps ==
  ASSUME ChanInv, NEW ports \in Requests, GiveUp(ports)
  PROVE  ChanInv'
<1>1. TypeOK' /\ Nothing /\ UNCHANGED <<kind, closed, on, calls>>
  BY GiveUpEffect DEF ChanInv
<1> QED BY <1>1, NobodyStartsQuietly DEF Nothing, ChanInv

LEMMA CancelKeeps ==
  ASSUME ChanInv, NEW t \in Task, Cancel(t)
  PROVE  ChanInv'
<1>1. /\ TypeOK' /\ NobodyStarts
      /\ UNCHANGED <<kind, closed, buffer, puts, takes, on, calls, accepted, received>>
  BY CancelEffect DEF ChanInv
<1> QED BY <1>1, NobodyStartsQuietly DEF ChanInv

(* Closing leaves nobody waiting: had a take waited, nothing would be stored. *)
LEMMA CloseKeeps ==
  ASSUME ChanInv, NEW c \in Chan, Close(c)
  PROVE  ChanInv'
<1>1. /\ TypeOK' /\ NobodyStarts
      /\ closed' = [closed EXCEPT ![c] = TRUE]
      /\ puts'[c] = {} /\ (buffer[c] = <<>> => takes'[c] = {})
      /\ UNCHANGED <<kind, buffer, on, calls, accepted, received>>
  BY CloseEffect DEF ChanInv
<1>2. TypeOK /\ WaitsForReason(c) BY DEF ChanInv
<1>3. Live(puts[c])' = {} BY <1>1 DEF Live
<1>4. Live(takes[c])' = {}
  <2>1. CASE buffer[c] = <<>> BY <1>1, <2>1 DEF Live
  <2>2. CASE Live(takes[c]) = {} BY <1>1, <1>2, <2>2, LiveShrinks
  <2> QED BY <1>2, <2>1, <2>2 DEF WaitsForReason
<1>5. WaitsForReason(c)' /\ WaitsInTurn(c)' BY <1>3, <1>4 DEF WaitsForReason, WaitsInTurn
<1>6. \A d \in Chan : d # c => closed'[d] = closed[d] BY <1>1, <1>2 DEF TypeOK
<1>7. /\ NoStaleWaiters' /\ Numbered' /\ NoEffectYet'
      /\ \A d \in Chan : d # c => WaitsForReason(d)' /\ WaitsInTurn(d)'
  BY <1>1, <1>6, NobodyStartsQuietly
<1> QED BY <1>1, <1>5, <1>7 DEF ChanInv

LEMMA StutterKeeps ==
  ASSUME ChanInv, UNCHANGED vars
  PROVE  ChanInv'
<1>1. TypeOK' BY DEF ChanInv, TypeOK, vars, chanVars, taskVars, pastVars
<1>2. NoNewWaiters BY DEF ChanInv, TypeOK, NoNewWaiters, vars, chanVars
<1>3. Nothing
  BY <1>2, QuietEffect DEF ChanInv, Nothing, vars, chanVars, taskVars, pastVars
<1>4. UNCHANGED <<kind, closed, on, calls>> BY DEF vars, chanVars, taskVars
<1> QED BY <1>1, <1>3, <1>4, NobodyStartsQuietly DEF Nothing, ChanInv

LEMMA NextKeeps == ChanInv /\ [Next]_vars => ChanInv'
<1> SUFFICES ASSUME ChanInv, [Next]_vars PROVE ChanInv'
  OBVIOUS
<1>1. CASE \E t \in Task, ports \in Requests : Succeed(t, ports) BY <1>1, SucceedKeeps
<1>2. CASE \E t \in Task, ports \in Requests : Wait(t, ports) BY <1>2, WaitKeeps
<1>3. CASE \E ports \in Requests : GiveUp(ports) BY <1>3, GiveUpKeeps
<1>4. CASE \E t \in Task : Resume(t) BY <1>4, ResumeKeeps
<1>5. CASE \E t \in Task : Cancel(t) BY <1>5, CancelKeeps
<1>6. CASE \E c \in Chan : Close(c) BY <1>6, CloseKeeps
<1>7. CASE UNCHANGED vars BY <1>7, StutterKeeps
<1> QED BY <1>1, <1>2, <1>3, <1>4, <1>5, <1>6, <1>7 DEF Next

(* The invariant, of which the properties that follow are parts. *)
THEOREM ChannelInvariant == Spec => []ChanInv
BY InitEstablishes, NextKeeps, PTL DEF Spec

(* Types, and no buffer above its capacity. *)
THEOREM ChannelTypeCorrect == Spec => []TypeOK
BY ChannelInvariant, InvImplies, PTL

(* A selection that is over, or was cancelled, leaves no waiter behind. *)
THEOREM NothingStale == Spec => []NoStaleWaiters
BY ChannelInvariant, InvImplies, PTL

(* No two calls that could be matched both wait, nor one on a closed channel. *)
THEOREM NoVainWait == Spec => []NobodyWaitsInVain
BY ChannelInvariant, InvImplies, PTL

(* The calls that wait on a channel are served in the order they came. *)
THEOREM ServedInTurn == Spec => []InTurn
BY ChannelInvariant, InvImplies, PTL

----------------------------------------------------------------------------
(* The channels implement SerialChannels.                                   *)

Settled == accepted \cup Takers

serialVars == <<kind, buffer, closed, received, Settled>>

LEMMA InitRefines == Init => Serial!Init
<1> SUFFICES ASSUME Init PROVE Serial!Init
  OBVIOUS
<1>1. \A c \in Chan : DOMAIN received[c] = {} BY DEF Init
<1>2. accepted \cup Takers = {} BY <1>1 DEF Takers, Init
<1> QED BY <1>2 DEF Init, Serial!Init

(* The number of a new call is above those that have had their effect; that *)
(* of a call that waits is not among them. *)
LEMMA NotSettled ==
  ASSUME ChanInv
  PROVE  /\ calls + 1 \notin Settled
         /\ \A c \in Chan : \A w \in Live(puts[c]) \cup Live(takes[c]) :
              w.id \in Call /\ w.id \notin Settled /\ w.id # calls + 1
<1>1. /\ TypeOK /\ Numbered /\ NoEffectYet /\ calls \in Nat /\ ~(calls + 1 <= calls)
  BY CallNumbers DEF ChanInv
<1>2. \A v \in accepted : v <= calls BY <1>1 DEF Numbered
<1>3. \A c \in Chan : \A i \in DOMAIN received[c] : received[c][i].by <= calls
  BY <1>1 DEF Numbered
<1>4. calls + 1 \notin Settled BY <1>1, <1>2, <1>3 DEF Settled, Takers
<1>5. ASSUME NEW c \in Chan, NEW w \in Live(puts[c]) \cup Live(takes[c])
      PROVE  w.id \in Call /\ w.id \notin Settled /\ w.id # calls + 1
  <2>1. /\ w.task \in Task /\ w.id \in Call
        /\ call[w.task] = w.id /\ future[w.task].is = "pending"
    BY <1>1, LiveFacts
  <2>2. w.id \notin Settled BY <1>1, <2>1 DEF NoEffectYet, Settled
  <2>3. w.id <= calls BY <1>1, <2>1 DEF Numbered
  <2> QED BY <1>1, <2>1, <2>2, <2>3
<1> QED BY <1>4, <1>5

LEMMA EffectRefines ==
  ASSUME ChanInv, NEW c \in Chan, calls' = calls + 1, calls' \in Call, Effect(c, calls'),
         UNCHANGED <<kind, closed>>
  PROVE  [Serial!Next]_serialVars
<1> DEFINE k == calls'
<1>1. /\ TypeOK /\ WaitsForReason(c) /\ k \in Call /\ k \notin Settled
      /\ kind' = kind /\ closed' = closed
  BY NotSettled DEF ChanInv
<1>2. ASSUME NEW w \in Waiter, w \in Live(puts[c]) \cup Live(takes[c])
      PROVE  w.id \in Call /\ w.id \notin Settled /\ w.id # k
  BY <1>2, NotSettled
<1> HIDE DEF k
<1>3. CASE Nothing
  <2>1. Takers' = Takers BY <1>3 DEF Nothing, Takers
  <2> QED BY <1>1, <1>3, <2>1 DEF Nothing, serialVars, Settled
<1>4. CASE Stores(c, k)
  <2>1. Takers' = Takers BY <1>4 DEF Stores, Takers
  <2>2. Settled' = Settled \cup {k} BY <1>4, <2>1 DEF Stores, Accept, Settled
  <2>3. Serial!Settle({k}) BY <1>1, <2>2 DEF Serial!Settle, Settled
  <2>4. Serial!Put(c, k)
    BY <1>1, <1>4, <2>3 DEF Stores, Serial!Put
  <2> QED BY <1>1, <2>4 DEF Serial!Next
<1>5. CASE TakesOnly(c, k)
  <2>1. Head(buffer[c]) \in Call BY <1>1, <1>5, BufferFacts, TailElements DEF TakesOnly
  <2>2. Takers' = Takers \cup {k} BY <1>1, <1>5, <2>1, ReceiveTakers DEF TakesOnly
  <2>3. Settled' = Settled \cup {k} BY <1>5, <2>2 DEF TakesOnly, Settled
  <2>4. Serial!Settle({k}) BY <1>1, <2>3 DEF Serial!Settle, Settled
  <2>5. Serial!Take(c, k)
    BY <1>1, <1>5, <2>4 DEF TakesOnly, Serial!Take, Serial!Receive, Receive
  <2> QED BY <1>1, <2>5 DEF Serial!Next
<1>6. CASE \E w \in Waiter : HandsTo(c, k, w)
  <2>1. PICK w \in Waiter : HandsTo(c, k, w) BY <1>6
  <2>2. w \in Live(takes[c]) BY <1>1, <2>1, OldestFacts DEF HandsTo
  <2>3. w.id \in Call /\ w.id \notin Settled /\ w.id # k BY <1>2, <2>2
  <2>4. ~closed[c] /\ buffer[c] = <<>> BY <1>1, <2>2 DEF WaitsForReason
  <2>5. Takers' = Takers \cup {w.id} BY <1>1, <2>1, <2>3, ReceiveTakers DEF HandsTo
  <2>6. Settled' = Settled \cup {k, w.id} BY <2>1, <2>5 DEF HandsTo, Accept, Settled
  <2>7. Serial!Settle({k, w.id}) BY <1>1, <2>3, <2>6 DEF Serial!Settle, Settled
  <2>8. Serial!Hand(c, k, w.id)
    BY <1>1, <2>1, <2>3, <2>4, <2>7 DEF HandsTo, Serial!Hand, Serial!Receive, Receive
  <2> QED BY <1>1, <2>3, <2>8 DEF Serial!Next
<1>7. CASE \E w \in Waiter : TakesFrom(c, k, w)
  <2>1. PICK w \in Waiter : TakesFrom(c, k, w) BY <1>7
  <2>2. w \in Live(puts[c]) BY <1>1, <2>1, OldestFacts DEF TakesFrom
  <2>3. w.id \in Call /\ w.id \notin Settled /\ w.id # k BY <1>2, <2>2
  <2>4. ~closed[c] BY <1>1, <2>2 DEF WaitsForReason
  <2>5. Takers' = Takers \cup {k} BY <1>1, <2>1, <2>3, ReceiveTakers DEF TakesFrom
  <2>6. Settled' = Settled \cup {w.id, k} BY <2>1, <2>5 DEF TakesFrom, Accept, Settled
  <2>7. Serial!Settle({w.id, k}) BY <1>1, <2>3, <2>6 DEF Serial!Settle, Settled
  <2>8. Serial!Hand(c, w.id, k)
    BY <1>1, <2>1, <2>3, <2>4, <2>7 DEF TakesFrom, Serial!Hand, Serial!Receive, Receive
  <2> QED BY <1>1, <2>3, <2>8 DEF Serial!Next
<1>8. CASE \E w \in Waiter : TakesAndFills(c, k, w)
  <2>1. PICK w \in Waiter : TakesAndFills(c, k, w) BY <1>8
  <2>2. w \in Live(puts[c]) BY <1>1, <2>1, OldestFacts DEF TakesAndFills
  <2>3. w.id \in Call /\ w.id \notin Settled /\ w.id # k BY <1>2, <2>2
  <2>4. ~closed[c] BY <1>1, <2>2 DEF WaitsForReason
  <2>5. /\ buffer[c] # <<>> /\ Head(buffer[c]) \in Call
        /\ Len(Tail(buffer[c])) = Len(buffer[c]) - 1 /\ Len(buffer[c]) \in Nat
        /\ Len(buffer[c]) <= kind[c].capacity /\ kind[c].capacity \in Nat
    BY <1>1, <2>1, BufferFacts, TailElements, KindFacts DEF TakesAndFills, TypeOK
  <2>6. Takers' = Takers \cup {k} BY <1>1, <2>1, <2>5, ReceiveTakers DEF TakesAndFills
  <2>7. Settled' = Settled \cup {w.id, k} BY <2>1, <2>6 DEF TakesAndFills, Accept, Settled
  <2>8. Serial!Settle({w.id, k}) BY <1>1, <2>3, <2>7 DEF Serial!Settle, Settled
  <2>9. Append(Tail(buffer[c]), w.id) \in Serial!Added(c, Tail(buffer[c]), w.id)
    <3>1. Len(Tail(buffer[c])) < kind[c].capacity BY <2>5
    <3> QED BY <3>1, Zenon DEF Serial!Added
  <2>a. \E q \in Serial!Added(c, Tail(buffer[c]), w.id) : buffer' = [buffer EXCEPT ![c] = q]
    <3>1. buffer' = [buffer EXCEPT ![c] = Append(Tail(buffer[c]), w.id)]
      BY <2>1 DEF TakesAndFills
    <3> QED BY <2>9, <3>1
  <2>b. Serial!Receive(c, Head(buffer[c]), k)
    BY <2>1 DEF TakesAndFills, Serial!Receive, Receive
  <2>10. Serial!TakeThenPut(c, w.id, k)
    BY <1>1, <2>3, <2>4, <2>5, <2>8, <2>a, <2>b DEF Serial!TakeThenPut
  <2> QED BY <1>1, <2>3, <2>10 DEF Serial!Next
<1> QED BY <1>3, <1>4, <1>5, <1>6, <1>7, <1>8 DEF Effect, k

LEMMA NextRefines == ChanInv /\ [Next]_vars => [Serial!Next]_serialVars
<1> SUFFICES ASSUME ChanInv, [Next]_vars PROVE [Serial!Next]_serialVars
  OBVIOUS
<1>1. TypeOK BY DEF ChanInv
<1>2. ASSUME NEW t \in Task, NEW ports \in Requests, Succeed(t, ports)
      PROVE  [Serial!Next]_serialVars
  <2>1. /\ calls' = calls + 1 /\ calls' \in Call /\ UNCHANGED <<kind, closed>>
        /\ \E c \in Chan : Effect(c, calls')
    BY <1>1, <1>2, SucceedEffect
  <2> QED BY <2>1, EffectRefines
<1>3. ASSUME UNCHANGED <<kind, closed, buffer, accepted, received>>
      PROVE  UNCHANGED serialVars
  BY <1>3 DEF serialVars, Settled, Takers
<1>4. ASSUME NEW t \in Task, NEW ports \in Requests, Wait(t, ports)
      PROVE  [Serial!Next]_serialVars
  BY <1>3, <1>4 DEF Wait, pastVars
<1>5. ASSUME NEW ports \in Requests, GiveUp(ports) PROVE [Serial!Next]_serialVars
  BY <1>3, <1>5 DEF GiveUp, pastVars
<1>6. ASSUME NEW t \in Task, Resume(t) PROVE [Serial!Next]_serialVars
  BY <1>3, <1>6 DEF Resume, pastVars
<1>7. ASSUME NEW t \in Task, Cancel(t) PROVE [Serial!Next]_serialVars
  BY <1>3, <1>7 DEF Cancel, chanVars, pastVars
<1>8. ASSUME NEW c \in Chan, Close(c) PROVE [Serial!Next]_serialVars
  <2>1. /\ closed' = [closed EXCEPT ![c] = TRUE]
        /\ UNCHANGED <<kind, buffer, accepted, received>>
    BY <1>8 DEF Close, pastVars
  <2>2. UNCHANGED <<kind, buffer, received, Settled>> BY <2>1 DEF Settled, Takers
  <2>3. Serial!Close(c) BY <2>1, <2>2 DEF Serial!Close, Settled
  <2> QED BY <2>3 DEF Serial!Next
<1>9. CASE UNCHANGED vars
  BY <1>3, <1>9 DEF vars, chanVars, pastVars
<1> QED BY <1>2, <1>4, <1>5, <1>6, <1>7, <1>8, <1>9 DEF Next

(* Every channel is a bounded queue, and a call has at most one effect. *)
THEOREM ChannelImplements == Spec => Linearizable
<1>1. Init => Serial!Init BY InitRefines
<1>2. ChanInv /\ [Next]_vars => [Serial!Next]_Serial!vars
  BY NextRefines DEF serialVars, Serial!vars, Settled
<1> QED BY <1>1, <1>2, ChannelInvariant, PTL DEF Spec, Linearizable, Serial!Spec

=============================================================================
