-------------------------- MODULE PipelineRefinement --------------------------
(***************************************************************************)
(* pipe and pipeline implement SerialPipeline, unless the destination is    *)
(* made to lose values: every step makes the outputs of an input known,     *)
(* delivers the output that is due, or neither.  What came out of the        *)
(* destination says how far the forwarder is: OrderInv.                      *)
(***************************************************************************)
EXTENDS PipelineProofs

(* The time each leaf is given: most need a second, a busy machine needs more. *)
USE SMTT(60), ZenonT(60)

----------------------------------------------------------------------------
(* What comes out of a channel, in order: the numbers of the outputs, and    *)
(* what taking, storing and handing over do to it.                           *)

Pairs == Int \X Int

(* An output is a pair of numbers. *)
LEMMA OutputType ==
  ASSUME NEW v \in Int
  PROVE  Output(v) \in Pairs
BY PipelineAssumption DEF Output, Pairs

(* What division and remainder are, for the provers. *)
LEMMA DivMod ==
  ASSUME NEW x \in Int, NEW m \in Int, m > 0
  PROVE  x \div m \in Int /\ x % m \in 0..(m - 1) /\ x = (x \div m) * m + (x % m)
<1>1. x \div m \in Int OBVIOUS
<1>2. x % m \in 0..(m - 1) OBVIOUS
<1>3. x = m * (x \div m) + (x % m) OBVIOUS
<1>4. x = (x \div m) * m + (x % m)
  <2> DEFINE q == x \div m  p == x % m
  <2>1. q \in Int /\ p \in Int /\ x = m * q + p BY <1>1, <1>2, <1>3
  <2> HIDE DEF q, p
  <2>2. x = q * m + p BY <2>1
  <2> QED BY <2>2 DEF q, p
<1> QED BY <1>1, <1>2, <1>4

(* The same for the operators on sequences. *)
LEMMA AppendFacts ==
  ASSUME NEW S, NEW s \in Seq(S), NEW e \in S
  PROVE  /\ Append(s, e) \in Seq(S) /\ Len(s) \in Nat /\ Len(Append(s, e)) = Len(s) + 1
         /\ \A j \in 1..Len(s) : Append(s, e)[j] = s[j]
         /\ Append(s, e)[Len(s) + 1] = e
OBVIOUS

LEMMA ConcatFacts ==
  ASSUME NEW S, NEW s \in Seq(S), NEW t \in Seq(S)
  PROVE  /\ s \o t \in Seq(S) /\ Len(s \o t) = Len(s) + Len(t)
         /\ \A k \in 1..Len(s) : (s \o t)[k] = s[k]
         /\ \A k \in (Len(s) + 1)..(Len(s) + Len(t)) : (s \o t)[k] = t[k - Len(s)]
OBVIOUS

LEMMA TailFacts ==
  ASSUME NEW S, NEW s \in Seq(S), s # <<>>
  PROVE  /\ Head(s) \in S /\ Head(s) = s[1] /\ Tail(s) \in Seq(S)
         /\ Len(s) \in Nat /\ Len(s) > 0 /\ Len(Tail(s)) = Len(s) - 1
         /\ \A j \in 1..Len(Tail(s)) : Tail(s)[j] = s[j + 1]
OBVIOUS

(* A number has one quotient and one remainder. *)
LEMMA Multiples ==
  ASSUME NEW d \in Int, NEW e \in Int, NEW r \in 0..(Fan - 1), NEW s \in 0..(Fan - 1),
         d * Fan + r = e * Fan + s
  PROVE  d = e /\ r = s
<1>1. Fan \in Nat /\ Fan > 0 BY PipelineAssumption
<1>2. ASSUME NEW a \in Int, NEW b \in Int, NEW p \in 0..(Fan - 1), NEW q \in 0..(Fan - 1),
             a * Fan + p = b * Fan + q, a < b
      PROVE  FALSE
  <2> DEFINE x == b - a
  <2>1. x \in Int /\ x >= 1 BY <1>2
  <2>2. b * Fan = a * Fan + x * Fan BY <1>1
  <2>3. x * Fan = p - q BY <1>1, <1>2, <2>2
  <2>4. x * Fan >= Fan
    <3> HIDE DEF x
    <3> QED BY <1>1, <2>1
  <2> HIDE DEF x
  <2> QED BY <1>1, <1>2, <2>1, <2>3, <2>4
<1>3. ~(d < e) /\ ~(e < d) BY <1>2
<1>4. d = e BY <1>3
<1> QED BY <1>1, <1>4

(* Output undoes Item. *)
LEMMA OutputOfItem ==
  ASSUME NEW n \in Int, NEW i \in 1..Fan
  PROVE  Item(n, i) \in Int /\ Output(Item(n, i)) = <<n, i>>
<1>1. Fan \in Nat /\ Fan > 0 BY PipelineAssumption
<1> DEFINE x == (n - 1) * Fan + (i - 1)
<1>2. x \in Int /\ Item(n, i) - 1 = x /\ Item(n, i) \in Int
  <2>1. (n - 1) * Fan \in Int BY <1>1
  <2> QED BY <1>1, <2>1 DEF Item
<1> DEFINE q == x \div Fan  p == x % Fan
<1>3. q \in Int /\ p \in 0..(Fan - 1) /\ x = q * Fan + p
  <2> HIDE DEF x
  <2> QED BY <1>1, <1>2, DivMod
<1>4. (n - 1) * Fan + (i - 1) = q * Fan + p
  <2> HIDE DEF q, p
  <2> QED BY <1>3
<1>5. n - 1 = q /\ i - 1 = p
  <2>1. n - 1 \in Int /\ i - 1 \in 0..(Fan - 1) BY <1>1
  <2> HIDE DEF x, q, p
  <2> QED BY <1>3, <1>4, <2>1, Multiples
<1> HIDE DEF x
<1> QED BY <1>2, <1>5 DEF Output

(* What came out of a channel and what is in its buffer, in order. *)
Flow(r, b) ==
  [k \in DOMAIN r |-> Output(r[k].value)] \o [k \in DOMAIN b |-> Output(b[k])]

(* What is delivered is what came out of the destination. *)
LEMMA DeliveredIsFlow == Delivered = Flow(received[Destination], buffer[Destination])
BY DEF Delivered, Flow

LEMMA FlowIsASequence ==
  ASSUME NEW r \in Seq(Record), NEW b \in Seq(Int)
  PROVE  /\ Flow(r, b) \in Seq(Pairs)
         /\ Len(r) \in Nat /\ Len(b) \in Nat
         /\ Len(Flow(r, b)) = Len(r) + Len(b)
         /\ \A k \in 1..Len(r) : Flow(r, b)[k] = Output(r[k].value)
         /\ \A k \in (Len(r) + 1)..(Len(r) + Len(b)) : Flow(r, b)[k] = Output(b[k - Len(r)])
<1> DEFINE s == [k \in DOMAIN r |-> Output(r[k].value)]
           t == [k \in DOMAIN b |-> Output(b[k])]
<1>1. DOMAIN r = 1..Len(r) /\ DOMAIN b = 1..Len(b) /\ Len(r) \in Nat /\ Len(b) \in Nat
  OBVIOUS
<1>2. /\ \A k \in 1..Len(r) : Output(r[k].value) \in Pairs
      /\ \A k \in 1..Len(b) : Output(b[k]) \in Pairs
  <2>1. \A k \in 1..Len(r) : r[k] \in Record BY <1>1
  <2>2. \A k \in 1..Len(r) : r[k].value \in Int BY <2>1 DEF Record
  <2>3. \A k \in 1..Len(b) : b[k] \in Int BY <1>1
  <2> QED BY <2>2, <2>3, OutputType
<1>3. s \in Seq(Pairs) /\ Len(s) = Len(r) /\ \A k \in 1..Len(r) : s[k] = Output(r[k].value)
  BY <1>1, <1>2
<1>4. t \in Seq(Pairs) /\ Len(t) = Len(b) /\ \A k \in 1..Len(b) : t[k] = Output(b[k])
  BY <1>1, <1>2
<1> HIDE DEF s, t
<1>5. /\ s \o t \in Seq(Pairs) /\ Len(s \o t) = Len(s) + Len(t)
      /\ \A k \in 1..Len(s) : (s \o t)[k] = s[k]
      /\ \A k \in (Len(s) + 1)..(Len(s) + Len(t)) : (s \o t)[k] = t[k - Len(s)]
  BY <1>3, <1>4, ConcatFacts
<1>6. Flow(r, b) = s \o t BY DEF Flow, s, t
<1>7. \A k \in (Len(r) + 1)..(Len(r) + Len(b)) : k - Len(r) \in 1..Len(b) BY <1>1
<1> QED BY <1>1, <1>3, <1>4, <1>5, <1>6, <1>7

LEMMA SameSequence ==
  ASSUME NEW S, NEW s \in Seq(S), NEW t \in Seq(S), Len(s) = Len(t),
         \A k \in 1..Len(s) : s[k] = t[k]
  PROVE  s = t
OBVIOUS

(* A value that is taken from the buffer had come out already. *)
LEMMA FlowTaken ==
  ASSUME NEW r \in Seq(Record), NEW b \in Seq(Int), b # <<>>, NEW k \in Int
  PROVE  Flow(Append(r, [value |-> Head(b), by |-> k]), Tail(b)) = Flow(r, b)
<1> DEFINE rr == Append(r, [value |-> Head(b), by |-> k])  bb == Tail(b)
<1>1. /\ Len(r) \in Nat /\ Len(b) \in Nat /\ Len(b) > 0
      /\ rr \in Seq(Record) /\ Len(rr) = Len(r) + 1
      /\ \A j \in 1..Len(r) : rr[j] = r[j]
      /\ rr[Len(r) + 1].value = b[1]
      /\ bb \in Seq(Int) /\ Len(bb) = Len(b) - 1 /\ \A j \in 1..Len(bb) : bb[j] = b[j + 1]
  <2> DEFINE e == [value |-> Head(b), by |-> k]
  <2>1. /\ Head(b) \in Int /\ Head(b) = b[1] /\ bb \in Seq(Int)
        /\ Len(b) \in Nat /\ Len(b) > 0 /\ Len(bb) = Len(b) - 1
        /\ \A j \in 1..Len(bb) : bb[j] = b[j + 1]
    BY TailFacts
  <2>2. e \in Record /\ e.value = b[1] BY <2>1 DEF Record
  <2> HIDE DEF e
  <2>3. /\ Append(r, e) \in Seq(Record) /\ Len(r) \in Nat
        /\ Len(Append(r, e)) = Len(r) + 1
        /\ \A j \in 1..Len(r) : Append(r, e)[j] = r[j]
        /\ Append(r, e)[Len(r) + 1] = e
    BY <2>2, AppendFacts
  <2>4. rr = Append(r, e) BY DEF e
  <2> HIDE DEF rr, bb
  <2> QED BY <2>1, <2>2, <2>3, <2>4
<1> HIDE DEF rr, bb
<1>2. /\ Flow(rr, bb) \in Seq(Pairs) /\ Len(Flow(rr, bb)) = Len(rr) + Len(bb)
      /\ \A j \in 1..Len(rr) : Flow(rr, bb)[j] = Output(rr[j].value)
      /\ \A j \in (Len(rr) + 1)..(Len(rr) + Len(bb)) : Flow(rr, bb)[j] = Output(bb[j - Len(rr)])
  BY <1>1, FlowIsASequence
<1>3. /\ Flow(r, b) \in Seq(Pairs) /\ Len(Flow(r, b)) = Len(r) + Len(b)
      /\ \A j \in 1..Len(r) : Flow(r, b)[j] = Output(r[j].value)
      /\ \A j \in (Len(r) + 1)..(Len(r) + Len(b)) : Flow(r, b)[j] = Output(b[j - Len(r)])
  BY FlowIsASequence
<1>4. ASSUME NEW j \in 1..(Len(r) + Len(b))
      PROVE  Flow(rr, bb)[j] = Flow(r, b)[j]
  <2>1. CASE j \in 1..Len(r)
    <3>1. j \in 1..Len(rr) /\ rr[j] = r[j] BY <1>1, <2>1
    <3> QED BY <1>2, <1>3, <2>1, <3>1
  <2>2. CASE j = Len(r) + 1
    <3>1. j - Len(r) = 1 /\ j \in 1..Len(rr) /\ j \in (Len(r) + 1)..(Len(r) + Len(b))
      BY <1>1, <2>2
    <3>2. rr[j].value = b[1] BY <1>1, <2>2
    <3>3. Flow(rr, bb)[j] = Output(b[1]) BY <1>2, <3>1, <3>2
    <3>4. Flow(r, b)[j] = Output(b[1]) BY <1>3, <3>1
    <3> QED BY <3>3, <3>4
  <2>3. CASE j > Len(r) + 1
    <3>1. /\ j \in (Len(rr) + 1)..(Len(rr) + Len(bb)) /\ j \in (Len(r) + 1)..(Len(r) + Len(b))
          /\ j - Len(rr) \in 1..Len(bb) /\ (j - Len(rr)) + 1 = j - Len(r)
      BY <1>1, <2>3
    <3>2. bb[j - Len(rr)] = b[j - Len(r)] BY <1>1, <3>1
    <3> QED BY <1>2, <1>3, <3>1, <3>2
  <2> QED BY <1>1, <2>1, <2>2, <2>3
<1>5. Flow(rr, bb) = Flow(r, b)
  <2>1. Len(Flow(rr, bb)) = Len(r) + Len(b) BY <1>1, <1>2
  <2> QED BY <1>2, <1>3, <1>4, <2>1, SameSequence
<1> QED BY <1>5 DEF rr, bb

(* A value that is stored, or handed over past an empty buffer, comes last. *)
LEMMA FlowStored ==
  ASSUME NEW r \in Seq(Record), NEW b \in Seq(Int), NEW v \in Int
  PROVE  Flow(r, Append(b, v)) = Append(Flow(r, b), Output(v))
<1> DEFINE bb == Append(b, v)
<1>1. /\ Len(r) \in Nat /\ Len(b) \in Nat
      /\ bb \in Seq(Int) /\ Len(bb) = Len(b) + 1 /\ bb[Len(b) + 1] = v
      /\ \A j \in 1..Len(b) : bb[j] = b[j]
  <2>1. Len(r) \in Nat OBVIOUS
  <2> QED BY <2>1, AppendFacts
<1> HIDE DEF bb
<1>2. /\ Flow(r, bb) \in Seq(Pairs) /\ Len(Flow(r, bb)) = Len(r) + Len(bb)
      /\ \A j \in 1..Len(r) : Flow(r, bb)[j] = Output(r[j].value)
      /\ \A j \in (Len(r) + 1)..(Len(r) + Len(bb)) : Flow(r, bb)[j] = Output(bb[j - Len(r)])
  BY <1>1, FlowIsASequence
<1>3. /\ Flow(r, b) \in Seq(Pairs) /\ Len(Flow(r, b)) = Len(r) + Len(b)
      /\ \A j \in 1..Len(r) : Flow(r, b)[j] = Output(r[j].value)
      /\ \A j \in (Len(r) + 1)..(Len(r) + Len(b)) : Flow(r, b)[j] = Output(b[j - Len(r)])
  BY FlowIsASequence
<1> DEFINE f == Append(Flow(r, b), Output(v))
<1>4. /\ f \in Seq(Pairs) /\ Len(f) = Len(r) + Len(b) + 1
      /\ \A j \in 1..(Len(r) + Len(b)) : f[j] = Flow(r, b)[j]
      /\ f[Len(r) + Len(b) + 1] = Output(v)
  <2> DEFINE g == Flow(r, b)  o == Output(v)
  <2>1. o \in Pairs /\ g \in Seq(Pairs) BY <1>3, OutputType
  <2>2. Len(g) = Len(r) + Len(b) BY <1>3
  <2> HIDE DEF g, o
  <2>3. /\ Append(g, o) \in Seq(Pairs) /\ Len(Append(g, o)) = Len(g) + 1
        /\ \A j \in 1..Len(g) : Append(g, o)[j] = g[j]
        /\ Append(g, o)[Len(g) + 1] = o
    BY <2>1, AppendFacts
  <2> QED BY <2>2, <2>3 DEF g, o
<1> HIDE DEF f
<1>5. ASSUME NEW j \in 1..(Len(r) + Len(b) + 1)
      PROVE  Flow(r, bb)[j] = f[j]
  <2>1. CASE j \in 1..Len(r) BY <1>1, <1>2, <1>3, <1>4, <2>1
  <2>2. CASE j = Len(r) + Len(b) + 1
    <3>1. j - Len(r) = Len(b) + 1 /\ j \in (Len(r) + 1)..(Len(r) + Len(bb)) BY <1>1, <2>2
    <3> QED BY <1>1, <1>2, <1>4, <2>2, <3>1
  <2>3. CASE j \in (Len(r) + 1)..(Len(r) + Len(b))
    <3>1. /\ j - Len(r) \in 1..Len(b) /\ j \in (Len(r) + 1)..(Len(r) + Len(bb))
          /\ j \in 1..(Len(r) + Len(b))
      BY <1>1, <2>3
    <3> QED BY <1>1, <1>2, <1>3, <1>4, <2>3, <3>1
  <2>4. \/ j \in 1..Len(r) \/ j = Len(r) + Len(b) + 1
        \/ j \in (Len(r) + 1)..(Len(r) + Len(b))
    <3> DEFINE m == Len(r)  p == Len(b)
    <3>1. m \in Nat /\ p \in Nat /\ j \in 1..(m + p + 1) BY <1>1
    <3> HIDE DEF m, p
    <3>2. j \in 1..m \/ j = m + p + 1 \/ j \in (m + 1)..(m + p) BY <3>1
    <3> QED BY <3>2 DEF m, p
  <2> QED BY <2>1, <2>2, <2>3, <2>4
<1>6. Flow(r, bb) = f
  <2> DEFINE g == Flow(r, bb)
  <2>1. g \in Seq(Pairs) /\ Len(g) = Len(r) + Len(b) + 1 BY <1>1, <1>2
  <2>2. \A j \in 1..Len(g) : g[j] = f[j] BY <2>1, <1>5
  <2> HIDE DEF g
  <2>3. g = f BY <1>4, <2>1, <2>2, SameSequence
  <2> QED BY <2>3 DEF g
<1> QED BY <1>6 DEF bb, f

(* A value that is handed over past an empty buffer comes last, too. *)
LEMMA FlowHanded ==
  ASSUME NEW r \in Seq(Record), NEW v \in Int, NEW k \in Int
  PROVE  Flow(Append(r, [value |-> v, by |-> k]), <<>>) = Append(Flow(r, <<>>), Output(v))
<1>1. <<v>> \in Seq(Int) /\ <<v>> # <<>> /\ Head(<<v>>) = v /\ Tail(<<v>>) = <<>>
      /\ <<>> \in Seq(Int) /\ Append(<<>>, v) = <<v>>
  OBVIOUS
<1>2. Flow(Append(r, [value |-> v, by |-> k]), <<>>) = Flow(r, <<v>>)
  BY <1>1, FlowTaken
<1>3. Flow(r, Append(<<>>, v)) = Append(Flow(r, <<>>), Output(v))
  BY <1>1, FlowStored
<1> QED BY <1>1, <1>2, <1>3
----------------------------------------------------------------------------
(* Order: the inductive invariant of what comes out of the destination.     *)

(* No value is lost on purpose: the destination neither slides nor drops. *)
Lossless == \A k \in Kinds : k[Destination].policy = "fixed"

(* Output i of input n is among those delivered. *)
CameOut(n, i) == \E k \in DOMAIN Delivered : Delivered[k] = <<n, i>>

(* The put the forwarder sleeps in was taken up. *)
Ahead == IF future[Forwarder].is = "true" THEN 1 ELSE 0

(* Output i of input n should be among them, as far as the forwarder got. *)
Sent(n, i) ==
  /\ made[n] # NotYet
  /\ \/ n < nextOutput /\ i <= made[n]
     \/ n = nextOutput /\ left > 0 /\ i <= made[n] - left + Ahead

(* Of which inputs the outputs are known. *)
MadeOK ==
  /\ \A n \in Input : n < nextOutput => made[n] # NotYet
  /\ \A n \in Input : n > admitted => made[n] = NotYet /\ worker[n] = "none"
  /\ \A n \in Input : worker[n] = "running" => made[n] = NotYet
  /\ \A n \in pending : worker[n] = "failed" => made[n] = NotYet
  /\ \A n \in InRepair : made[n] = NotYet /\ worker[n] = "failed"

(* Before it admits or waits, it has put whatever was due. *)
TurnOK ==
  /\ Running /\ left > 0 => pc = "emit"
  /\ left > 0 => left <= made[nextOutput]
  /\ pc \in {"created", "admit", "wait"} => nextOutput \notin completed

Typed  == kind \in Kinds /\ closed \in [Chan -> BOOLEAN]
Asked  == \A w \in puts[Destination] : w.id = DueItem
Hungry == takes[Destination] # {} /\ future[Consumer].is = "pending" =>
            buffer[Destination] = <<>>

(* A source that is closed and empty stays so. *)
Shut ==
  /\ closed[Source] => puts[Source] = {}
  /\ inputClosed \/ future[Forwarder].is = "nil" =>
       closed[Source] /\ buffer[Source] = <<>>

DrainOK ==
  end = "drained" =>
    /\ ~Running /\ inputClosed
    /\ nextOutput = admitted + 1 /\ Len(received[Source]) = admitted

ExactOK ==
  /\ Running => \A n \in Input, i \in 1..Fan : CameOut(n, i) <=> Sent(n, i)
  /\ \A n \in Input, i \in 1..Fan : n < nextOutput /\ i <= made[n] => CameOut(n, i)

SidesOK  == Typed /\ Asked /\ Hungry /\ Shut
OrderInv == MadeOK /\ TurnOK /\ SidesOK /\ DrainOK /\ ExactOK

Serial == [Promise!Next]_(Promise!vars)

(* What is known of an output is a number. *)
LEMMA MadeType ==
  ASSUME PipeInv, NEW n \in Input
  PROVE  /\ Fan \in Nat /\ Fan > 0
         /\ made[n] # NotYet => made[n] \in 0..Fan /\ made[n] \in Int
BY PipelineAssumption DEF PipeInv, OwnInv, PipeTypeOK

LEMMA NumbersOK ==
  ASSUME PipeInv
  PROVE  /\ admitted \in Nat /\ nextOutput \in Int /\ nextOutput >= 1
         /\ nextOutput <= admitted + 1 /\ left \in Int /\ left >= 0
         /\ Input \subseteq Int /\ 1..admitted \subseteq Input
         /\ completed \subseteq 1..admitted /\ pending \subseteq 1..admitted
         /\ left > 0 => nextOutput \in Input /\ made[nextOutput] # NotYet
BY PipelineAssumption DEF PipeInv, OwnInv, PipeTypeOK, WorkOK, Input

LEMMA DeliveredType ==
  ASSUME ChanTypeOK
  PROVE  /\ Delivered \in Seq(Pairs)
         /\ received[Destination] \in Seq(Record) /\ buffer[Destination] \in Seq(Int)
<1>1. received[Destination] \in Seq(Record) /\ buffer[Destination] \in Seq(Int)
  BY TasksAndChans DEF ChanTypeOK
<1> QED BY <1>1, DeliveredIsFlow, FlowIsASequence

(* Nothing moves at the destination. *)
LEMMA DeliveredStays ==
  ASSUME received'[Destination] = received[Destination],
         buffer'[Destination] = buffer[Destination]
  PROVE  Delivered' = Delivered
BY DEF Delivered

LEMMA CameOutStays ==
  ASSUME Delivered' = Delivered, NEW n, NEW i
  PROVE  CameOut(n, i)' <=> CameOut(n, i)
BY DEF CameOut

(* One more value came out. *)
LEMMA CameOutMore ==
  ASSUME ChanTypeOK, NEW a \in Int, NEW b \in Int,
         Delivered' = Append(Delivered, <<a, b>>), NEW n, NEW i
  PROVE  CameOut(n, i)' <=> CameOut(n, i) \/ (n = a /\ i = b)
<1> DEFINE d == Delivered  e == <<a, b>>  dd == Append(d, e)
<1>1. d \in Seq(Pairs) /\ e \in Pairs BY DeliveredType DEF Pairs
<1> HIDE DEF d, e
<1>2. /\ dd \in Seq(Pairs) /\ Len(d) \in Nat /\ Len(dd) = Len(d) + 1
      /\ \A j \in 1..Len(d) : dd[j] = d[j]
      /\ dd[Len(d) + 1] = e
  BY <1>1, AppendFacts
<1> HIDE DEF dd
<1>3. DOMAIN d = 1..Len(d) /\ DOMAIN dd = 1..Len(dd) BY <1>1, <1>2
<1>4. DOMAIN dd = DOMAIN d \cup {Len(d) + 1} BY <1>2, <1>3
<1>5. (\E k \in DOMAIN dd : dd[k] = <<n, i>>)
        <=> (\E k \in DOMAIN d : d[k] = <<n, i>>) \/ e = <<n, i>>
  BY <1>2, <1>3, <1>4
<1>6. e = <<n, i>> <=> n = a /\ i = b BY DEF e
<1>7. Delivered' = dd BY DEF dd, d, e
<1> QED BY <1>5, <1>6, <1>7 DEF CameOut, d
----------------------------------------------------------------------------
(* What the calls of the forwarder and the consumer do to the destination. *)

(* A put into an open destination that loses nothing delivers its value. *)
LEMMA PutDelivers ==
  ASSUME Lossless, ChanTypeOK, Sides, Typed, Hungry, NEW v \in Int,
         PutNow(Forwarder, Destination, v)
  PROVE  /\ closed' = closed /\ kind' = kind
         /\ Delivered' = IF closed[Destination] THEN Delivered
                         ELSE Append(Delivered, Output(v))
         /\ Hungry'
<1> DEFINE c == Destination  C == {} \cup {c}
           r == received[c]  b == buffer[c]
<1>1. /\ closed' = closed /\ kind' = kind /\ TryPut(c, v, {}) /\ c \in Chan
      /\ r \in Seq(Record) /\ b \in Seq(Int)
      /\ Delivered = Flow(r, b) /\ Delivered' = Flow(r', b')
      /\ kind[c].policy = "fixed"
  <2>1. /\ closed' = closed /\ kind' = kind /\ TryPut(c, v, {}) BY DEF PutNow
  <2>2. kind[c].policy = "fixed" BY DEF Lossless, Typed
  <2>3. Delivered' = Flow(r', b') BY DEF Delivered, Flow
  <2> QED BY <2>1, <2>2, <2>3, DeliveredType, DeliveredIsFlow, TasksAndChans
<1>2. CASE closed[c] /\ PutRefused({})
  <2>1. received' = received /\ buffer' = buffer /\ future' = future /\ Discard({})
    BY <1>2 DEF PutRefused
  <2>2. takes'[c] \subseteq takes[c] BY <1>1, <2>1, DiscardEffect DEF NoNewWaiters
  <2>3. Hungry' BY <2>1, <2>2 DEF Hungry
  <2> QED BY <1>1, <1>2, <2>1, <2>3
<1>3. CASE ~closed[c] /\ PutHanded(c, v, C)
  <2>1. PICK w \in Oldest(Live(takes[c])) :
          PopTake(c, C, w) /\ Resolve(w, Given(v)) /\ Receive(c, v, w.id)
    BY <1>3 DEF PutHanded
  <2>2. /\ w \in takes[c] /\ future[w.task].is = "pending" /\ w.id \in Int
        /\ w.task = Consumer
    <3>1. w \in Live(takes[c]) BY DEF Oldest
    <3> QED BY <1>1, <3>1, LiveArePending DEF ChanTypeOK, AnyWaiter, Sides
  <2>3. b = <<>> BY <2>2 DEF Hungry
  <2>4. buffer' = buffer BY <1>3 DEF PutHanded
  <2>5. r' = Append(r, [value |-> v, by |-> w.id])
    <3>1. received \in [Chan -> Seq(Record)] BY DEF ChanTypeOK
    <3> QED BY <1>1, <2>1, <3>1 DEF Receive
  <2>6. Flow(r', b') = Append(Flow(r, b), Output(v))
    <3> HIDE DEF r, b, c
    <3>1. b' = <<>> BY <2>3, <2>4 DEF b, c
    <3> QED BY <1>1, <2>2, <2>3, <2>5, <3>1, FlowHanded
  <2>7. Hungry' BY <2>3, <2>4 DEF Hungry
  <2> HIDE DEF r, b
  <2> QED BY <1>1, <1>3, <2>6, <2>7
<1>4. CASE ~closed[c] /\ PutStored(c, v, C)
  <2>1. /\ Live(takes[c]) = {} /\ Discard(C) /\ received' = received
        /\ buffer' = [buffer EXCEPT ![c] = Append(@, v)]
    BY <1>1, <1>4 DEF PutStored
  <2>2. b' = Append(b, v) /\ r' = r BY <1>1, <2>1 DEF ChanTypeOK
  <2>3. takes'[c] = {} BY <1>1, <2>1, DiscardEffect
  <2>4. Hungry' BY <2>3 DEF Hungry
  <2>5. Flow(r', b') = Append(Flow(r, b), Output(v))
    <3> HIDE DEF r, b, c
    <3> QED BY <1>1, <2>2, FlowStored
  <2> HIDE DEF r, b
  <2> QED BY <1>1, <1>4, <2>4, <2>5
<1> HIDE DEF r, b
<1> QED BY <1>1, <1>2, <1>3, <1>4 DEF TryPut

(* A take delivers nothing, or the value of the put it lets go on. *)
LEMMA TakeDelivers ==
  ASSUME ChanTypeOK, Sides, TakeNow(Consumer, Destination, 1)
  PROVE  /\ closed' = closed /\ kind' = kind /\ Hungry'
         /\ \/ Delivered' = Delivered /\ future' = future
            \/ \E w \in puts[Destination] :
                 /\ future[Forwarder].is = "pending"
                 /\ future' = [future EXCEPT ![Forwarder] = Answer("true")]
                 /\ Delivered' = Append(Delivered, Output(w.id))
<1> DEFINE c == Destination  C == {c}
           r == received[c]  b == buffer[c]
<1>1. /\ closed' = closed /\ kind' = kind /\ TryTake(c, 1, C) /\ c \in Chan
      /\ r \in Seq(Record) /\ b \in Seq(Int) /\ Idle(Consumer)
      /\ Delivered = Flow(r, b) /\ Delivered' = Flow(r', b')
      /\ received \in [Chan -> Seq(Record)] /\ buffer \in [Chan -> Seq(Int)]
  <2>1. /\ closed' = closed /\ kind' = kind /\ TryTake(c, 1, C) /\ Idle(Consumer)
    BY DEF TakeNow
  <2>2. Delivered' = Flow(r', b') BY DEF Delivered, Flow
  <2> QED BY <2>1, <2>2, DeliveredType, DeliveredIsFlow, TasksAndChans DEF ChanTypeOK
<1>2. ASSUME NEW w \in Oldest(Live(puts[c])), Resolve(w, Answer("true"))
      PROVE  /\ w \in puts[c] /\ w.id \in Int
             /\ future[Forwarder].is = "pending"
             /\ future' = [future EXCEPT ![Forwarder] = Answer("true")]
  <2>1. w \in Live(puts[c]) BY DEF Oldest
  <2>2. w \in puts[c] /\ future[w.task].is = "pending" BY <2>1, LiveArePending
  <2>3. w.task = Forwarder /\ w.id \in Int
    BY <1>1, <2>2 DEF Sides, ChanTypeOK, AnyWaiter
  <2> QED BY <1>2, <2>2, <2>3 DEF Resolve
<1>3. \/ future' = future \/ future' = [future EXCEPT ![Forwarder] = Answer("true")]
      => Hungry'
  <2>1. future \in [Task -> AnyAnswer] BY DEF ChanTypeOK
  <2> QED BY <1>1, <2>1, TasksAndChans DEF Idle, Hungry
<1>4. CASE TakeNil(c, C)
  <2>1. received' = received /\ buffer' = buffer /\ future' = future
    BY <1>4 DEF TakeNil
  <2>2. r' = r /\ b' = b BY <2>1
  <2> HIDE DEF r, b
  <2> QED BY <1>1, <1>3, <2>1, <2>2
<1>5. CASE TakeHanded(c, 1, C)
  <2>1. PICK w \in Oldest(Live(puts[c])) :
          Resolve(w, Answer("true")) /\ Receive(c, w.id, 1)
    BY <1>5 DEF TakeHanded
  <2>2. b = <<>> /\ b' = <<>> BY <1>5 DEF TakeHanded
  <2>3. r' = Append(r, [value |-> w.id, by |-> 1]) BY <1>1, <2>1 DEF Receive
  <2>4. w \in puts[c] /\ w.id \in Int BY <1>2, <2>1
  <2>5. Flow(r', b') = Append(Flow(r, b), Output(w.id))
    <3> HIDE DEF r, b, c
    <3> QED BY <1>1, <2>2, <2>3, <2>4, FlowHanded
  <2> HIDE DEF r, b
  <2> QED BY <1>1, <1>2, <1>3, <2>1, <2>4, <2>5
<1>6. CASE TakeStored(c, 1, C)
  <2>1. b # <<>> /\ Receive(c, Head(b), 1) /\ FillBuffer(c, C)
    BY <1>6 DEF TakeStored
  <2>2. r' = Append(r, [value |-> Head(b), by |-> 1]) BY <1>1, <2>1 DEF Receive
  <2>3. r' \in Seq(Record) /\ Flow(r', Tail(b)) = Flow(r, b) /\ Tail(b) \in Seq(Int)
    <3> HIDE DEF r, b, c
    <3>1. Head(b) \in Int /\ Tail(b) \in Seq(Int) BY <1>1, <2>1
    <3>2. [value |-> Head(b), by |-> 1] \in Record BY <3>1 DEF Record
    <3> DEFINE e == [value |-> Head(b), by |-> 1]
    <3>3. Append(r, e) \in Seq(Record)
      <4> HIDE DEF e
      <4> QED BY <1>1, <3>2, AppendFacts DEF e
    <3> QED BY <1>1, <2>1, <2>2, <3>1, <3>3, FlowTaken
  <2>4. CASE /\ buffer' = [buffer EXCEPT ![c] = Tail(@)] /\ future' = future
    <3>1. b' = Tail(b) BY <1>1, <2>4
    <3> HIDE DEF r, b
    <3> QED BY <1>1, <1>3, <2>3, <2>4, <3>1
  <2>5. CASE \E w \in Oldest(Live(puts[c])) :
               /\ buffer' = [buffer EXCEPT ![c] = Append(Tail(@), w.id)]
               /\ Resolve(w, Answer("true"))
    <3>1. PICK w \in Oldest(Live(puts[c])) :
               /\ buffer' = [buffer EXCEPT ![c] = Append(Tail(@), w.id)]
               /\ Resolve(w, Answer("true"))
      BY <2>5
    <3>2. b' = Append(Tail(b), w.id) BY <1>1, <3>1
    <3>3. w \in puts[c] /\ w.id \in Int BY <1>2, <3>1
    <3>4. Flow(r', b') = Append(Flow(r, b), Output(w.id))
      <4> HIDE DEF r, b, c
      <4> QED BY <2>3, <3>2, <3>3, FlowStored
    <3> HIDE DEF r, b
    <3> QED BY <1>1, <1>2, <1>3, <3>1, <3>3, <3>4
  <2> QED BY <2>1, <2>4, <2>5 DEF FillBuffer
<1> HIDE DEF r, b
<1> QED BY <1>1, <1>4, <1>5, <1>6 DEF TryTake

(* Closing: who waits is answered, and nobody waits to put any more. *)
LEMMA CloseDetail ==
  ASSUME ChanTypeOK, Typed, NEW c \in Chan, Close(c)
  PROVE  /\ kind' = kind /\ closed' \in [Chan -> BOOLEAN]
         /\ closed'[c] /\ \A d \in Chan : d # c => closed'[d] = closed[d]
         /\ puts'[c] = {}
         /\ \A t \in Task :
              /\ future'[t].is = "true" <=> future[t].is = "true"
              /\ future'[t].is = "nil" =>
                   \/ future[t].is = "nil"
                   \/ buffer[c] = <<>> /\ \E w \in takes[c] : w.task = t
<1>1. /\ closed' = [closed EXCEPT ![c] = TRUE] /\ kind' = kind
      /\ puts' = [puts EXCEPT ![c] = {}]
      /\ future' = [t \in Task |-> Woken(c, t)]
  BY DEF Close
<1>2. ASSUME NEW t \in Task
      PROVE  /\ Woken(c, t).is = "true" <=> future[t].is = "true"
             /\ Woken(c, t).is = "nil" =>
                  \/ future[t].is = "nil"
                  \/ buffer[c] = <<>> /\ \E w \in takes[c] : w.task = t
  <2>1. /\ Waits(puts[c], t) => future[t].is = "pending"
        /\ Waits(takes[c], t) => future[t].is = "pending" /\ \E w \in takes[c] : w.task = t
    BY LiveArePending DEF Waits
  <2>2. Answer("false").is = "false" /\ Answer("nil").is = "nil" BY DEF Answer
  <2> QED BY <2>1, <2>2 DEF Woken
<1> QED BY <1>1, <1>2 DEF Typed, ChanTypeOK
----------------------------------------------------------------------------
(* What a step of the forwarder or of a thread may do to each part.         *)

(* The outputs known of an input, once known, stay. *)
KnownStays ==
  \A n \in Input : made[n] # NotYet => made'[n] = made[n]

(* No step but those of threads and the handler makes outputs known. *)
LEMMA MadeStays ==
  ASSUME PipeInv, MadeOK, made' = made, admitted' = admitted, pending' \subseteq pending,
         InRepair' \subseteq InRepair,
         \A n \in Input : worker'[n] = worker[n]
                          \/ (worker[n] = "running" /\ worker'[n] = "cancelled"),
         \/ nextOutput' = nextOutput
         \/ nextOutput' = nextOutput + 1 /\ nextOutput \in Input /\ made[nextOutput] # NotYet
  PROVE  MadeOK'
<1>1. pending \subseteq Input /\ nextOutput \in Int /\ Input \subseteq Int
  BY NumbersOK
<1>2. \A n \in Input : n < nextOutput' => made'[n] # NotYet
  BY <1>1 DEF MadeOK
<1>3. InRepair \subseteq Input
  <2>1. batch \subseteq Input BY NumbersOK DEF PipeInv, OwnInv, PipeTypeOK
  <2> QED BY <2>1 DEF InRepair
<1>4. \A n \in Input : worker'[n] # "cancelled" => worker'[n] = worker[n] OBVIOUS
<1>5. \A n \in Input : n > admitted' => made'[n] = NotYet /\ worker'[n] = "none"
  BY DEF MadeOK
<1>6. \A n \in Input : worker'[n] = "running" => made'[n] = NotYet
  BY <1>4 DEF MadeOK
<1>7. \A n \in pending' : worker'[n] = "failed" => made'[n] = NotYet
  BY <1>1, <1>4 DEF MadeOK
<1>8. \A n \in InRepair' : made'[n] = NotYet /\ worker'[n] = "failed"
  BY <1>3, <1>4 DEF MadeOK
<1> QED BY <1>2, <1>5, <1>6, <1>7, <1>8 DEF MadeOK

(* The turn stays, wherever the forwarder goes. *)
LEMMA TurnStays ==
  ASSUME PipeInv, TurnOK, KnownStays, nextOutput' = nextOutput, left' = left,
         \/ pc' = pc /\ completed' = completed
         \/ pc' = "emit"
         \/ ~Running'
         \/ left = 0 /\ (nextOutput \notin completed' \/ pc' \in {"sort", "handle"})
  PROVE  TurnOK'
<1>1. left > 0 => nextOutput \in Input /\ made[nextOutput] # NotYet BY NumbersOK
<1>2. left' > 0 => left' <= made'[nextOutput'] BY <1>1 DEF TurnOK, KnownStays
<1>3. (Running' /\ left' > 0 => pc' = "emit")
      /\ (pc' \in {"created", "admit", "wait"} => nextOutput' \notin completed')
  <2>1. CASE pc' = pc /\ completed' = completed BY <2>1 DEF TurnOK, Running
  <2>2. CASE pc' = "emit" BY <2>2
  <2>3. CASE ~Running' BY <2>3 DEF Running
  <2>4. CASE left = 0 /\ (nextOutput \notin completed' \/ pc' \in {"sort", "handle"})
    BY <2>4
  <2> QED BY <2>1, <2>2, <2>3, <2>4
<1> QED BY <1>2, <1>3 DEF TurnOK

(* What should have come out does not change when another input's outputs  *)
(* become known. *)
LEMMA SentStays ==
  ASSUME PipeInv, MadeOK, KnownStays, nextOutput' = nextOutput, left' = left,
         Ahead' = Ahead, NEW n \in Input, NEW i
  PROVE  Sent(n, i)' <=> Sent(n, i)
<1>1. CASE made[n] # NotYet BY <1>1 DEF Sent, KnownStays
<1>2. CASE made[n] = NotYet
  <2>1. ~(n < nextOutput) BY <1>2 DEF MadeOK
  <2>2. ~(n = nextOutput /\ left > 0) BY <1>2, NumbersOK
  <2> QED BY <1>2, <2>1, <2>2 DEF Sent
<1> QED BY <1>1, <1>2

(* Nothing comes out and nothing is put: what came out is still what was put. *)
LEMMA ExactStays ==
  ASSUME PipeInv, MadeOK, ExactOK, KnownStays, nextOutput' = nextOutput, left' = left,
         Delivered' = Delivered, Running' => Running /\ Ahead' = Ahead
  PROVE  ExactOK'
<1>1. ASSUME NEW n \in Input, NEW i \in 1..Fan, Running'
      PROVE  CameOut(n, i)' <=> Sent(n, i)'
  <2>1. CameOut(n, i)' <=> CameOut(n, i) BY CameOutStays
  <2>2. Sent(n, i)' <=> Sent(n, i) BY <1>1, SentStays
  <2> QED BY <1>1, <2>1, <2>2 DEF ExactOK
<1>2. ASSUME NEW n \in Input, NEW i \in 1..Fan, n < nextOutput', i <= made'[n]
      PROVE  CameOut(n, i)'
  <2>1. made'[n] = made[n] BY <1>2 DEF MadeOK, KnownStays
  <2>2. CameOut(n, i) BY <1>2, <2>1 DEF ExactOK
  <2> QED BY <2>2, CameOutStays
<1> QED BY <1>1, <1>2 DEF ExactOK

LEMMA KnownSame ==
  ASSUME made' = made
  PROVE  KnownStays
BY DEF KnownStays

(* A forwarder that came to its end has come to its end. *)
LEMMA DrainStays ==
  ASSUME DrainOK,
         end' = "drained" =>
           /\ end = "drained" /\ (~Running => ~Running')
           /\ inputClosed' = inputClosed /\ nextOutput' = nextOutput
           /\ admitted' = admitted
           /\ Running \/ Len(received'[Source]) = Len(received[Source])
  PROVE  DrainOK'
BY DEF DrainOK

(* While it runs it has not ended. *)
LEMMA NotEnded ==
  ASSUME DrainOK, Running
  PROVE  end # "drained"
BY DEF DrainOK

LEMMA Unmoved ==
  ASSUME UNCHANGED vars
  PROVE  /\ puts' = puts /\ takes' = takes /\ buffer' = buffer /\ future' = future
         /\ on' = on /\ received' = received /\ kind' = kind /\ closed' = closed
         /\ Delivered' = Delivered /\ Ahead' = Ahead
BY DEF vars, chanVars, taskVars, pastVars, Delivered, Ahead

(* No channel is called. *)
LEMMA SidesStay ==
  ASSUME SidesOK, UNCHANGED vars, inputClosed' = inputClosed,
         puts[Destination] = {} \/ DueItem' = DueItem
  PROVE  SidesOK'
<1>1. /\ puts' = puts /\ takes' = takes /\ buffer' = buffer /\ future' = future
      /\ kind' = kind /\ closed' = closed
  BY Unmoved
<1>2. Typed' /\ Hungry' /\ Shut' BY <1>1 DEF SidesOK, Typed, Hungry, Shut
<1>3. Asked' BY <1>1 DEF SidesOK, Asked
<1> QED BY <1>2, <1>3 DEF SidesOK

(* What is due stays while its number is known. *)
LEMMA DueStays ==
  ASSUME PipeInv, KnownStays, nextOutput' = nextOutput, left' = left, left > 0
  PROVE  DueItem' = DueItem
<1>1. made'[nextOutput] = made[nextOutput] BY NumbersOK DEF KnownStays
<1> QED BY <1>1 DEF DueItem

(* Nobody waits for the forwarder's outputs unless it is putting one. *)
LEMMA NothingAsked ==
  ASSUME PipeInv, pc # "emit" \/ left = 0
  PROVE  puts[Destination] = {}
BY NumbersOK DEF PipeInv, ChanInv, Asleep

(* The abstract steps. *)
LEMMA Stutters ==
  ASSUME made' = made, Delivered' = Delivered
  PROVE  Serial
BY DEF Serial, Promise!vars

(* The outputs of an input become known: the abstract step. *)
LEMMA Makes ==
  ASSUME NEW n \in Input, made[n] = NotYet, NEW k \in 0..Fan,
         made' = [made EXCEPT ![n] = k], Delivered' = Delivered
  PROVE  Serial
<1>1. Promise!Make(n) BY DEF Promise!Make
<1>2. Promise!Next BY <1>1 DEF Promise!Next
<1> QED BY <1>2 DEF Serial

(* The output whose put is answered is the one that is due: the abstract step,  *)
(* and what came out after it. *)
LEMMA Delivers ==
  ASSUME PipeInv, MadeOK, TurnOK, ExactOK, pc = "emit", left > 0, Ahead = 0,
         made' = made, Delivered' = Append(Delivered, Output(DueItem))
  PROVE  /\ Serial
         /\ nextOutput \in Input /\ made[nextOutput] - left + 1 \in 1..made[nextOutput]
         /\ made[nextOutput] \in 0..Fan
         /\ \A n, i : CameOut(n, i)' <=>
              CameOut(n, i) \/ (n = nextOutput /\ i = made[nextOutput] - left + 1)
<1> DEFINE n == nextOutput  i == made[nextOutput] - left + 1
<1>1. /\ n \in Input /\ n \in Int /\ made[n] # NotYet /\ made[n] \in 0..Fan /\ Fan \in Nat
      /\ left \in Int /\ left <= made[n] /\ Running /\ Input \subseteq Int
  <2>1. n \in Input /\ made[n] # NotYet /\ left \in Int /\ Input \subseteq Int BY NumbersOK
  <2> QED BY <2>1, MadeType DEF TurnOK, Running
<1>2. i \in 1..made[n] /\ i \in 1..Fan /\ i \in Int BY <1>1
<1>3. Output(DueItem) = <<n, i>>
  <2>1. DueItem = Item(n, i) BY DEF DueItem
  <2> HIDE DEF n, i
  <2> QED BY <1>1, <1>2, <2>1, OutputOfItem
<1>4. Delivered' = Append(Delivered, <<n, i>>) BY <1>3
<1>5. \A m \in Input, j \in 1..Fan : CameOut(m, j) <=> Sent(m, j)
  BY <1>1 DEF ExactOK
<1>6. ~CameOut(n, i)
  <2>1. ~Sent(n, i) BY <1>1, <1>2 DEF Sent
  <2> QED BY <1>1, <1>2, <1>5, <2>1
<1>7. ASSUME NEW j \in 1..(i - 1) PROVE CameOut(n, j)
  <2>1. j \in 1..Fan /\ j <= made[n] - left + Ahead BY <1>1, <1>2
  <2>2. Sent(n, j) BY <1>1, <2>1 DEF Sent
  <2> QED BY <1>1, <1>5, <2>1, <2>2
<1>8. ASSUME NEW m \in Input, m < n
      PROVE  made[m] # NotYet /\ \A j \in 1..made[m] : CameOut(m, j)
  <2>1. made[m] # NotYet BY <1>8 DEF MadeOK
  <2>2. made[m] \in 0..Fan BY <2>1, MadeType
  <2>3. ASSUME NEW j \in 1..made[m] PROVE CameOut(m, j)
    <3>1. j \in 1..Fan BY <1>1, <2>2
    <3>2. Sent(m, j) BY <1>8, <2>1, <2>2 DEF Sent
    <3> QED BY <1>5, <3>1, <3>2
  <2> QED BY <2>1, <2>3
<1>9. \A m, j : CameOut(m, j) <=> <<m, j>> \in {Delivered[k] : k \in DOMAIN Delivered}
  BY DEF CameOut
<1>10. Promise!Due(n, i)
  <2> HIDE DEF n, i
  <2> QED BY <1>6, <1>7, <1>8, <1>9 DEF Promise!Due, Promise!Known
<1>11. Promise!Deliver(n, i)
  <2> HIDE DEF n, i
  <2> QED BY <1>1, <1>2, <1>4, <1>10 DEF Promise!Deliver, Promise!Known
<1>12. Serial
  <2>1. Promise!Next
    <3> HIDE DEF n, i
    <3> QED BY <1>1, <1>2, <1>11 DEF Promise!Next
  <2> QED BY <2>1 DEF Serial
<1>13. \A m, j : CameOut(m, j)' <=> CameOut(m, j) \/ (m = n /\ j = i)
  <2> HIDE DEF n, i
  <2> QED BY <1>1, <1>2, <1>4, CameOutMore DEF PipeInv, ChanInv
<1> QED BY <1>1, <1>2, <1>12, <1>13

(* Where the loops of the forwarder end. *)
LEMMA ProceedEnds ==
  ASSUME PipeInv, NEW ended \in BOOLEAN, NEW running, Proceed(ended, running)
  PROVE  /\ pc' \in {"admit", "wait", "closing"}
         /\ pc' = "closing" => ended /\ running = {} /\ end' = "drained"
         /\ pc' # "closing" => end' = end
<1>1. Cardinality({}) < Parallelism BY PipelineAssumption, FS_EmptySet
<1> QED BY <1>1 DEF Proceed, LoopHead, Stop, Goto

(* When nothing is in work and nothing is due, everything admitted has left. *)
LEMMA Complete ==
  ASSUME PipeInv, Running, pc # "handle", left = 0, pending = {}, nextOutput \notin completed
  PROVE  nextOutput = admitted + 1
<1>1. InRepair = {} /\ Leaving = {} BY DEF InRepair, Leaving
<1>2. Gone \cup completed = 1..admitted BY <1>1 DEF PipeInv, OwnInv, Parted
<1>3. nextOutput \notin Gone BY NumbersOK DEF Gone
<1>4. nextOutput \notin 1..admitted BY <1>2, <1>3
<1> QED BY <1>4, NumbersOK
----------------------------------------------------------------------------
(* The steps that call no channel.                                          *)

(* A step that moves no value and makes no output known, in which the       *)
(* forwarder may go to another place. *)
LEMMA Moves ==
  ASSUME PipeInv, OrderInv, UNCHANGED vars,
         made' = made, admitted' = admitted, nextOutput' = nextOutput, left' = left,
         inputClosed' = inputClosed, pending' \subseteq pending,
         pc # "emit" \/ left = 0,
         \A n \in Input : worker'[n] = worker[n]
                          \/ (worker[n] = "running" /\ worker'[n] = "cancelled"),
         InRepair' \subseteq InRepair,
         Running' => Running,
         end' = "drained" => end = "drained",
         \/ pc' = pc /\ completed' = completed
         \/ pc' = "emit"
         \/ ~Running'
         \/ left = 0 /\ (nextOutput \notin completed' \/ pc' \in {"sort", "handle"})
  PROVE  OrderInv' /\ Serial
<1>1. /\ Delivered' = Delivered /\ Ahead' = Ahead /\ KnownStays
      /\ received' = received
  BY Unmoved, KnownSame
<1>2. MadeOK' BY MadeStays DEF OrderInv
<1>3. TurnOK' BY <1>1, TurnStays DEF OrderInv
<1>4. SidesOK' BY NothingAsked, SidesStay DEF OrderInv
<1>5. ExactOK' BY <1>1, ExactStays DEF OrderInv
<1>6. DrainOK' BY <1>1, DrainStays DEF OrderInv
<1>7. Serial BY <1>1, Stutters
<1> QED BY <1>2, <1>3, <1>4, <1>5, <1>6, <1>7 DEF OrderInv

LEMMA StartOrder ==
  ASSUME PipeInv, OrderInv, Start
  PROVE  OrderInv' /\ Serial
<1>1. /\ pc = "created" /\ pc' = "admit" /\ UNCHANGED vars
      /\ made' = made /\ admitted' = admitted /\ nextOutput' = nextOutput /\ left' = left
      /\ inputClosed' = inputClosed /\ pending' = pending /\ worker' = worker
      /\ completed' = completed /\ end' = end
  BY DEF Start, Goto, flowVars, outVars
<1>2. Running /\ Running' /\ InRepair' = {} BY <1>1 DEF Running, InRepair
<1>3. left = 0 /\ nextOutput \notin completed
  BY <1>1, <1>2, NumbersOK DEF OrderInv, TurnOK
<1> QED BY <1>1, <1>2, <1>3, Moves

LEMMA WaitReturnsOrder ==
  ASSUME PipeInv, OrderInv, WaitReturns
  PROVE  OrderInv' /\ Serial
<1>1. /\ pc = "wait" /\ pc' = "sort" /\ UNCHANGED vars
      /\ made' = made /\ admitted' = admitted /\ nextOutput' = nextOutput /\ left' = left
      /\ inputClosed' = inputClosed /\ pending' = pending /\ worker' = worker
      /\ completed' = completed /\ end' = end
  BY DEF WaitReturns, Goto, outVars
<1>2. Running /\ Running' /\ InRepair' = {} BY <1>1 DEF Running, InRepair
<1>3. left = 0 BY <1>1, <1>2, NumbersOK DEF OrderInv, TurnOK
<1> QED BY <1>1, <1>2, <1>3, Moves

LEMMA TaskSucceededOrder ==
  ASSUME PipeInv, OrderInv, NEW n \in Input, TaskSucceeded(n)
  PROVE  OrderInv' /\ Serial
<1>1. /\ pc = "sort" /\ pc' = "sort" /\ UNCHANGED vars
      /\ made' = made /\ admitted' = admitted /\ nextOutput' = nextOutput /\ left' = left
      /\ inputClosed' = inputClosed /\ pending' = pending \ {n} /\ worker' = worker
      /\ end' = end
  BY DEF TaskSucceeded
<1>2. Running /\ Running' /\ InRepair' = {} BY <1>1 DEF Running, InRepair
<1>3. left = 0 BY <1>1, <1>2, NumbersOK DEF OrderInv, TurnOK
<1> QED BY <1>1, <1>2, <1>3, Moves

LEMMA BatchDoneOrder ==
  ASSUME PipeInv, OrderInv, BatchDone
  PROVE  OrderInv' /\ Serial
<1>1. /\ pc = "sort" /\ pc' = "emit" /\ UNCHANGED vars
      /\ made' = made /\ admitted' = admitted /\ nextOutput' = nextOutput /\ left' = left
      /\ inputClosed' = inputClosed /\ pending' = pending /\ worker' = worker
      /\ completed' = completed /\ end' = end
  BY DEF BatchDone, Goto, flowVars, outVars
<1>2. Running /\ Running' /\ InRepair' = {} BY <1>1 DEF Running, InRepair
<1> QED BY <1>1, <1>2, Moves

LEMMA AbandonOrder ==
  ASSUME PipeInv, OrderInv, Abandon
  PROVE  OrderInv' /\ Serial
<1>1. /\ pc = "closing" /\ pc' = "joining" /\ UNCHANGED vars
      /\ made' = made /\ admitted' = admitted /\ nextOutput' = nextOutput /\ left' = left
      /\ inputClosed' = inputClosed /\ pending' = pending
      /\ completed' = completed /\ end' = end
      /\ \A n \in Input : worker'[n] = worker[n]
                          \/ (worker[n] = "running" /\ worker'[n] = "cancelled")
  BY DEF Abandon, Goto, flowVars, outVars
<1>2. ~Running' /\ InRepair' = {} BY <1>1 DEF Running, InRepair
<1> QED BY <1>1, <1>2, Moves

LEMMA HandlerRaisesOrder ==
  ASSUME PipeInv, OrderInv, HandlerRaises
  PROVE  OrderInv' /\ Serial
<1>1. /\ pc = "handle" /\ pc' = "closing" /\ UNCHANGED vars
      /\ made' = made /\ admitted' = admitted /\ nextOutput' = nextOutput /\ left' = left
      /\ inputClosed' = inputClosed /\ pending' = pending /\ worker' = worker
      /\ completed' = completed /\ end' = "failed"
  BY DEF HandlerRaises, Stop, Goto, flowVars, outVars
<1>2. ~Running' /\ InRepair' = {} BY <1>1 DEF Running, InRepair
<1> QED BY <1>1, <1>2, Moves

LEMMA CancelElsewhereOrder ==
  ASSUME PipeInv, OrderInv, CancelElsewhere
  PROVE  OrderInv' /\ Serial
<1>1. /\ pc \in {"wait", "handle", "created", "joining"} /\ pc' \in {"closing", "ended"}
      /\ UNCHANGED vars
      /\ made' = made /\ admitted' = admitted /\ nextOutput' = nextOutput /\ left' = left
      /\ inputClosed' = inputClosed /\ pending' = pending /\ worker' = worker
      /\ completed' = completed /\ end' # "drained"
  BY DEF CancelElsewhere, Stop, Goto, flowVars, outVars
<1>2. ~Running' /\ InRepair' = {} BY <1>1 DEF Running, InRepair
<1> QED BY <1>1, <1>2, Moves

LEMMA TaskFailedOrder ==
  ASSUME PipeInv, OrderInv, NEW n \in Input, TaskFailed(n)
  PROVE  OrderInv' /\ Serial
<1>1. /\ pc = "sort" /\ IsFirst(n, batch) /\ worker[n] = "failed" /\ UNCHANGED vars
      /\ made' = made /\ admitted' = admitted /\ nextOutput' = nextOutput /\ left' = left
      /\ inputClosed' = inputClosed /\ pending' = pending \ {n} /\ worker' = worker
      /\ completed' = completed /\ batch' = batch
      /\ \/ pc' = "handle" /\ end' = end
         \/ pc' = "closing" /\ end' = "failed"
  BY DEF TaskFailed, Stop, Goto, outVars
<1>2. Running BY <1>1 DEF Running
<1>3. left = 0 BY <1>1, <1>2, NumbersOK DEF OrderInv, TurnOK
<1>4. CASE pc' = "closing" /\ end' = "failed"
  <2>1. ~Running' /\ InRepair' = {} BY <1>4 DEF Running, InRepair
  <2> QED BY <1>1, <1>4, <2>1, Moves
<1>5. CASE pc' = "handle" /\ end' = end
  <2>1. /\ Delivered' = Delivered /\ Ahead' = Ahead /\ KnownStays /\ received' = received
    BY <1>1, Unmoved, KnownSame
  <2>2. n \in pending /\ {m \in batch : IsFirst(m, batch)} = {n}
    <3>1. batch \subseteq Int /\ batch \subseteq pending
      BY <1>1 DEF PipeInv, OwnInv, PipeTypeOK, WorkOK
    <3> QED BY <1>1, <3>1, OneFirst
  <2>3. InRepair' = {n} /\ made[n] = NotYet
    <3>1. InRepair' = {n} BY <1>1, <1>5, <2>2 DEF InRepair, IsFirst
    <3> QED BY <1>1, <2>2, <3>1 DEF OrderInv, MadeOK
  <2>4. MadeOK' BY <1>1, <2>3 DEF OrderInv, MadeOK
  <2>5. TurnOK' BY <1>1, <1>3, <1>5, <2>1, TurnStays DEF OrderInv
  <2>6. SidesOK' BY <1>1, <1>3, NothingAsked, SidesStay DEF OrderInv
  <2>7. ExactOK' BY <1>1, <1>2, <2>1, ExactStays DEF OrderInv
  <2>8. DrainOK' BY <1>2, <1>5, NotEnded DEF OrderInv, DrainOK
  <2> QED BY <1>1, <2>1, <2>4, <2>5, <2>6, <2>7, <2>8, Stutters DEF OrderInv
<1> QED BY <1>1, <1>4, <1>5

(* The outputs of one more input are known. *)
LEMMA MadeMore ==
  ASSUME PipeInv, OrderInv, NEW n \in Input, NEW k \in 0..Fan, made[n] = NotYet,
         made' = [made EXCEPT ![n] = k]
  PROVE  /\ KnownStays /\ made'[n] # NotYet
         /\ \A m \in Input : m # n => made'[m] = made[m]
<1>1. made \in [Input -> 0..Fan \cup {NotYet}] BY DEF PipeInv, OwnInv, PipeTypeOK
<1>2. k # NotYet BY PipelineAssumption
<1> QED BY <1>1, <1>2 DEF KnownStays

LEMMA HandlerReturnsOrder ==
  ASSUME PipeInv, OrderInv, NEW n \in Input, HandlerReturns(n)
  PROVE  OrderInv' /\ Serial
<1>1. PICK k \in Yields : made' = [made EXCEPT ![n] = k]
  BY DEF HandlerReturns
<1>2. /\ pc = "handle" /\ pc' = "sort" /\ IsFirst(n, batch) /\ UNCHANGED vars
      /\ admitted' = admitted /\ nextOutput' = nextOutput /\ left' = left
      /\ inputClosed' = inputClosed /\ pending' = pending /\ worker' = worker /\ end' = end
  BY DEF HandlerReturns, Goto
<1>3. Running /\ Running' /\ InRepair' = {} BY <1>2 DEF Running, InRepair
<1>4. left = 0 BY <1>2, <1>3, NumbersOK DEF OrderInv, TurnOK
<1>5. n \in InRepair
  <2>1. n \in batch BY <1>2 DEF IsFirst
  <2> QED BY <1>2, <2>1 DEF InRepair
<1>6. /\ made[n] = NotYet /\ worker[n] = "failed" /\ n \notin pending
  BY <1>3, <1>5 DEF OrderInv, MadeOK, PipeInv, OwnInv, Parted
<1>7. k \in 0..Fan BY PipelineAssumption
<1>8. /\ KnownStays /\ made'[n] # NotYet /\ \A m \in Input : m # n => made'[m] = made[m]
  BY <1>1, <1>6, <1>7, MadeMore
<1>9. /\ Delivered' = Delivered /\ Ahead' = Ahead /\ received' = received
  BY <1>2, Unmoved
<1>10. MadeOK'
  <2>1. pending \subseteq Input BY NumbersOK
  <2>2. ~(n > admitted) BY <1>6 DEF OrderInv, MadeOK
  <2> QED BY <1>2, <1>3, <1>6, <1>8, <2>1, <2>2 DEF OrderInv, MadeOK
<1>11. TurnOK' BY <1>2, <1>4, <1>8, TurnStays DEF OrderInv
<1>12. SidesOK' BY <1>2, <1>4, NothingAsked, SidesStay DEF OrderInv
<1>13. ExactOK' BY <1>2, <1>3, <1>8, <1>9, ExactStays DEF OrderInv
<1>14. DrainOK' BY <1>2, <1>3, NotEnded DEF OrderInv, DrainOK
<1>15. Serial BY <1>1, <1>6, <1>7, <1>9, Makes
<1> QED BY <1>10, <1>11, <1>12, <1>13, <1>14, <1>15 DEF OrderInv

LEMMA WorkerEndsOrder ==
  ASSUME PipeInv, OrderInv, NEW n \in Input, WorkerEnds(n)
  PROVE  OrderInv' /\ Serial
<1>1. /\ worker[n] = "running" /\ UNCHANGED vars
      /\ pc' = pc /\ end' = end /\ inputClosed' = inputClosed /\ admitted' = admitted
      /\ pending' = pending /\ batch' = batch /\ completed' = completed
      /\ nextOutput' = nextOutput /\ left' = left
  BY DEF WorkerEnds, flowVars, outVars
<1>2. /\ Delivered' = Delivered /\ Ahead' = Ahead /\ received' = received
  BY <1>1, Unmoved
<1>3. /\ Running' = Running /\ InRepair' = InRepair
  BY <1>1 DEF Running, InRepair, IsFirst
<1>4. made[n] = NotYet /\ n \notin InRepair /\ ~(n > admitted)
  BY <1>1 DEF OrderInv, MadeOK
<1>5. /\ worker \in [Input -> Work] /\ pending \subseteq Input /\ InRepair \subseteq Input
  <2>1. batch \subseteq Input BY NumbersOK DEF PipeInv, OwnInv, PipeTypeOK
  <2> QED BY <2>1, NumbersOK DEF InRepair, PipeInv, OwnInv, PipeTypeOK
<1>6. \A m \in Input : m # n => worker'[m] = worker[m]
  BY <1>5 DEF WorkerEnds
<1>7. KnownStays /\ MadeOK' /\ Serial
  <2>1. CASE worker' = [worker EXCEPT ![n] = "failed"] /\ made' = made
    <3>1. worker'[n] = "failed" BY <1>5, <2>1
    <3>2. MadeOK' BY <1>1, <1>3, <1>4, <1>5, <1>6, <2>1, <3>1 DEF OrderInv, MadeOK
    <3> QED BY <1>2, <2>1, <3>2, KnownSame, Stutters
  <2>2. ASSUME NEW k \in Yields, worker' = [worker EXCEPT ![n] = "ok"],
               made' = [made EXCEPT ![n] = k]
        PROVE  KnownStays /\ MadeOK' /\ Serial
    <3>1. worker'[n] = "ok" /\ k \in 0..Fan BY <1>5, <2>2, PipelineAssumption
    <3>2. /\ KnownStays /\ made'[n] # NotYet
          /\ \A m \in Input : m # n => made'[m] = made[m]
      BY <1>4, <2>2, <3>1, MadeMore
    <3>3. MadeOK' BY <1>1, <1>3, <1>4, <1>5, <1>6, <3>1, <3>2 DEF OrderInv, MadeOK
    <3> QED BY <1>2, <1>4, <2>2, <3>1, <3>2, <3>3, Makes
  <2> QED BY <2>1, <2>2 DEF WorkerEnds
<1>8. TurnOK' BY <1>1, <1>7, TurnStays DEF OrderInv
<1>9. SidesOK'
  <2>1. CASE left > 0 BY <1>1, <1>7, <2>1, DueStays, SidesStay DEF OrderInv
  <2>2. CASE ~(left > 0)
    <3>1. left = 0 BY <2>2, NumbersOK
    <3> QED BY <1>1, <3>1, NothingAsked, SidesStay DEF OrderInv
  <2> QED BY <2>1, <2>2
<1>10. ExactOK' BY <1>1, <1>2, <1>3, <1>7, ExactStays DEF OrderInv
<1>11. DrainOK' BY <1>1, <1>2, <1>3, DrainStays DEF OrderInv
<1> QED BY <1>7, <1>8, <1>9, <1>10, <1>11 DEF OrderInv

LEMMA NextResultOrder ==
  ASSUME PipeInv, OrderInv, NEW n \in Input, NextResult(n)
  PROVE  OrderInv' /\ Serial
<1>1. /\ pc = "emit" /\ pc' = pc /\ left = 0 /\ n = nextOutput /\ n \in completed
      /\ left' = made[n] /\ nextOutput' = IF made[n] = 0 THEN n + 1 ELSE n
      /\ UNCHANGED vars /\ worker' = worker /\ made' = made /\ end' = end
      /\ inputClosed' = inputClosed /\ admitted' = admitted /\ pending' = pending
  BY DEF NextResult, IsNext, flowVars
<1>2. /\ Delivered' = Delivered /\ Ahead' = Ahead /\ KnownStays /\ received' = received
      /\ future' = future
  BY <1>1, Unmoved, KnownSame
<1>3. /\ made[n] # NotYet /\ made[n] \in 0..Fan /\ made[n] \in Int /\ Fan \in Nat
      /\ Input \subseteq Int /\ n \in Int
  <2>1. made[n] # NotYet BY <1>1 DEF PipeInv, OwnInv, WorkOK
  <2> QED BY <2>1, MadeType, NumbersOK
<1>4. Running /\ Running' /\ InRepair' = {} BY <1>1 DEF Running, InRepair
<1>5. MadeOK' BY <1>1, <1>3, <1>4, MadeStays DEF OrderInv
<1>6. TurnOK'
  <2>1. left' > 0 => nextOutput' = n BY <1>1, <1>3
  <2>2. left' > 0 => left' <= made'[nextOutput'] BY <1>1, <1>3, <2>1
  <2> QED BY <1>1, <2>2 DEF TurnOK
<1>7. SidesOK' BY <1>1, NothingAsked, SidesStay DEF OrderInv
<1>8. Ahead = 0
  <2>1. Idle(Forwarder) BY <1>1 DEF PipeInv, ChanInv, Asleep
  <2> QED BY <2>1 DEF Ahead, Idle
<1>9. ASSUME NEW m \in Input, NEW i \in 1..Fan PROVE Sent(m, i)' <=> Sent(m, i)
  <2>1. m \in Int BY <1>3
  <2>2. CASE made[n] = 0
    <3>1. nextOutput' = n + 1 /\ left' = 0 BY <1>1, <2>2
    <3> QED BY <1>1, <2>1, <1>3, <2>2, <3>1 DEF Sent
  <2>3. CASE made[n] # 0
    <3>1. nextOutput' = n /\ left' = made[n] /\ Ahead' = 0 BY <1>1, <1>2, <1>8, <2>3
    <3> QED BY <1>1, <2>1, <1>3, <2>3, <3>1 DEF Sent
  <2> QED BY <2>2, <2>3
<1>10. ExactOK'
  <2>1. \A m \in Input, i \in 1..Fan : CameOut(m, i)' <=> Sent(m, i)'
    BY <1>2, <1>4, <1>9, CameOutStays DEF OrderInv, ExactOK
  <2>2. ASSUME NEW m \in Input, NEW i \in 1..Fan, m < nextOutput', i <= made'[m]
        PROVE  CameOut(m, i)'
    <3>1. made'[m] # NotYet BY <1>5, <2>2 DEF MadeOK
    <3>2. Sent(m, i)' BY <2>2, <3>1 DEF Sent
    <3> QED BY <2>1, <3>2
  <2> QED BY <2>1, <2>2 DEF ExactOK
<1>11. DrainOK' BY <1>1, <1>4, NotEnded DEF OrderInv, DrainOK
<1> QED BY <1>1, <1>2, <1>5, <1>6, <1>7, <1>10, <1>11, Stutters DEF OrderInv

LEMMA NothingDueOrder ==
  ASSUME PipeInv, OrderInv, NothingDue
  PROVE  OrderInv' /\ Serial
<1>1. /\ pc = "emit" /\ left = 0 /\ nextOutput \notin completed
      /\ Proceed(inputClosed, pending)
      /\ UNCHANGED vars /\ worker' = worker /\ made' = made
      /\ inputClosed' = inputClosed /\ admitted' = admitted /\ pending' = pending
      /\ completed' = completed /\ nextOutput' = nextOutput /\ left' = left
  BY DEF NothingDue, IsNext, flowVars, outVars
<1>2. /\ pc' \in {"admit", "wait", "closing"}
      /\ pc' = "closing" => inputClosed /\ pending = {} /\ end' = "drained"
      /\ pc' # "closing" => end' = end
  <2>1. inputClosed \in BOOLEAN BY DEF PipeInv, OwnInv, PipeTypeOK
  <2> QED BY <1>1, <2>1, ProceedEnds
<1>3. Running /\ InRepair' = {} /\ InRepair = {} BY <1>1, <1>2 DEF Running, InRepair
<1>4. CASE pc' # "closing"
  BY <1>1, <1>2, <1>3, <1>4, Moves
<1>5. CASE pc' = "closing"
  <2>1. /\ Delivered' = Delivered /\ Ahead' = Ahead /\ KnownStays /\ received' = received
    BY <1>1, Unmoved, KnownSame
  <2>2. ~Running' BY <1>5 DEF Running
  <2>3. MadeOK' BY <1>1, <1>3, MadeStays DEF OrderInv
  <2>4. TurnOK' BY <1>1, <2>1, <2>2, TurnStays DEF OrderInv
  <2>5. SidesOK' BY <1>1, NothingAsked, SidesStay DEF OrderInv
  <2>6. ExactOK' BY <1>1, <2>1, <2>2, ExactStays DEF OrderInv
  <2>7. DrainOK'
    <3>1. nextOutput = admitted + 1 BY <1>1, <1>2, <1>3, <1>5, Complete
    <3>2. Len(received[Source]) = admitted
      <4>1. Arrived = 0 BY <1>1 DEF Arrived
      <4> QED BY <1>3, <4>1, NumbersOK DEF PipeInv, Counted
    <3> QED BY <1>1, <1>2, <1>5, <2>1, <2>2, <3>1, <3>2 DEF DrainOK
  <2> QED BY <1>1, <2>1, <2>3, <2>4, <2>5, <2>6, <2>7, Stutters DEF OrderInv
<1> QED BY <1>4, <1>5
----------------------------------------------------------------------------
(* The steps that call a channel.                                           *)

(* The channels when none is closed. *)
LEMMA SidesMove ==
  ASSUME SidesOK, kind' = kind, closed' = closed, Asked', Hungry',
         closed[Source] => puts'[Source] \subseteq puts[Source],
         inputClosed' \/ future'[Forwarder].is = "nil" =>
           closed[Source] /\ buffer'[Source] = <<>>
  PROVE  SidesOK'
<1>1. Typed' BY DEF SidesOK, Typed
<1>2. Shut' BY DEF SidesOK, Shut
<1> QED BY <1>1, <1>2 DEF SidesOK

LEMMA HungryStays ==
  ASSUME Hungry, takes'[Destination] \subseteq takes[Destination],
         buffer'[Destination] = buffer[Destination],
         future'[Consumer].is = "pending" => future[Consumer].is = "pending"
  PROVE  Hungry'
BY DEF Hungry

(* The steps of the other tasks, and those in which the forwarder falls     *)
(* asleep or is cancelled asleep. *)
LEMMA OthersOrder ==
  ASSUME PipeInv, OrderInv, UNCHANGED ownVars, SidesOK', Delivered' = Delivered,
         Ahead' = Ahead,
         end = "drained" => Len(received'[Source]) = Len(received[Source])
  PROVE  OrderInv' /\ Serial
<1>1. /\ pc' = pc /\ worker' = worker /\ made' = made /\ end' = end
      /\ inputClosed' = inputClosed /\ admitted' = admitted /\ pending' = pending
      /\ batch' = batch /\ completed' = completed /\ nextOutput' = nextOutput /\ left' = left
  BY DEF ownVars, flowVars, outVars
<1>2. /\ KnownStays /\ Running' = Running /\ InRepair' = InRepair
  BY <1>1, KnownSame DEF Running, InRepair, IsFirst
<1>3. MadeOK' BY <1>1, <1>2, MadeStays DEF OrderInv
<1>4. TurnOK' BY <1>1, <1>2, TurnStays DEF OrderInv
<1>5. ExactOK' BY <1>1, <1>2, ExactStays DEF OrderInv
<1>6. DrainOK' BY <1>1, <1>2, DrainStays DEF OrderInv
<1> QED BY <1>1, <1>3, <1>4, <1>5, <1>6, Stutters DEF OrderInv

(* A value was taken from the source. *)
LEMMA AdmitOrder ==
  ASSUME PipeInv, OrderInv, PipeInv', pc = "admit", Admit, Delivered' = Delivered,
         Ahead' = Ahead
  PROVE  /\ MadeOK' /\ TurnOK' /\ ExactOK' /\ DrainOK' /\ Serial
         /\ inputClosed' = inputClosed
<1> DEFINE n == admitted + 1
<1>1. /\ admitted' = n /\ inputClosed' = inputClosed /\ batch' = batch
      /\ nextOutput' = nextOutput /\ left' = left
  BY DEF Admit
<1>2. Running /\ left = 0 /\ nextOutput \notin completed /\ InRepair = {}
  BY NumbersOK DEF Running, InRepair, OrderInv, TurnOK
<1>3. n \in Input /\ Input \subseteq Int /\ admitted \in Nat
  BY <1>1, PipelineAssumption, NumbersOK DEF PipeInv, OwnInv, PipeTypeOK, Input
<1>4. made[n] = NotYet /\ worker[n] = "none"
  BY <1>3 DEF OrderInv, MadeOK
<1>5. \A m \in Input : m > n => made[m] = NotYet /\ worker[m] = "none"
  BY <1>3 DEF OrderInv, MadeOK
<1>6. n \notin pending /\ pending \subseteq Input
  <2>1. n \notin 1..admitted BY <1>3
  <2> QED BY <2>1, NumbersOK
<1>7. CASE program.pipe
  <2>1. /\ completed' = completed \cup {n} /\ made' = [made EXCEPT ![n] = 1]
        /\ pc' = "emit" /\ pending' = pending /\ worker' = worker /\ end' = end
    BY <1>7 DEF Admit, Goto
  <2>2. 1 \in 0..Fan BY PipelineAssumption
  <2>3. /\ KnownStays /\ made'[n] # NotYet /\ \A m \in Input : m # n => made'[m] = made[m]
    <3> HIDE DEF n
    <3> QED BY <1>3, <1>4, <2>1, <2>2, MadeMore
  <2>4. Running' /\ InRepair' = {} BY <2>1 DEF Running, InRepair
  <2>5. MadeOK'
    <3>1. \A m \in Input : m > n => m # n BY <1>3
    <3> HIDE DEF n
    <3> QED BY <1>1, <1>3, <1>4, <1>5, <1>6, <2>1, <2>3, <2>4, <3>1 DEF OrderInv, MadeOK
  <2>6. TurnOK' BY <1>1, <2>1, <2>3, TurnStays DEF OrderInv
  <2>7. ExactOK' BY <1>1, <1>2, <2>3, ExactStays DEF OrderInv
  <2>8. DrainOK' BY <1>2, <2>1, NotEnded DEF OrderInv, DrainOK
  <2>9. Serial
    <3> HIDE DEF n
    <3> QED BY <1>3, <1>4, <2>1, <2>2, Makes
  <2> QED BY <1>1, <2>5, <2>6, <2>7, <2>8, <2>9
<1>8. CASE ~program.pipe
  <2>1. /\ pending' = pending \cup {n} /\ worker' = [worker EXCEPT ![n] = "running"]
        /\ Proceed(inputClosed, pending') /\ completed' = completed /\ made' = made
    BY <1>8 DEF Admit
  <2>2. /\ pc' \in {"admit", "wait"} /\ end' = end
    <3>1. inputClosed \in BOOLEAN BY DEF PipeInv, OwnInv, PipeTypeOK
    <3>2. pending' # {} BY <2>1
    <3> QED BY <2>1, <3>1, <3>2, ProceedEnds
  <2>3. /\ worker'[n] = "running" /\ \A m \in Input : m # n => worker'[m] = worker[m]
    <3>1. worker \in [Input -> Work] BY DEF PipeInv, OwnInv, PipeTypeOK
    <3> HIDE DEF n
    <3> QED BY <1>3, <2>1, <3>1
  <2>4. Running' /\ InRepair' = {} /\ KnownStays BY <2>1, <2>2, KnownSame DEF Running, InRepair
  <2>5. MadeOK'
    <3>1. \A m \in Input : m > n => m # n BY <1>3
    <3> HIDE DEF n
    <3> QED BY <1>1, <1>3, <1>4, <1>5, <1>6, <2>1, <2>3, <2>4, <3>1 DEF OrderInv, MadeOK
  <2>6. TurnOK' BY <1>1, <1>2, <2>1, <2>4, TurnStays DEF OrderInv
  <2>7. ExactOK' BY <1>1, <1>2, <2>4, ExactStays DEF OrderInv
  <2>8. DrainOK' BY <1>2, <2>2, NotEnded DEF OrderInv, DrainOK
  <2> QED BY <1>1, <2>1, <2>5, <2>6, <2>7, <2>8, Stutters
<1> QED BY <1>7, <1>8

(* The source is at its end. *)
LEMMA NoMoreInputOrder ==
  ASSUME PipeInv, OrderInv, pc = "admit", NoMoreInput, Delivered' = Delivered,
         Ahead' = Ahead, Arrived = 0, Len(received'[Source]) = Len(received[Source])
  PROVE  MadeOK' /\ TurnOK' /\ ExactOK' /\ DrainOK' /\ Serial
<1>1. /\ Proceed(TRUE, pending) /\ inputClosed' = TRUE /\ worker' = worker /\ made' = made
      /\ admitted' = admitted /\ pending' = pending
      /\ completed' = completed /\ nextOutput' = nextOutput /\ left' = left
  BY DEF NoMoreInput, outVars
<1>2. Running /\ left = 0 /\ nextOutput \notin completed
  BY NumbersOK DEF Running, OrderInv, TurnOK
<1>3. /\ pc' \in {"admit", "wait", "closing"}
      /\ pc' = "closing" => pending = {} /\ end' = "drained"
      /\ pc' # "closing" => end' = end
  <2>1. TRUE \in BOOLEAN OBVIOUS
  <2> QED BY <1>1, <2>1, ProceedEnds
<1>4. KnownStays /\ InRepair' = {} BY <1>1, <1>3, KnownSame DEF InRepair
<1>5. MadeOK' BY <1>1, <1>4, MadeStays DEF OrderInv
<1>6. TurnOK' BY <1>1, <1>2, <1>4, TurnStays DEF OrderInv
<1>7. ExactOK' BY <1>1, <1>2, <1>4, ExactStays DEF OrderInv
<1>8. DrainOK'
  <2>1. CASE pc' # "closing" BY <1>2, <1>3, <2>1, NotEnded DEF OrderInv, DrainOK
  <2>2. CASE pc' = "closing"
    <3>1. nextOutput = admitted + 1 BY <1>2, <1>3, <2>2, Complete
    <3>2. Len(received[Source]) = admitted
      BY <1>2, NumbersOK DEF PipeInv, Counted
    <3>3. ~Running' BY <2>2 DEF Running
    <3> QED BY <1>1, <3>1, <3>2, <3>3 DEF DrainOK
  <2> QED BY <2>1, <2>2
<1> QED BY <1>1, <1>5, <1>6, <1>7, <1>8, Stutters

(* The forwarder takes a value, or learns that there is none. *)
LEMMA TakeInputOrder ==
  ASSUME PipeInv, OrderInv, PipeInv', TakeInput
  PROVE  OrderInv' /\ Serial
<1>1. /\ pc = "admit" /\ TakeNow(Forwarder, Source, admitted + 1)
      /\ AtEnd(Source) => NoMoreInput
      /\ ~AtEnd(Source) => Admit
  BY DEF TakeInput
<1>2. /\ ChanTypeOK /\ admitted + 1 \in Int /\ ~inputClosed
      /\ future \in [Task -> AnyAnswer]
  BY <1>1, NumbersOK DEF PipeInv, ChanInv, ChanTypeOK, OwnInv, WorkOK
<1>3. /\ NoNewWaiters
      /\ \A d \in Chan : d # Source => buffer'[d] = buffer[d]
      /\ \A d \in Chan : d # Source => received'[d] = received[d]
      /\ AtEnd(Source) => received' = received /\ buffer' = buffer
      /\ \/ future' = future
         \/ \E w \in puts[Source] : future' = [future EXCEPT ![w.task] = Answer("true")]
  BY <1>1, <1>2, TasksAndChans, TakeEffect
<1>4. /\ Idle(Forwarder) /\ kind' = kind /\ closed' = closed
  BY <1>1 DEF TakeNow
<1>5. /\ future'[Forwarder] = future[Forwarder] /\ future'[Consumer] = future[Consumer]
  <2>1. \A w \in puts[Source] : w.task = Producer BY DEF PipeInv, ChanInv, Sides
  <2> QED BY <1>2, <1>3, <2>1, TasksAndChans
<1>6. Delivered' = Delivered BY <1>3, TasksAndChans, DeliveredStays
<1>7. Ahead' = Ahead /\ Arrived = 0 BY <1>4, <1>5 DEF Ahead, Arrived, Idle
<1>8. Asked' /\ Hungry'
  <2>1. puts[Destination] = {} BY <1>1, NothingAsked
  <2>2. puts'[Destination] = {} BY <1>3, <2>1, TasksAndChans DEF NoNewWaiters
  <2>3. Hungry' BY <1>3, <1>5, TasksAndChans, HungryStays DEF NoNewWaiters, OrderInv, SidesOK
  <2> QED BY <2>2, <2>3 DEF Asked
<1>9. future'[Forwarder].is # "nil" BY <1>4, <1>5 DEF Idle
<1>10. puts'[Source] \subseteq puts[Source] BY <1>3, TasksAndChans DEF NoNewWaiters
<1>11. CASE AtEnd(Source)
  <2>1. closed[Source] /\ buffer'[Source] = <<>> /\ received' = received
    BY <1>3, <1>11 DEF AtEnd
  <2>2. MadeOK' /\ TurnOK' /\ ExactOK' /\ DrainOK' /\ Serial
    BY <1>1, <1>6, <1>7, <1>11, <2>1, NoMoreInputOrder
  <2>3. SidesOK' BY <1>4, <1>8, <1>10, <2>1, SidesMove DEF OrderInv
  <2> QED BY <2>2, <2>3 DEF OrderInv
<1>12. CASE ~AtEnd(Source)
  <2>1. /\ MadeOK' /\ TurnOK' /\ ExactOK' /\ DrainOK' /\ Serial
        /\ inputClosed' = inputClosed
    BY <1>1, <1>6, <1>7, <1>12, AdmitOrder
  <2>2. SidesOK' BY <1>2, <1>4, <1>8, <1>9, <1>10, <2>1, SidesMove DEF OrderInv
  <2> QED BY <2>1, <2>2 DEF OrderInv
<1> QED BY <1>11, <1>12

LEMMA AwaitInputOrder ==
  ASSUME PipeInv, OrderInv, AwaitInput
  PROVE  OrderInv' /\ Serial
<1>1. /\ pc = "admit" /\ UNCHANGED ownVars
      /\ Sleep(Forwarder, [chan |-> Source, put |-> FALSE], admitted + 1)
  BY DEF AwaitInput, TakeFrom
<1>2. ChanTypeOK /\ admitted + 1 \in Int /\ FALSE \in BOOLEAN
  BY NumbersOK DEF PipeInv, ChanInv
<1>3. /\ buffer' = buffer /\ received' = received /\ Idle(Forwarder)
      /\ future' = [future EXCEPT ![Forwarder] = Answer("pending")]
      /\ \A d \in Chan :
           /\ puts'[d] \subseteq puts[d]
           /\ d # Source => takes'[d] \subseteq takes[d]
  BY <1>1, <1>2, TasksAndChans, SleepEffect
<1>4. kind' = kind /\ closed' = closed BY <1>1 DEF Sleep
<1>5. /\ future'[Forwarder].is = "pending" /\ future'[Consumer] = future[Consumer]
      /\ inputClosed' = inputClosed
  BY <1>1, <1>2, <1>3, TasksAndChans DEF ChanTypeOK, Answer, ownVars, flowVars
<1>6. Delivered' = Delivered /\ Ahead' = Ahead
  BY <1>3, <1>5, DeliveredStays DEF Ahead, Idle
<1>7. puts'[Destination] = {} BY <1>1, <1>3, NothingAsked, TasksAndChans
<1>8. Asked' BY <1>7 DEF Asked
<1>9. Hungry' BY <1>3, <1>5, TasksAndChans, HungryStays DEF OrderInv, SidesOK
<1>10. SidesOK'
  BY <1>3, <1>4, <1>5, <1>8, <1>9, TasksAndChans, SidesMove DEF OrderInv, SidesOK, Shut
<1> QED BY <1>1, <1>3, <1>6, <1>10, OthersOrder

(* Somebody goes on. *)
LEMMA ResumeMoves ==
  ASSUME PipeInv, OrderInv, NEW t \in Task, Resume(t)
  PROVE  /\ kind' = kind /\ closed' = closed /\ buffer' = buffer /\ received' = received
         /\ NoNewWaiters /\ Done(t) /\ Delivered' = Delivered /\ Hungry'
         /\ future' = [future EXCEPT ![t] = Answer("none")]
         /\ future'[t].is = "none"
         /\ \A u \in Task : u # t => future'[u] = future[u]
<1>1. ChanTypeOK BY DEF PipeInv, ChanInv
<1>2. /\ NoNewWaiters /\ buffer' = buffer /\ received' = received /\ Done(t)
      /\ future' = [future EXCEPT ![t] = Answer("none")]
  BY <1>1, ResumeEffect
<1>3. /\ future'[t].is = "none" /\ \A u \in Task : u # t => future'[u] = future[u]
  BY <1>1, <1>2 DEF ChanTypeOK, Answer
<1>4. future'[Consumer].is = "pending" => future[Consumer].is = "pending"
  BY <1>3, TasksAndChans
<1>5. Hungry'
  BY <1>2, <1>4, TasksAndChans, HungryStays DEF NoNewWaiters, OrderInv, SidesOK
<1>6. kind' = kind /\ closed' = closed BY DEF Resume
<1> QED BY <1>2, <1>3, <1>5, <1>6, DeliveredStays

(* The forwarder goes on: nobody waits in its place. *)
LEMMA ForwarderMoves ==
  ASSUME PipeInv, OrderInv, PipeInv', Resume(Forwarder),
         inputClosed' => closed[Source] /\ buffer[Source] = <<>>
  PROVE  /\ SidesOK' /\ Delivered' = Delivered /\ received' = received /\ Ahead' = 0
         /\ ~Idle(Forwarder) /\ future[Forwarder].is # "pending"
<1>1. /\ kind' = kind /\ closed' = closed /\ buffer' = buffer /\ received' = received
      /\ NoNewWaiters /\ Done(Forwarder) /\ Delivered' = Delivered /\ Hungry'
      /\ future'[Forwarder].is = "none"
  BY TasksAndChans, ResumeMoves
<1>2. puts'[Destination] = {} BY <1>1 DEF PipeInv, ChanInv, Asleep, Idle
<1>3. Asked' BY <1>2 DEF Asked
<1>4. SidesOK'
  BY <1>1, <1>3, TasksAndChans, SidesMove DEF NoNewWaiters, OrderInv
<1> QED BY <1>1, <1>4 DEF Ahead, Idle, Done

LEMMA InputArrivesOrder ==
  ASSUME PipeInv, OrderInv, PipeInv', InputArrives
  PROVE  OrderInv' /\ Serial
<1>1. /\ pc = "admit" /\ Resume(Forwarder) /\ ~Raises(Forwarder)
      /\ future[Forwarder].is = "nil" => NoMoreInput
      /\ future[Forwarder].is # "nil" => Admit
  BY DEF InputArrives
<1>2. ~inputClosed BY <1>1 DEF PipeInv, OwnInv, WorkOK
<1>3. ~Idle(Forwarder)
  <2>1. Done(Forwarder) BY <1>1, TasksAndChans, ResumeMoves
  <2> QED BY <2>1 DEF Done, Idle
<1>4. Ahead = 0
  BY <1>1, <1>3 DEF PipeInv, ChanInv, Asleep, Ahead
<1>5. CASE future[Forwarder].is = "nil"
  <2>1. closed[Source] /\ buffer[Source] = <<>>
    BY <1>5 DEF OrderInv, SidesOK, Shut
  <2>2. SidesOK' /\ Delivered' = Delivered /\ received' = received /\ Ahead' = Ahead
    BY <1>1, <1>4, <2>1, ForwarderMoves
  <2>3. Arrived = 0 BY <1>5 DEF Arrived
  <2>4. MadeOK' /\ TurnOK' /\ ExactOK' /\ DrainOK' /\ Serial
    BY <1>1, <1>5, <2>2, <2>3, NoMoreInputOrder
  <2> QED BY <2>2, <2>4 DEF OrderInv
<1>6. CASE future[Forwarder].is # "nil"
  <2>1. inputClosed' = inputClosed BY <1>1, <1>6 DEF Admit
  <2>2. SidesOK' /\ Delivered' = Delivered /\ Ahead' = Ahead
    BY <1>1, <1>2, <1>4, <2>1, ForwarderMoves
  <2>3. MadeOK' /\ TurnOK' /\ ExactOK' /\ DrainOK' /\ Serial
    BY <1>1, <1>6, <2>2, AdmitOrder
  <2> QED BY <2>2, <2>3 DEF OrderInv
<1> QED BY <1>5, <1>6

LEMMA CallRaisesOrder ==
  ASSUME PipeInv, OrderInv, PipeInv', CallRaises
  PROVE  OrderInv' /\ Serial
<1>1. /\ Resume(Forwarder) /\ pc' = "closing" /\ end' = "cancelled"
      /\ worker' = worker /\ made' = made
      /\ inputClosed' = inputClosed /\ admitted' = admitted /\ pending' = pending
      /\ completed' = completed /\ nextOutput' = nextOutput /\ left' = left
  BY DEF CallRaises, Stop, Goto, flowVars, outVars
<1>2. SidesOK' /\ Delivered' = Delivered
  BY <1>1, ForwarderMoves DEF OrderInv, SidesOK, Shut
<1>3. KnownStays /\ ~Running' /\ InRepair' = {}
  BY <1>1, KnownSame DEF Running, InRepair
<1>4. MadeOK' BY <1>1, <1>3, MadeStays DEF OrderInv
<1>5. TurnOK' BY <1>1, <1>3, TurnStays DEF OrderInv
<1>6. ExactOK' BY <1>1, <1>2, <1>3, ExactStays DEF OrderInv
<1>7. DrainOK' BY <1>1 DEF DrainOK
<1> QED BY <1>1, <1>2, <1>4, <1>5, <1>6, <1>7, Stutters DEF OrderInv

(* One more output has been put. *)
LEMMA SentMore ==
  ASSUME PipeInv, MadeOK, TurnOK, left > 0, PutDone, made' = made, Ahead' = 0,
         NEW m \in Input, NEW i \in 1..Fan
  PROVE  Sent(m, i)' <=>
           \/ made[m] # NotYet /\ m < nextOutput /\ i <= made[m]
           \/ m = nextOutput /\ i <= made[nextOutput] - left + 1
<1>1. /\ left' = left - 1
      /\ nextOutput' = IF left = 1 THEN nextOutput + 1 ELSE nextOutput
  BY DEF PutDone
<1>2. /\ nextOutput \in Input /\ made[nextOutput] # NotYet /\ left \in Int
      /\ nextOutput \in Int /\ m \in Int /\ Fan \in Nat
      /\ made[nextOutput] \in 0..Fan /\ left <= made[nextOutput]
      /\ made[m] # NotYet => made[m] \in 0..Fan
  <2>1. nextOutput \in Input /\ made[nextOutput] # NotYet /\ left \in Int /\ Input \subseteq Int
    BY NumbersOK
  <2> QED BY <2>1, MadeType DEF TurnOK
<1>3. CASE left = 1
  <2>1. left' = 0 /\ nextOutput' = nextOutput + 1 BY <1>1, <1>3
  <2>2. Sent(m, i)' <=> made[m] # NotYet /\ m < nextOutput + 1 /\ i <= made[m]
    BY <2>1 DEF Sent
  <2>3. m < nextOutput + 1 <=> m < nextOutput \/ m = nextOutput BY <1>2
  <2>4. i <= made[nextOutput] <=> i <= made[nextOutput] - left + 1 BY <1>2, <1>3
  <2> QED BY <1>2, <2>2, <2>3, <2>4
<1>4. CASE left # 1
  <2>1. left' = left - 1 /\ left' > 0 /\ nextOutput' = nextOutput BY <1>1, <1>2, <1>4
  <2>2. Sent(m, i)' <=> /\ made[m] # NotYet
                        /\ \/ m < nextOutput /\ i <= made[m]
                           \/ m = nextOutput /\ i <= made[m] - (left - 1) + 0
    BY <2>1 DEF Sent
  <2>3. i <= made[nextOutput] - (left - 1) + 0 <=> i <= made[nextOutput] - left + 1
    BY <1>2
  <2> QED BY <1>2, <2>2, <2>3
<1> QED BY <1>3, <1>4

LEMMA PutDoneOrder ==
  ASSUME PipeInv, OrderInv, pc = "emit", left > 0, PutDone, made' = made, Ahead' = 0,
         UNCHANGED <<flowVars, worker>>,
         \A m \in Input, i \in 1..Fan :
           CameOut(m, i)' <=>
             \/ made[m] # NotYet /\ m < nextOutput /\ i <= made[m]
             \/ m = nextOutput /\ i <= made[nextOutput] - left + 1
  PROVE  MadeOK' /\ TurnOK' /\ ExactOK' /\ DrainOK'
<1>1. /\ left' = left - 1 /\ pc' = pc /\ completed' = completed /\ end' = end
      /\ nextOutput' = IF left = 1 THEN nextOutput + 1 ELSE nextOutput
      /\ inputClosed' = inputClosed /\ admitted' = admitted /\ pending' = pending
      /\ worker' = worker
  BY DEF PutDone, flowVars
<1>2. /\ nextOutput \in Input /\ made[nextOutput] # NotYet /\ left \in Int
      /\ made[nextOutput] \in Int /\ left <= made[nextOutput]
  <2>1. nextOutput \in Input /\ made[nextOutput] # NotYet /\ left \in Int
    BY NumbersOK
  <2> QED BY <2>1, MadeType DEF OrderInv, TurnOK
<1>3. Running /\ Running' /\ InRepair' = {} BY <1>1 DEF Running, InRepair
<1>4. MadeOK' BY <1>1, <1>2, <1>3, MadeStays DEF OrderInv
<1>5. TurnOK'
  <2>1. left' > 0 => nextOutput' = nextOutput BY <1>1, <1>2
  <2>2. left' > 0 => left' <= made'[nextOutput'] BY <1>1, <1>2, <2>1
  <2> QED BY <1>1, <2>2 DEF TurnOK
<1>6. \A m \in Input, i \in 1..Fan : CameOut(m, i)' <=> Sent(m, i)'
  BY SentMore DEF OrderInv
<1>7. ASSUME NEW m \in Input, NEW i \in 1..Fan, m < nextOutput', i <= made'[m]
      PROVE  CameOut(m, i)'
  <2>1. made'[m] # NotYet BY <1>4, <1>7 DEF MadeOK
  <2>2. Sent(m, i)' BY <1>7, <2>1 DEF Sent
  <2> QED BY <1>6, <2>2
<1>8. ExactOK' BY <1>6, <1>7 DEF ExactOK
<1>9. DrainOK' BY <1>1, <1>3, NotEnded DEF OrderInv, DrainOK
<1> QED BY <1>4, <1>5, <1>8, <1>9

LEMMA RefusedOrder ==
  ASSUME PipeInv, OrderInv, Refused, made' = made, Delivered' = Delivered,
         UNCHANGED <<flowVars, worker>>
  PROVE  MadeOK' /\ TurnOK' /\ ExactOK' /\ DrainOK' /\ Serial
<1>1. /\ pc' = "closing" /\ end' = "refused" /\ completed' = completed
      /\ nextOutput' = nextOutput /\ left' = left
      /\ inputClosed' = inputClosed /\ admitted' = admitted /\ pending' = pending
      /\ worker' = worker
  BY DEF Refused, Stop, Goto, flowVars, outVars
<1>2. KnownStays /\ ~Running' /\ InRepair' = {}
  BY <1>1, KnownSame DEF Running, InRepair
<1>3. MadeOK' BY <1>1, <1>2, MadeStays DEF OrderInv
<1>4. TurnOK' BY <1>1, <1>2, TurnStays DEF OrderInv
<1>5. ExactOK' BY <1>1, <1>2, ExactStays DEF OrderInv
<1>6. DrainOK' BY <1>1 DEF DrainOK
<1> QED BY <1>3, <1>4, <1>5, <1>6, Stutters

(* While output i of the input whose turn it is is being put, those that    *)
(* came out are the ones before it, and it too once its put was taken up. *)
LEMMA SentNow ==
  ASSUME PipeInv, OrderInv, pc = "emit", left > 0, NEW m \in Input, NEW i \in 1..Fan
  PROVE  CameOut(m, i) <=>
           \/ made[m] # NotYet /\ m < nextOutput /\ i <= made[m]
           \/ m = nextOutput /\ i <= made[nextOutput] - left + Ahead
<1>1. Running /\ made[nextOutput] # NotYet BY NumbersOK DEF Running
<1>2. CameOut(m, i) <=> Sent(m, i) BY <1>1 DEF OrderInv, ExactOK
<1> QED BY <1>1, <1>2 DEF Sent

(* And once it has come out. *)
LEMMA SentNext ==
  ASSUME PipeInv, OrderInv, pc = "emit", left > 0, Ahead = 0,
         \A n, i : CameOut(n, i)' <=>
           CameOut(n, i) \/ (n = nextOutput /\ i = made[nextOutput] - left + 1),
         NEW m \in Input, NEW i \in 1..Fan
  PROVE  CameOut(m, i)' <=>
           \/ made[m] # NotYet /\ m < nextOutput /\ i <= made[m]
           \/ m = nextOutput /\ i <= made[nextOutput] - left + 1
<1>1. made[nextOutput] \in Int /\ left \in Int
  <2>1. nextOutput \in Input /\ made[nextOutput] # NotYet /\ left \in Int BY NumbersOK
  <2> QED BY <2>1, MadeType
<1>2. CameOut(m, i) <=>
           \/ made[m] # NotYet /\ m < nextOutput /\ i <= made[m]
           \/ m = nextOutput /\ i <= made[nextOutput] - left + Ahead
  BY SentNow
<1>3. /\ i <= made[nextOutput] - left + 1 <=>
           \/ i <= made[nextOutput] - left + Ahead
           \/ i = made[nextOutput] - left + 1
  BY <1>1
<1>4. CameOut(m, i)' <=>
        CameOut(m, i) \/ (m = nextOutput /\ i = made[nextOutput] - left + 1)
  OBVIOUS
<1> QED BY <1>2, <1>3, <1>4

(* The forwarder puts the output that is due, or the destination is closed. *)
LEMMA PutOutputOrder ==
  ASSUME Lossless, PipeInv, OrderInv, PipeInv', PutOutput
  PROVE  OrderInv' /\ Serial
<1>1. /\ pc = "emit" /\ left > 0 /\ PutNow(Forwarder, Destination, DueItem)
      /\ UNCHANGED <<flowVars, worker>> /\ made' = made
      /\ inputClosed' = inputClosed
      /\ closed[Destination] => Refused
      /\ ~closed[Destination] => PutDone
  BY DEF PutOutput, flowVars
<1>2. DueItem \in Int BY <1>1, DueItemInt DEF PipeInv
<1>3. /\ ChanTypeOK /\ Sides /\ Idle(Forwarder) /\ takes[Source] = {} /\ puts[Destination] = {}
      /\ future \in [Task -> AnyAnswer]
  BY <1>1 DEF PipeInv, ChanInv, ChanTypeOK, Asleep, PutNow
<1>4. /\ NoNewWaiters /\ buffer'[Source] = buffer[Source]
      /\ future'[Forwarder] = future[Forwarder]
      /\ closed' = closed /\ kind' = kind /\ Hungry'
      /\ Delivered' = IF closed[Destination] THEN Delivered
                      ELSE Append(Delivered, Output(DueItem))
  <2> DEFINE item == DueItem
  <2>1. item \in Int /\ PutNow(Forwarder, Destination, item) BY <1>1, <1>2
  <2> HIDE DEF item
  <2>2. /\ NoNewWaiters /\ buffer'[Source] = buffer[Source]
        /\ \/ future' = future
           \/ \E w \in takes[Destination] : future' = [future EXCEPT ![w.task] = Given(item)]
    BY <1>3, <2>1, TasksAndChans, PutEffect
  <2>3. future'[Forwarder] = future[Forwarder]
    <3>1. \A w \in takes[Destination] : w.task = Consumer BY <1>3 DEF Sides
    <3> QED BY <1>3, <2>2, <3>1, TasksAndChans
  <2>4. /\ closed' = closed /\ kind' = kind /\ Hungry'
        /\ Delivered' = IF closed[Destination] THEN Delivered
                        ELSE Append(Delivered, Output(item))
    BY <1>3, <2>1, PutDelivers DEF OrderInv, SidesOK
  <2> QED BY <2>2, <2>3, <2>4 DEF item
<1>5. Ahead = 0 /\ Ahead' = 0 BY <1>3, <1>4 DEF Ahead, Idle
<1>6. SidesOK'
  <2>1. puts'[Destination] = {} BY <1>3, <1>4, TasksAndChans DEF NoNewWaiters
  <2>2. Asked' BY <2>1 DEF Asked
  <2> QED BY <1>1, <1>4, <2>2, TasksAndChans, SidesMove
          DEF NoNewWaiters, OrderInv, SidesOK, Shut
<1>7. CASE closed[Destination]
  <2>1. MadeOK' /\ TurnOK' /\ ExactOK' /\ DrainOK' /\ Serial
    BY <1>1, <1>4, <1>7, RefusedOrder
  <2> QED BY <1>6, <2>1 DEF OrderInv
<1>8. CASE ~closed[Destination]
  <2>1. /\ Serial
        /\ \A n, i : CameOut(n, i)' <=>
             CameOut(n, i) \/ (n = nextOutput /\ i = made[nextOutput] - left + 1)
    BY <1>1, <1>4, <1>5, <1>8, Delivers DEF OrderInv
  <2>2. \A m \in Input, i \in 1..Fan :
          CameOut(m, i)' <=>
            \/ made[m] # NotYet /\ m < nextOutput /\ i <= made[m]
            \/ m = nextOutput /\ i <= made[nextOutput] - left + 1
    BY <1>1, <1>5, <2>1, SentNext
  <2>3. MadeOK' /\ TurnOK' /\ ExactOK' /\ DrainOK'
    BY <1>1, <1>5, <1>8, <2>2, PutDoneOrder
  <2> QED BY <1>6, <2>1, <2>3 DEF OrderInv
<1> QED BY <1>7, <1>8

LEMMA OutputReturnsOrder ==
  ASSUME PipeInv, OrderInv, PipeInv', OutputReturns
  PROVE  OrderInv' /\ Serial
<1>1. /\ pc = "emit" /\ left > 0 /\ Resume(Forwarder) /\ ~Raises(Forwarder)
      /\ UNCHANGED <<flowVars, worker>> /\ made' = made /\ inputClosed' = inputClosed
      /\ future[Forwarder].is = "false" => Refused
      /\ future[Forwarder].is # "false" => PutDone
  BY DEF OutputReturns, flowVars
<1>2. /\ SidesOK' /\ Delivered' = Delivered /\ Ahead' = 0
      /\ ~Idle(Forwarder) /\ future[Forwarder].is # "pending"
  BY <1>1, ForwarderMoves DEF OrderInv, SidesOK, Shut
<1>3. CASE future[Forwarder].is = "false"
  <2>1. MadeOK' /\ TurnOK' /\ ExactOK' /\ DrainOK' /\ Serial
    BY <1>1, <1>2, <1>3, RefusedOrder
  <2> QED BY <1>2, <2>1 DEF OrderInv
<1>4. CASE future[Forwarder].is # "false"
  <2>1. future[Forwarder].is = "true"
    BY <1>1, <1>2, <1>4 DEF PipeInv, ChanInv, Asleep, Raises
  <2>2. Ahead = 1 BY <2>1 DEF Ahead
  <2>3. \A m \in Input, i \in 1..Fan :
          CameOut(m, i)' <=>
            \/ made[m] # NotYet /\ m < nextOutput /\ i <= made[m]
            \/ m = nextOutput /\ i <= made[nextOutput] - left + 1
    BY <1>1, <1>2, <2>2, SentNow, CameOutStays
  <2>4. MadeOK' /\ TurnOK' /\ ExactOK' /\ DrainOK'
    BY <1>1, <1>2, <1>4, <2>3, PutDoneOrder
  <2> QED BY <1>1, <1>2, <2>4, Stutters DEF OrderInv
<1> QED BY <1>3, <1>4

LEMMA AwaitOutputOrder ==
  ASSUME PipeInv, OrderInv, AwaitOutput
  PROVE  OrderInv' /\ Serial
<1>1. /\ pc = "emit" /\ left > 0 /\ UNCHANGED ownVars
      /\ Sleep(Forwarder, [chan |-> Destination, put |-> TRUE], DueItem)
  BY DEF AwaitOutput, PutTo
<1>2. ChanTypeOK BY DEF PipeInv, ChanInv
<1>3. /\ buffer' = buffer /\ received' = received /\ Idle(Forwarder)
      /\ future' = [future EXCEPT ![Forwarder] = Answer("pending")]
      /\ \A d \in Chan :
           /\ puts'[d] \subseteq
                puts[d] \cup (IF d = Destination
                              THEN {[task |-> Forwarder, id |-> DueItem]} ELSE {})
           /\ takes'[d] \subseteq takes[d]
      /\ kind' = kind /\ closed' = closed
  <2> DEFINE item == DueItem
  <2>1. TRUE \in BOOLEAN /\ item \in Int BY <1>1, DueItemInt DEF PipeInv
  <2>2. Sleep(Forwarder, [chan |-> Destination, put |-> TRUE], item) BY <1>1
  <2> HIDE DEF item
  <2>3. /\ buffer' = buffer /\ received' = received /\ Idle(Forwarder)
        /\ future' = [future EXCEPT ![Forwarder] = Answer("pending")]
        /\ \A d \in Chan :
             /\ puts'[d] \subseteq
                  puts[d] \cup (IF d = Destination
                                THEN {[task |-> Forwarder, id |-> item]} ELSE {})
             /\ takes'[d] \subseteq takes[d]
    BY <1>2, <2>1, <2>2, TasksAndChans, SleepEffect
  <2>4. kind' = kind /\ closed' = closed BY <2>2 DEF Sleep
  <2> QED BY <2>3, <2>4 DEF item
<1>4. /\ future'[Forwarder].is = "pending" /\ future'[Consumer] = future[Consumer]
  BY <1>2, <1>3, TasksAndChans DEF ChanTypeOK, Answer
<1>5. Delivered' = Delivered /\ Ahead' = Ahead
  BY <1>3, <1>4, DeliveredStays DEF Ahead, Idle
<1>6. /\ made' = made /\ nextOutput' = nextOutput /\ left' = left /\ inputClosed' = inputClosed
  BY <1>1 DEF ownVars, flowVars, outVars
<1>7. Asked'
  <2>1. DueItem' = DueItem BY <1>1, <1>6, DueStays, KnownSame
  <2>2. puts'[Destination] \subseteq
          puts[Destination] \cup {[task |-> Forwarder, id |-> DueItem]}
    BY <1>3, TasksAndChans
  <2>3. \A w \in puts[Destination] : w.id = DueItem BY DEF OrderInv, SidesOK, Asked
  <2> DEFINE item == DueItem
  <2>4. \A w \in puts'[Destination] : w.id = item
    <3>1. /\ puts'[Destination] \subseteq
               puts[Destination] \cup {[task |-> Forwarder, id |-> item]}
          /\ \A w \in puts[Destination] : w.id = item
      BY <2>2, <2>3
    <3> HIDE DEF item
    <3> QED BY <3>1
  <2> QED BY <2>1, <2>4 DEF Asked
<1>8. Hungry' BY <1>3, <1>4, TasksAndChans, HungryStays DEF OrderInv, SidesOK
<1>9. puts'[Source] \subseteq puts[Source] BY <1>3, TasksAndChans
<1>10. SidesOK'
  BY <1>3, <1>4, <1>6, <1>7, <1>8, <1>9, SidesMove DEF OrderInv, SidesOK, Shut
<1> QED BY <1>1, <1>3, <1>5, <1>10, OthersOrder
----------------------------------------------------------------------------
(* A channel is closed, and the other tasks.                                *)

(* Closing a channel leaves its sides as the forwarder knows them. *)
LEMMA CloseSides ==
  ASSUME PipeInv, OrderInv, NEW c \in Chan, Close(c), inputClosed' = inputClosed,
         c = Destination \/ DueItem' = DueItem
  PROVE  /\ SidesOK' /\ Delivered' = Delivered /\ Ahead' = Ahead
         /\ received' = received
<1>1. ChanTypeOK /\ Typed BY DEF PipeInv, ChanInv, OrderInv, SidesOK
<1>2. /\ NoNewWaiters /\ buffer' = buffer /\ received' = received
      /\ \A t \in Task : future'[t].is = "pending" => future[t].is = "pending"
  BY <1>1, CloseEffect
<1>3. /\ kind' = kind /\ closed' \in [Chan -> BOOLEAN]
      /\ closed'[c] /\ \A d \in Chan : d # c => closed'[d] = closed[d]
      /\ puts'[c] = {}
      /\ \A t \in Task :
           /\ future'[t].is = "true" <=> future[t].is = "true"
           /\ future'[t].is = "nil" =>
                \/ future[t].is = "nil"
                \/ buffer[c] = <<>> /\ \E w \in takes[c] : w.task = t
  BY <1>1, CloseDetail
<1>4. Delivered' = Delivered /\ Ahead' = Ahead
  BY <1>2, <1>3, TasksAndChans, DeliveredStays DEF Ahead
<1>5. Typed' BY <1>1, <1>3 DEF Typed
<1>6. Asked'
  <2>1. CASE c = Destination BY <1>3, <2>1 DEF Asked
  <2>2. CASE c # Destination
    BY <1>2, <2>2, TasksAndChans DEF NoNewWaiters, Asked, OrderInv, SidesOK
  <2> QED BY <2>1, <2>2
<1>7. Hungry'
  BY <1>2, TasksAndChans, HungryStays DEF NoNewWaiters, OrderInv, SidesOK
<1>8. closed[Source] => closed'[Source] BY <1>3, TasksAndChans
<1>9. closed'[Source] => puts'[Source] = {}
  <2>1. CASE c = Source BY <1>3, <2>1
  <2>2. CASE c # Source
    BY <1>2, <1>3, <2>2, TasksAndChans DEF NoNewWaiters, OrderInv, SidesOK, Shut
  <2> QED BY <2>1, <2>2
<1>10. inputClosed' \/ future'[Forwarder].is = "nil" =>
         closed'[Source] /\ buffer'[Source] = <<>>
  <2>1. CASE inputClosed \/ future[Forwarder].is = "nil"
    BY <1>2, <1>8, <2>1 DEF OrderInv, SidesOK, Shut
  <2>2. CASE buffer[c] = <<>> /\ \E w \in takes[c] : w.task = Forwarder
    <3>1. c = Source
      BY <2>2, PipelineAssumption DEF PipeInv, ChanInv, Sides
    <3> QED BY <1>2, <1>3, <2>2, <3>1
  <2> QED BY <1>3, <2>1, <2>2, TasksAndChans
<1> QED BY <1>2, <1>4, <1>5, <1>6, <1>7, <1>9, <1>10 DEF SidesOK, Shut

LEMMA CloseEndOrder ==
  ASSUME PipeInv, OrderInv, NEW c \in Chan, CloseEnd(c)
  PROVE  OrderInv' /\ Serial
<1>1. /\ Close(c) /\ UNCHANGED ownVars /\ inputClosed' = inputClosed
      /\ made' = made /\ nextOutput' = nextOutput /\ left' = left
  BY DEF CloseEnd, ownVars, flowVars, outVars
<1>2. DueItem' = DueItem BY <1>1 DEF DueItem
<1>3. /\ SidesOK' /\ Delivered' = Delivered /\ Ahead' = Ahead /\ received' = received
  BY <1>1, <1>2, CloseSides
<1> QED BY <1>1, <1>3, OthersOrder

(* The forwarder leaves and closes its output. *)
LEMMA LeaveOrder ==
  ASSUME PipeInv, OrderInv, Leave
  PROVE  OrderInv' /\ Serial
<1>1. /\ pc = "joining" /\ pc' = "ended" /\ end' = end
      /\ made' = made /\ admitted' = admitted /\ nextOutput' = nextOutput /\ left' = left
      /\ inputClosed' = inputClosed /\ pending' = pending /\ worker' = worker
      /\ completed' = completed
      /\ UNCHANGED vars \/ Close(Destination)
  BY DEF Leave, CloseOutput, Goto, flowVars, outVars
<1>2. ~Running /\ ~Running' /\ InRepair' = {} /\ KnownStays
  BY <1>1, KnownSame DEF Running, InRepair
<1>3. CASE UNCHANGED vars BY <1>1, <1>2, <1>3, Moves
<1>4. CASE Close(Destination)
  <2>1. SidesOK' /\ Delivered' = Delivered /\ received' = received
    BY <1>1, <1>4, TasksAndChans, CloseSides
  <2>2. MadeOK' BY <1>1, <1>2, MadeStays DEF OrderInv
  <2>3. TurnOK' BY <1>1, <1>2, TurnStays DEF OrderInv
  <2>4. ExactOK' BY <1>1, <1>2, <2>1, ExactStays DEF OrderInv
  <2>5. DrainOK' BY <1>1, <1>2, <2>1, DrainStays DEF OrderInv
  <2> QED BY <1>1, <2>1, <2>2, <2>3, <2>4, <2>5, Stutters DEF OrderInv
<1> QED BY <1>1, <1>3, <1>4

LEMMA CancelForwarderOrder ==
  ASSUME PipeInv, OrderInv, CancelForwarder
  PROVE  OrderInv' /\ Serial
<1>1. CASE CancelElsewhere BY <1>1, CancelElsewhereOrder
<1>2. CASE CancelAsleep
  <2>1. /\ Cancel(Forwarder) /\ UNCHANGED ownVars /\ kind' = kind /\ closed' = closed
        /\ made' = made /\ nextOutput' = nextOutput /\ left' = left
        /\ inputClosed' = inputClosed
    BY <1>2 DEF CancelAsleep, Cancel, chanVars, ownVars, flowVars, outVars
  <2>2. ChanTypeOK BY DEF PipeInv, ChanInv
  <2>3. /\ UNCHANGED <<puts, takes, buffer, received>>
        /\ \/ future' = future
           \/ /\ future[Forwarder].is = "pending"
              /\ future' = [future EXCEPT ![Forwarder] = Answer("cancelled")]
    BY <2>1, <2>2, TasksAndChans, CancelEffect
  <2>4. /\ future'[Consumer] = future[Consumer]
        /\ \/ future'[Forwarder] = future[Forwarder]
           \/ future[Forwarder].is = "pending" /\ future'[Forwarder].is = "cancelled"
    BY <2>2, <2>3, TasksAndChans DEF ChanTypeOK, Answer
  <2>5. Delivered' = Delivered /\ Ahead' = Ahead
    BY <2>3, <2>4, DeliveredStays DEF Ahead
  <2>6. Asked' /\ Hungry'
    <3>1. DueItem' = DueItem BY <2>1 DEF DueItem
    <3>2. Asked' BY <2>3, <3>1 DEF Asked, OrderInv, SidesOK
    <3>3. Hungry' BY <2>3, <2>4, HungryStays DEF OrderInv, SidesOK
    <3> QED BY <3>2, <3>3
  <2>7. SidesOK'
    BY <2>1, <2>3, <2>4, <2>6, SidesMove DEF OrderInv, SidesOK, Shut
  <2> QED BY <2>1, <2>3, <2>5, <2>7, OthersOrder
<1> QED BY <1>1, <1>2 DEF CancelForwarder

LEMMA WakeOrder ==
  ASSUME PipeInv, OrderInv, NEW t \in {Producer, Consumer}, Wake(t)
  PROVE  OrderInv' /\ Serial
<1>1. /\ Resume(t) /\ UNCHANGED ownVars /\ inputClosed' = inputClosed
      /\ made' = made /\ nextOutput' = nextOutput /\ left' = left
  BY DEF Wake, ownVars, flowVars, outVars
<1>2. t \in Task /\ t # Forwarder BY TasksAndChans
<1>3. /\ kind' = kind /\ closed' = closed /\ buffer' = buffer /\ received' = received
      /\ NoNewWaiters /\ Delivered' = Delivered /\ Hungry'
      /\ future'[Forwarder] = future[Forwarder]
  BY <1>1, <1>2, TasksAndChans, ResumeMoves
<1>4. Ahead' = Ahead BY <1>3 DEF Ahead
<1>5. Asked'
  <2>1. DueItem' = DueItem BY <1>1 DEF DueItem
  <2>2. puts'[Destination] \subseteq puts[Destination]
    BY <1>3, TasksAndChans DEF NoNewWaiters
  <2> QED BY <2>1, <2>2 DEF Asked, OrderInv, SidesOK
<1>6. puts'[Source] \subseteq puts[Source] BY <1>3, TasksAndChans DEF NoNewWaiters
<1>7. SidesOK'
  BY <1>1, <1>3, <1>5, <1>6, SidesMove DEF OrderInv, SidesOK, Shut
<1> QED BY <1>1, <1>3, <1>4, <1>7, OthersOrder

(* The producer finds the source open: the forwarder was not told of its end. *)
LEMMA FeedOrder ==
  ASSUME PipeInv, OrderInv, Feed
  PROVE  OrderInv' /\ Serial
<1> DEFINE v == fed + 1
<1>1. /\ ~closed[Source] /\ UNCHANGED ownVars /\ inputClosed' = inputClosed
      /\ made' = made /\ nextOutput' = nextOutput /\ left' = left
      /\ \/ PutNow(Producer, Source, v)
         \/ Sleep(Producer, [chan |-> Source, put |-> TRUE], v)
  BY DEF Feed, PutTo, ownVars, flowVars, outVars
<1>2. ChanTypeOK /\ v \in Int /\ TRUE \in BOOLEAN
      /\ future \in [Task -> AnyAnswer]
  BY PipelineAssumption DEF PipeInv, ChanInv, OwnInv, PipeTypeOK, ChanTypeOK
<1>3. ~inputClosed /\ future[Forwarder].is # "nil" /\ end # "drained"
  BY <1>1 DEF OrderInv, SidesOK, Shut, DrainOK
<1>4. DueItem' = DueItem BY <1>1 DEF DueItem
<1> HIDE DEF v
<1>5. /\ kind' = kind /\ closed' = closed
      /\ puts'[Destination] \subseteq puts[Destination]
      /\ takes'[Destination] \subseteq takes[Destination]
      /\ buffer'[Destination] = buffer[Destination]
      /\ received'[Destination] = received[Destination]
      /\ future'[Consumer] = future[Consumer]
      /\ \/ future'[Forwarder] = future[Forwarder]
         \/ future[Forwarder].is = "pending" /\ future'[Forwarder].is = "value"
  <2>1. CASE PutNow(Producer, Source, v)
    <3>1. /\ NoNewWaiters
          /\ \A d \in Chan : d # Source => buffer'[d] = buffer[d]
          /\ \A d \in Chan : d # Source => received'[d] = received[d]
          /\ \/ future' = future
             \/ \E w \in takes[Source] :
                  /\ future[w.task].is = "pending"
                  /\ future' = [future EXCEPT ![w.task] = Given(v)]
      BY <1>2, <2>1, TasksAndChans, PutEffect
    <3>2. kind' = kind /\ closed' = closed BY <2>1 DEF PutNow
    <3>3. \A w \in takes[Source] : w.task = Forwarder BY DEF PipeInv, ChanInv, Sides
    <3>4. /\ future'[Consumer] = future[Consumer]
          /\ \/ future'[Forwarder] = future[Forwarder]
             \/ future[Forwarder].is = "pending" /\ future'[Forwarder].is = "value"
      <4>1. CASE future' = future BY <4>1
      <4>2. CASE /\ future[Forwarder].is = "pending"
                 /\ future' = [future EXCEPT ![Forwarder] = Given(v)]
        BY <1>2, <4>2, TasksAndChans DEF Given
      <4> QED BY <3>1, <3>3, <4>1, <4>2
    <3> QED BY <3>1, <3>2, <3>4, TasksAndChans DEF NoNewWaiters
  <2>2. CASE Sleep(Producer, [chan |-> Source, put |-> TRUE], v)
    <3>1. /\ buffer' = buffer /\ received' = received
          /\ future' = [future EXCEPT ![Producer] = Answer("pending")]
          /\ \A d \in Chan :
               /\ puts'[d] \subseteq
                    puts[d] \cup (IF d = Source
                                  THEN {[task |-> Producer, id |-> v]} ELSE {})
               /\ takes'[d] \subseteq takes[d]
      BY <1>2, <2>2, TasksAndChans, SleepEffect
    <3>2. kind' = kind /\ closed' = closed BY <2>2 DEF Sleep
    <3> QED BY <1>2, <3>1, <3>2, TasksAndChans
  <2> QED BY <1>1, <2>1, <2>2
<1>6. Delivered' = Delivered /\ Ahead' = Ahead BY <1>5, DeliveredStays DEF Ahead
<1>7. Asked' BY <1>4, <1>5 DEF Asked, OrderInv, SidesOK
<1>8. Hungry' BY <1>5, HungryStays DEF OrderInv, SidesOK
<1>9. SidesOK' BY <1>1, <1>3, <1>5, <1>7, <1>8, SidesMove DEF OrderInv
<1> QED BY <1>1, <1>3, <1>6, <1>9, OthersOrder

(* An output comes out while the forwarder sleeps: it is the one it sleeps in. *)
LEMMA TakenUpOrder ==
  ASSUME PipeInv, OrderInv, UNCHANGED ownVars, SidesOK', received'[Source] = received[Source],
         puts[Destination] # {}, future[Forwarder].is = "pending",
         future'[Forwarder].is = "true",
         Delivered' = Append(Delivered, Output(DueItem))
  PROVE  OrderInv' /\ Serial
<1>1. /\ pc' = pc /\ worker' = worker /\ made' = made /\ end' = end
      /\ inputClosed' = inputClosed /\ admitted' = admitted /\ pending' = pending
      /\ batch' = batch /\ completed' = completed /\ nextOutput' = nextOutput /\ left' = left
  BY DEF ownVars, flowVars, outVars
<1>2. pc = "emit" /\ left > 0 /\ Ahead = 0 /\ Ahead' = 1
  BY DEF PipeInv, ChanInv, Asleep, Ahead
<1>3. /\ KnownStays /\ Running /\ Running' /\ InRepair' = InRepair
  BY <1>1, <1>2, KnownSame DEF Running, InRepair, IsFirst
<1>4. MadeOK' BY <1>1, <1>3, MadeStays DEF OrderInv
<1>5. TurnOK' BY <1>1, <1>3, TurnStays DEF OrderInv
<1>6. DrainOK' BY <1>1, <1>3, NotEnded DEF OrderInv, DrainOK
<1>7. /\ Serial
      /\ \A n, i : CameOut(n, i)' <=>
           CameOut(n, i) \/ (n = nextOutput /\ i = made[nextOutput] - left + 1)
  BY <1>1, <1>2, Delivers DEF OrderInv
<1>8. ExactOK'
  <2>1. ASSUME NEW n \in Input, NEW i \in 1..Fan PROVE CameOut(n, i)' <=> Sent(n, i)'
    <3>1. CameOut(n, i)' <=>
            \/ made[n] # NotYet /\ n < nextOutput /\ i <= made[n]
            \/ n = nextOutput /\ i <= made[nextOutput] - left + 1
      BY <1>2, <1>7, SentNext
    <3>2. made[nextOutput] # NotYet BY <1>2, NumbersOK
    <3> QED BY <1>1, <1>2, <3>1, <3>2 DEF Sent
  <2>2. ASSUME NEW n \in Input, NEW i \in 1..Fan, n < nextOutput', i <= made'[n]
        PROVE  CameOut(n, i)'
    BY <1>1, <1>7, <2>2 DEF OrderInv, ExactOK
  <2> QED BY <2>1, <2>2 DEF ExactOK
<1> QED BY <1>4, <1>5, <1>6, <1>7, <1>8 DEF OrderInv

(* The consumer takes an output, or waits for one. *)
LEMMA ConsumeOrder ==
  ASSUME PipeInv, OrderInv, Consume
  PROVE  OrderInv' /\ Serial
<1>1. /\ UNCHANGED ownVars /\ inputClosed' = inputClosed
      /\ made' = made /\ nextOutput' = nextOutput /\ left' = left
      /\ \/ TakeNow(Consumer, Destination, 1)
         \/ Sleep(Consumer, [chan |-> Destination, put |-> FALSE], 1)
  BY DEF Consume, TakeFrom, ownVars, flowVars, outVars
<1>2. /\ ChanTypeOK /\ Sides /\ 1 \in Int /\ FALSE \in BOOLEAN
      /\ future \in [Task -> AnyAnswer]
  BY DEF PipeInv, ChanInv, ChanTypeOK
<1>3. DueItem' = DueItem BY <1>1 DEF DueItem
<1>4. CASE TakeNow(Consumer, Destination, 1)
  <2>1. /\ NoNewWaiters
        /\ \A d \in Chan : d # Destination => buffer'[d] = buffer[d]
        /\ \A d \in Chan : d # Destination => received'[d] = received[d]
    BY <1>2, <1>4, TasksAndChans, TakeEffect
  <2>2. /\ received'[Source] = received[Source] /\ buffer'[Source] = buffer[Source]
        /\ puts'[Source] \subseteq puts[Source]
        /\ puts'[Destination] \subseteq puts[Destination]
    BY <2>1, TasksAndChans DEF NoNewWaiters
  <2>3. /\ closed' = closed /\ kind' = kind /\ Hungry'
        /\ \/ Delivered' = Delivered /\ future' = future
           \/ \E w \in puts[Destination] :
                /\ future[Forwarder].is = "pending"
                /\ future' = [future EXCEPT ![Forwarder] = Answer("true")]
                /\ Delivered' = Append(Delivered, Output(w.id))
    BY <1>2, <1>4, TakeDelivers
  <2>4. Asked' BY <1>3, <2>2 DEF Asked, OrderInv, SidesOK
  <2>5. CASE Delivered' = Delivered /\ future' = future
    <3>1. SidesOK'
      BY <1>1, <2>2, <2>3, <2>4, <2>5, SidesMove DEF OrderInv, SidesOK, Shut
    <3>2. Ahead' = Ahead BY <2>5 DEF Ahead
    <3> QED BY <1>1, <2>2, <2>5, <3>1, <3>2, OthersOrder
  <2>6. CASE \E w \in puts[Destination] :
                /\ future[Forwarder].is = "pending"
                /\ future' = [future EXCEPT ![Forwarder] = Answer("true")]
                /\ Delivered' = Append(Delivered, Output(w.id))
    <3>1. PICK w \in puts[Destination] :
                /\ future[Forwarder].is = "pending"
                /\ future' = [future EXCEPT ![Forwarder] = Answer("true")]
                /\ Delivered' = Append(Delivered, Output(w.id))
      BY <2>6
    <3>2. w.id = DueItem BY DEF OrderInv, SidesOK, Asked
    <3>3. future'[Forwarder].is = "true" BY <1>2, <3>1, TasksAndChans DEF Answer
    <3>4. Delivered' = Append(Delivered, Output(DueItem)) BY <3>1, <3>2
    <3>5. SidesOK'
      BY <1>1, <2>2, <2>3, <2>4, <3>3, SidesMove DEF OrderInv, SidesOK, Shut
    <3> QED BY <1>1, <2>2, <3>1, <3>3, <3>4, <3>5, TakenUpOrder
  <2> QED BY <2>3, <2>5, <2>6
<1>5. CASE Sleep(Consumer, [chan |-> Destination, put |-> FALSE], 1)
  <2>1. /\ buffer' = buffer /\ received' = received
        /\ future' = [future EXCEPT ![Consumer] = Answer("pending")]
        /\ \A d \in Chan : puts'[d] \subseteq puts[d]
    BY <1>2, <1>5, TasksAndChans, SleepEffect
  <2>2. kind' = kind /\ closed' = closed /\ buffer[Destination] = <<>>
    BY <1>5 DEF Sleep, Ready, TakeReady
  <2>3. future'[Forwarder] = future[Forwarder] BY <1>2, <2>1, TasksAndChans
  <2>4. Delivered' = Delivered /\ Ahead' = Ahead
    BY <2>1, <2>3, DeliveredStays DEF Ahead
  <2>5. Hungry' BY <2>1, <2>2 DEF Hungry
  <2>6. Asked' BY <1>3, <2>1, TasksAndChans DEF Asked, OrderInv, SidesOK
  <2>7. puts'[Source] \subseteq puts[Source] BY <2>1, TasksAndChans
  <2>8. SidesOK'
    BY <1>1, <2>1, <2>2, <2>3, <2>5, <2>6, <2>7, SidesMove DEF OrderInv, SidesOK, Shut
  <2> QED BY <1>1, <2>1, <2>4, <2>8, OthersOrder
<1> QED BY <1>1, <1>4, <1>5
----------------------------------------------------------------------------
(* All together: every step keeps the order, and is a step of the promise.  *)

LEMMA OrderInit == PipeInit => OrderInv /\ Promise!Init
<1> SUFFICES ASSUME PipeInit PROVE OrderInv /\ Promise!Init
  OBVIOUS
<1>1. /\ kind \in Kinds /\ closed = [c \in Chan |-> FALSE]
      /\ puts = [c \in Chan |-> {}] /\ takes = [c \in Chan |-> {}]
      /\ buffer = [c \in Chan |-> <<>>] /\ received = [c \in Chan |-> <<>>]
      /\ future = [t \in Task |-> Answer("none")]
      /\ pc = "created" /\ inputClosed = FALSE /\ admitted = 0 /\ pending = {}
      /\ worker = [n \in Input |-> "none"] /\ batch = {} /\ completed = {}
      /\ nextOutput = 1 /\ left = 0 /\ made = [n \in Input |-> NotYet] /\ end = "none"
  BY DEF PipeInit, Init
<1>2. Delivered = <<>> BY <1>1, TasksAndChans DEF Delivered
<1>3. \A n, i : ~CameOut(n, i) BY <1>2 DEF CameOut
<1>4. \A n \in Input, i \in 1..Fan : ~Sent(n, i)
  <2>1. \A n \in Input : made[n] = NotYet BY <1>1
  <2> QED BY <2>1 DEF Sent
<1>5. \A n \in Input : ~(n < nextOutput) BY <1>1, PipelineAssumption DEF Input
<1>6. MadeOK BY <1>1, <1>5 DEF MadeOK, InRepair
<1>7. TurnOK
  <2>1. ~(left > 0) /\ nextOutput \notin completed BY <1>1
  <2> QED BY <2>1 DEF TurnOK
<1>8. SidesOK
  <2>1. future[Forwarder].is # "nil" BY <1>1, TasksAndChans DEF Answer
  <2>2. Shut BY <1>1, <2>1, TasksAndChans DEF Shut
  <2>3. Typed /\ Asked /\ Hungry BY <1>1, TasksAndChans DEF Typed, Asked, Hungry
  <2> QED BY <2>2, <2>3 DEF SidesOK
<1>9. DrainOK BY <1>1 DEF DrainOK
<1>10. ExactOK BY <1>3, <1>4, <1>5 DEF ExactOK
<1>11. Promise!Init BY <1>1, <1>2 DEF Promise!Init
<1> QED BY <1>6, <1>7, <1>8, <1>9, <1>10, <1>11 DEF OrderInv

LEMMA StepOrder ==
  ASSUME Lossless, PipeInv, OrderInv, PipeInv', Step
  PROVE  OrderInv' /\ Serial
<1>1. CASE Start BY <1>1, StartOrder
<1>2. CASE TakeInput BY <1>2, TakeInputOrder
<1>3. CASE AwaitInput BY <1>3, AwaitInputOrder
<1>4. CASE InputArrives BY <1>4, InputArrivesOrder
<1>5. CASE WaitReturns BY <1>5, WaitReturnsOrder
<1>6. CASE HandlerRaises BY <1>6, HandlerRaisesOrder
<1>7. CASE BatchDone BY <1>7, BatchDoneOrder
<1>8. CASE NothingDue BY <1>8, NothingDueOrder
<1>9. CASE PutOutput BY <1>9, PutOutputOrder
<1>10. CASE AwaitOutput BY <1>10, AwaitOutputOrder
<1>11. CASE OutputReturns BY <1>11, OutputReturnsOrder
<1>12. CASE Abandon BY <1>12, AbandonOrder
<1>13. CASE Leave BY <1>13, LeaveOrder
<1>14. CASE CallRaises BY <1>14, CallRaisesOrder
<1>15. CASE \E n \in Input :
              TaskSucceeded(n) \/ TaskFailed(n) \/ HandlerReturns(n) \/ NextResult(n)
  BY <1>15, TaskSucceededOrder, TaskFailedOrder, HandlerReturnsOrder, NextResultOrder
<1> QED
  BY <1>1, <1>2, <1>3, <1>4, <1>5, <1>6, <1>7, <1>8, <1>9, <1>10, <1>11, <1>12, <1>13,
     <1>14, <1>15 DEF Step

LEMMA OrderNext ==
  ASSUME Lossless, PipeInv, OrderInv, [PipeNext]_pipeVars
  PROVE  OrderInv' /\ Serial
<1>1. PipeInv' BY InvNext
<1>2. CASE Step BY <1>1, <1>2, StepOrder
<1>3. CASE \E n \in Input : WorkerEnds(n) BY <1>3, WorkerEndsOrder
<1>4. CASE CancelForwarder BY <1>4, CancelForwarderOrder
<1>5. CASE Feed BY <1>5, FeedOrder
<1>6. CASE Consume BY <1>6, ConsumeOrder
<1>7. CASE \E t \in {Producer, Consumer} : Wake(t) BY <1>7, WakeOrder
<1>8. CASE \E c \in Chan : CloseEnd(c) BY <1>8, CloseEndOrder
<1>9. CASE UNCHANGED pipeVars
  <2>1. UNCHANGED vars /\ UNCHANGED ownVars BY <1>9 DEF pipeVars
  <2>2. DueItem' = DueItem /\ inputClosed' = inputClosed
    BY <2>1 DEF DueItem, ownVars, flowVars, outVars
  <2>3. SidesOK' BY <2>1, <2>2, SidesStay DEF OrderInv
  <2> QED BY <2>1, <2>3, Unmoved, OthersOrder
<1> QED
  BY <1>2, <1>3, <1>4, <1>5, <1>6, <1>7, <1>8, <1>9 DEF PipeNext

(* What the forwarder has put, what it knows and whose turn it is agree     *)
(* with what came out, at every moment and not only at the end, when no     *)
(* value is lost on purpose. *)
THEOREM OrderInvariant ==
  ASSUME Lossless
  PROVE  PipeSpec => []OrderInv
<1>1. PipeInit => OrderInv BY OrderInit
<1>2. PipeInv /\ OrderInv /\ [PipeNext]_pipeVars => OrderInv' BY OrderNext
<1> QED BY <1>1, <1>2, PipeInvariant, PTL DEF PipeSpec

(* A forwarder that ends because its input did has delivered every output   *)
(* of every value that was put to the source. *)
THEOREM DrainsBeforeEnd ==
  ASSUME Lossless
  PROVE  PipeSpec => []DrainedBeforeEnd
<1>1. PipeInv /\ OrderInv => DrainedBeforeEnd
  <2> SUFFICES ASSUME PipeInv, OrderInv, end = "drained" PROVE DrainedBeforeEnd
    BY DEF DrainedBeforeEnd
  <2>1. /\ inputClosed /\ nextOutput = admitted + 1 /\ Len(received[Source]) = admitted
    BY DEF OrderInv, DrainOK
  <2>2. AtEnd(Source)
    <3>1. closed[Source] /\ buffer[Source] = <<>> /\ puts[Source] = {}
      BY <2>1 DEF OrderInv, SidesOK, Shut
    <3> QED BY <3>1 DEF AtEnd, Live
  <2>3. ASSUME NEW n \in 1..admitted
        PROVE  made[n] # NotYet /\ \A i \in 1..made[n] : CameOut(n, i)
    <3>1. n \in Input /\ n < nextOutput BY <2>1, NumbersOK
    <3>2. made[n] # NotYet BY <3>1 DEF OrderInv, MadeOK
    <3>3. made[n] \in 0..Fan /\ Fan \in Nat BY <3>1, <3>2, MadeType
    <3>4. \A i \in 1..made[n] : i \in 1..Fan /\ i <= made[n] BY <3>3
    <3> QED BY <3>1, <3>2, <3>4 DEF OrderInv, ExactOK
  <2> QED BY <2>1, <2>2, <2>3 DEF DrainedBeforeEnd, CameOut
<1> QED BY <1>1, PipeInvariant, OrderInvariant, PTL

(* pipe and pipeline keep their promise: the outputs come out in the order  *)
(* of their inputs, none left out, none twice, whatever order the threads   *)
(* end in and whatever the handler replaces, fails or is cancelled. *)
THEOREM OutputsInOrder ==
  ASSUME Lossless
  PROVE  PipeSpec => InOrder
<1>1. PipeInit => Promise!Init BY OrderInit
<1>2. PipeInv /\ OrderInv /\ [PipeNext]_pipeVars => [Promise!Next]_(Promise!vars)
  BY OrderNext DEF Serial
<1> QED BY <1>1, <1>2, PipeInvariant, OrderInvariant, PTL DEF PipeSpec, InOrder, Promise!Spec
=============================================================================
