----------------------------- MODULE ChannelProps -----------------------------
(***************************************************************************)
(* Correctness properties of channels.                                      *)
(***************************************************************************)
EXTENDS Channel

(* Every variable holds a value of its type; no buffer outgrows its capacity. *)
TypeOK ==
  /\ kind \in Kinds
  /\ closed \in [Chan -> BOOLEAN]
  /\ buffer \in [Chan -> Seq(Call)]
  /\ \A c \in Chan : Len(buffer[c]) <= kind[c].capacity
  /\ puts \in [Chan -> SUBSET Waiter]
  /\ takes \in [Chan -> SUBSET Waiter]
  /\ future \in [Task -> {Answer(s) : s \in Status} \cup {Given(v) : v \in Call}]
  /\ call \in [Task -> Call \cup {Nobody}]
  /\ on \in [Task -> SUBSET Chan]
  /\ doomed \in [Task -> BOOLEAN]
  /\ calls \in 0..MaxCalls
  /\ accepted \subseteq Call
  /\ received \in [Chan -> Seq([value : Call, by : Call])]

(* No two calls that could be matched both wait: a put waits only while the *)
(* channel is open, its buffer is full and no other call waits to take; a   *)
(* take only while it is open and empty.  So closing leaves nobody behind.  *)
NobodyWaitsInVain ==
  \A c \in Chan :
    /\ \A w \in Live(puts[c]) :
         /\ ~closed[c] /\ ~HasRoom(c)
         /\ \A x \in Live(takes[c]) : x.task = w.task
    /\ Live(takes[c]) # {} => ~closed[c] /\ buffer[c] = <<>>

(* docs: an operation that is cancelled, or a selection that was won by      *)
(* another operation, leaves no waiter behind once its call has ended.       *)
NoStaleWaiters ==
  \A c \in Chan : \A w \in puts[c] \cup takes[c] :
    call[w.task] = w.id /\ c \in on[w.task]

(* The calls waiting on a channel are served in the order in which they came. *)
InTurn ==
  \A c \in Chan :
    /\ \A w \in Live(puts[c]) :
         /\ \A i \in DOMAIN received[c] : received[c][i].value < w.id
         /\ \A i \in DOMAIN buffer[c] : buffer[c][i] < w.id
    /\ \A w \in Live(takes[c]) :
         \A i \in DOMAIN received[c] : received[c][i].by < w.id

(* Every channel is a bounded queue: values are taken in the order in which  *)
(* they were accepted, each at most once, none after a close but those       *)
(* stored before it; and a call, a selection too, has at most one effect.    *)
Takers == UNION {{received[c][i].by : i \in DOMAIN received[c]} : c \in Chan}

Serial == INSTANCE SerialChannels WITH
  items <- buffer, settled <- accepted \cup Takers

Linearizable == Serial!Spec

(* A call that waits on a timeout channel, alone or among others, returns.   *)
TimeoutEndsWait ==
  \A t \in Task : on[t] \cap Timer # {} ~> Idle(t)

(* docs/coreasyncdesign.rst: "Pending channel operations must remove their   *)
(* waiters and avoid lost values": a value that was accepted and handed to a *)
(* waiting take is returned by it.                                           *)
NoValueLost == \A t \in Task : doomed[t] => future[t].is # "value"
=============================================================================
