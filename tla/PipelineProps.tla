---------------------------- MODULE PipelineProps ----------------------------
(***************************************************************************)
(* Correctness properties of pipe and pipeline.                             *)
(***************************************************************************)
EXTENDS Pipeline

Place == {"created", "admit", "wait", "sort", "handle", "emit",
          "closing", "joining", "ended"}
Work  == {"none", "running", "ok", "failed", "cancelled"}
Ends  == {"none", "drained", "refused", "failed", "cancelled", "unborn", "unjoined"}

(* Every variable of the forwarder holds a value of its type, and no more   *)
(* inputs are in work than `parallelism`. *)
PipeTypeOK ==
  /\ program \in Programs
  /\ pc \in Place
  /\ inputClosed \in BOOLEAN
  /\ admitted \in 0..MaxInputs
  /\ pending \subseteq 1..admitted /\ Cardinality(pending) <= Parallelism
  /\ worker \in [Input -> Work]
  /\ batch \subseteq 1..admitted
  /\ completed \subseteq 1..admitted
  /\ nextOutput \in 1..(admitted + 1)
  /\ left \in 0..Fan
  /\ made \in [Input -> 0..Fan \cup {NotYet}]
  /\ fed \in 0..MaxInputs
  /\ cancels \in 0..MaxCancels
  /\ end \in Ends

Running == pc \notin {"closing", "joining", "ended"}

(* What became of an input the forwarder admitted. *)
Gone     == 1..(nextOutput - 1)
Leaving  == IF left > 0 THEN {nextOutput} ELSE {}
InRepair == IF pc = "handle" THEN {n \in batch : IsFirst(n, batch)} ELSE {}
Arrived  == IF pc = "admit" /\ future[Forwarder].is = "value" THEN 1 ELSE 0

(* While the forwarder runs, every value it took from the source is in one  *)
(* place and in one only: on the way to it, in work, being repaired by the  *)
(* error handler, waiting for its turn, being put, or delivered. *)
NothingForgotten ==
  Running =>
    /\ Gone \cup Leaving \cup completed \cup pending \cup InRepair = 1..admitted
    /\ (Gone \cup Leaving) \cap (completed \cup pending \cup InRepair) = {}
    /\ completed \cap pending = {}
    /\ InRepair \cap (completed \cup pending) = {}
    /\ Len(received[Source]) = admitted + Arrived

(* The outputs that came out, in the order in which they did. *)
Output(v) == <<((v - 1) \div Fan) + 1, ((v - 1) % Fan) + 1>>

Delivered ==
  [k \in DOMAIN received[Destination] |->
     Output(received[Destination][k].value)]
  \o [k \in DOMAIN buffer[Destination] |-> Output(buffer[Destination][k])]

(* docs/paritydecisions.rst: "a closed input must drain admitted work before *)
(* output close": when the forwarder ends because its input did, every value *)
(* that was put to the source is transformed and every output delivered. *)
DrainedBeforeEnd ==
  end = "drained" =>
    /\ AtEnd(Source) /\ Len(received[Source]) = admitted
    /\ \A n \in 1..admitted :
         /\ made[n] # NotYet
         /\ \A i \in 1..made[n] :
              \E k \in DOMAIN Delivered : Delivered[k] = <<n, i>>

(* Outputs come out in the order of their inputs, none is left out and none *)
(* comes twice, whatever the order in which the threads end, and also when  *)
(* the error handler replaces some. *)
Promise == INSTANCE SerialPipeline WITH delivered <- Delivered

InOrder == Promise!Spec

(* Once the source is closed the task ends, and unless it was cancelled     *)
(* before its first step or a second time while it was ending, an output    *)
(* that it owns is then closed, so that no consumer waits for ever. *)
Finishes ==
  closed[Source] ~>
    /\ pc = "ended"
    /\ program.closeOutput /\ end \notin {"unborn", "unjoined"} =>
         closed[Destination]
=============================================================================
