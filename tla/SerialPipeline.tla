---------------------------- MODULE SerialPipeline ----------------------------
(***************************************************************************)
(* What pipe and pipeline promise, without tasks, threads or channels: each *)
(* input gives some number of outputs, and the outputs are delivered one    *)
(* after the other in the order of the inputs, none left out, none twice.   *)
(***************************************************************************)
EXTENDS Naturals, Sequences

CONSTANTS
  Input,     \* the inputs, numbered in the order in which they are put
  Fan,       \* how many outputs an input gives at most
  NotYet     \* it is not known how many

VARIABLES
  made,      \* the number of outputs of each input
  delivered  \* the outputs delivered: of which input, and the how-manieth

vars == <<made, delivered>>

Init ==
  /\ made = [n \in Input |-> NotYet]
  /\ delivered = <<>>

Make(n) ==
  /\ made[n] = NotYet
  /\ \E k \in 0..Fan : made' = [made EXCEPT ![n] = k]
  /\ UNCHANGED delivered

Known(n) == made[n] # NotYet

(* Output i of n comes first of all those that have not been delivered. *)
Due(n, i) ==
  LET done == {delivered[k] : k \in DOMAIN delivered}
  IN  /\ <<n, i>> \notin done
      /\ \A j \in 1..(i - 1) : <<n, j>> \in done
      /\ \A m \in Input : m < n =>
           Known(m) /\ \A j \in 1..made[m] : <<m, j>> \in done

Deliver(n, i) ==
  /\ Known(n) /\ i \in 1..made[n]
  /\ Due(n, i)
  /\ delivered' = Append(delivered, <<n, i>>)
  /\ UNCHANGED made

Next ==
  \E n \in Input : Make(n) \/ \E i \in 1..Fan : Deliver(n, i)

Spec == Init /\ [][Next]_vars
=============================================================================
