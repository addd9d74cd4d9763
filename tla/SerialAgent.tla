----------------------------- MODULE SerialAgent -----------------------------
(***************************************************************************)
(* What an agent promises, without threads, executors or errors: submitted  *)
(* actions wait in the order they were submitted; one at a time, the oldest *)
(* is applied to the current value or given up; nothing else changes the    *)
(* value but a restart.  An action is the number of its submission, and the *)
(* value is the sequence of actions applied since the last reset.           *)
(***************************************************************************)
EXTENDS Naturals, Sequences

VARIABLES value, pending, submitted

vars == <<value, pending, submitted>>

Init == value = <<>> /\ pending = <<>> /\ submitted = 0

(* The oldest action may be given up on the way: its executor refuses it.  *)
Keep(s)      == pending' = s
GiveUpOne(s) == s # <<>> /\ pending' = Tail(s)

Submit ==
  /\ submitted' = submitted + 1
  /\ Keep(Append(pending, submitted')) \/ GiveUpOne(Append(pending, submitted'))
  /\ UNCHANGED value

Apply ==
  /\ pending # <<>>
  /\ value' = Append(value, Head(pending))
  /\ Keep(Tail(pending)) \/ GiveUpOne(Tail(pending))
  /\ UNCHANGED submitted

GiveUp ==
  /\ GiveUpOne(pending)
  /\ UNCHANGED <<value, submitted>>

Restart ==
  /\ value' \in {value, <<>>}
  /\ Keep(pending) \/ Keep(<<>>) \/ GiveUpOne(pending)
  /\ UNCHANGED submitted

Next == Submit \/ Apply \/ GiveUp \/ Restart

Spec == Init /\ [][Next]_vars
=============================================================================
