------------------------------ MODULE MCPipeline ------------------------------
(* Instances of pipe and pipeline small enough for TLC. *)
EXTENDS PipelineProps

Tasks == {Producer, Forwarder, Consumer}
Chans == {Source, Destination}

(* From hand to hand on one side, a buffer of one on the other. *)
AllKinds ==
  {[c \in Chans |-> [capacity |-> IF c = one THEN 1 ELSE 0, policy |-> "fixed"]]
     : one \in Chans}

Copy(closes) == [pipe |-> TRUE, handler |-> FALSE, closeOutput |-> closes]
Transform(handles, closes) ==
  [pipe |-> FALSE, handler |-> handles, closeOutput |-> closes]

AllPrograms ==
  {Copy(TRUE), Transform(TRUE, TRUE), Transform(FALSE, FALSE)}
=============================================================================
