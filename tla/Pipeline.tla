------------------------------- MODULE Pipeline -------------------------------
(***************************************************************************)
(* pipe and pipeline of basilisp.concurrent_channel: a task that takes from *)
(* one channel and puts to another.  A pipeline transforms each input in a  *)
(* worker thread and keeps the outputs in the order of the inputs.  The     *)
(* channels are those of Channel, used by three tasks: a producer, the      *)
(* forwarder and a consumer; anybody may close either of them.              *)
(*                                                                         *)
(* The i-th value put to the source is i.  Of an output matter the input it *)
(* comes from and its place among the outputs of that input, which Item     *)
(* makes one number.  What the forwarder does from one await to the next is  *)
(* several steps here, but nobody else moves until it is suspended again.   *)
(***************************************************************************)
EXTENDS Channel, FiniteSets

CONSTANTS
  Producer, Forwarder, Consumer, Source, Destination,
  Programs,     \* bound: the calls of pipe and pipeline
  Parallelism,  \* bound: inputs in work at a time
  Fan, Yields,  \* bound: how many outputs an input may give, Fan at most
  MaxInputs,    \* bound: values put to the source
  MaxCancels,   \* bound: cancellations of the forwarder
  NotYet

Input   == 1..MaxInputs
Program == [pipe : BOOLEAN, handler : BOOLEAN, closeOutput : BOOLEAN]

ASSUME PipelineAssumption ==
  /\ Task = {Producer, Forwarder, Consumer}
  /\ Producer # Forwarder /\ Forwarder # Consumer /\ Consumer # Producer
  /\ Chan = {Source, Destination} /\ Source # Destination
  /\ Programs \subseteq Program
  /\ Parallelism \in Nat \ {0} /\ Fan \in Nat \ {0} /\ Yields \subseteq 0..Fan
  /\ MaxInputs \in Nat /\ MaxCancels \in Nat
  /\ NotYet \notin Nat

VARIABLES
  program,
  pc,           \* where the forwarder is
  inputClosed,  \* it was told that the source is at its end
  admitted,     \* inputs it has admitted, next_sequence
  pending,      \* those it has tasks for
  worker,       \* what the worker thread of an input does
  batch,        \* the finished tasks it still has to look at
  completed,    \* inputs whose outputs wait for their turn
  nextOutput,   \* the input whose turn it is
  left,         \* how many of its outputs are still to be put
  made,         \* the number of outputs of each input
  fed,          \* values put to the source
  cancels,
  end           \* how the forwarder came to its end

flowVars == <<inputClosed, admitted, pending, batch>>
outVars  == <<completed, nextOutput, left>>
envVars  == <<fed, cancels>>
ownVars  == <<program, pc, flowVars, worker, outVars, made, end>>
pipeVars == <<vars, ownVars, envVars>>

Item(n, i) == (n - 1) * Fan + i

PipeInit ==
  /\ Init
  /\ program \in Programs
  /\ pc = "created"
  /\ inputClosed = FALSE
  /\ admitted = 0
  /\ pending = {}
  /\ worker = [n \in Input |-> "none"]
  /\ batch = {}
  /\ completed = {}
  /\ nextOutput = 1
  /\ left = 0
  /\ made = [n \in Input |-> NotYet]
  /\ fed = 0
  /\ cancels = 0
  /\ end = "none"
----------------------------------------------------------------------------
(* put and take of a task: at once, or asleep on the channel until somebody *)
(* resolves the call, see Channel. *)
PutNow(t, c, v) ==
  /\ Idle(t) /\ PutReady(c)
  /\ TryPut(c, v, {})
  /\ UNCHANGED <<kind, closed, taskVars, calls>>

TakeNow(t, c, k) ==
  /\ Idle(t) /\ TakeReady(c)
  /\ TryTake(c, k, {c})
  /\ UNCHANGED <<kind, closed, taskVars, calls>>

Sleep(t, port, k) ==
  /\ Idle(t) /\ ~Ready(port)
  /\ LET w == [task |-> t, id |-> k]
         c == port.chan
     IN  /\ puts' = Enqueued(Discarded(puts, {c}), <<port>>, TRUE, w)
         /\ takes' = Enqueued(Discarded(takes, {c}), <<port>>, FALSE, w)
         /\ on' = [on EXCEPT ![t] = {c}]
  /\ future' = [future EXCEPT ![t] = Answer("pending")]
  /\ call' = [call EXCEPT ![t] = k]
  /\ UNCHANGED <<kind, closed, buffer, doomed, calls, pastVars>>

PutTo(c)    == [chan |-> c, put |-> TRUE]
TakeFrom(c) == [chan |-> c, put |-> FALSE]

AtEnd(c) == closed[c] /\ buffer[c] = <<>> /\ Live(puts[c]) = {}

(* The awaited call returns, or raises CancelledError. *)
Raises(t) == doomed[t] \/ future[t].is = "cancelled"
----------------------------------------------------------------------------
(* The two loops of _pipeline: admit, wait, emit.  _pipe is the case in      *)
(* which every input completes at once with one output. *)
\* Mutant: off by one.
LoopWithOneMore(ended, running) ==
  IF ~ended /\ Cardinality(running) <= Parallelism THEN "admit"
  ELSE IF running # {} THEN "wait"
  ELSE "closing"

\* Mutant: the loop ends with the input.
LoopWhileOpen(ended, running) ==
  IF ended THEN "closing"
  ELSE IF Cardinality(running) < Parallelism THEN "admit"
  ELSE "wait"

LoopHead(ended, running) ==
  IF ~ended /\ Cardinality(running) < Parallelism THEN "admit"
  ELSE IF running # {} THEN "wait"
  ELSE "closing"

Goto(place) == pc' = place

Stop(how) == Goto("closing") /\ end' = how

Proceed(ended, running) ==
  LET place == LoopHead(ended, running)
  IN  IF place = "closing" THEN Stop("drained") ELSE Goto(place) /\ UNCHANGED end

Start ==
  /\ pc = "created"
  /\ Goto("admit")
  /\ UNCHANGED <<vars, envVars, program, flowVars, worker, outVars, made, end>>

Admit ==
  LET n == admitted + 1
  IN  /\ admitted' = n
      /\ IF program.pipe
         THEN /\ completed' = completed \cup {n}
              /\ made' = [made EXCEPT ![n] = 1]
              /\ Goto("emit")
              /\ UNCHANGED <<pending, worker, end>>
         ELSE /\ pending' = pending \cup {n}
              /\ worker' = [worker EXCEPT ![n] = "running"]
              /\ Proceed(inputClosed, pending')
              /\ UNCHANGED <<completed, made>>
      /\ UNCHANGED <<program, inputClosed, batch, nextOutput, left>>

NoMoreInput ==
  /\ inputClosed' = TRUE
  /\ Proceed(TRUE, pending)
  /\ UNCHANGED <<program, admitted, pending, worker, batch, outVars, made>>

TakeInput ==
  /\ pc = "admit"
  /\ TakeNow(Forwarder, Source, admitted + 1)
  /\ IF AtEnd(Source) THEN NoMoreInput ELSE Admit
  /\ UNCHANGED envVars

AwaitInput ==
  /\ pc = "admit"
  /\ Sleep(Forwarder, TakeFrom(Source), admitted + 1)
  /\ UNCHANGED <<ownVars, envVars>>

InputArrives ==
  /\ pc = "admit"
  /\ Resume(Forwarder)
  /\ ~Raises(Forwarder)
  /\ IF future[Forwarder].is = "nil" THEN NoMoreInput ELSE Admit
  /\ UNCHANGED envVars
----------------------------------------------------------------------------
(* The worker threads: _transduce_one, on any number of the admitted inputs *)
(* at a time, and the end of the task that waits for it. *)
WorkerEnds(n) ==
  /\ worker[n] = "running"
  /\ \/ \E k \in Yields :
          /\ worker' = [worker EXCEPT ![n] = "ok"]
          /\ made' = [made EXCEPT ![n] = k]
     \/ worker' = [worker EXCEPT ![n] = "failed"] /\ UNCHANGED made
  /\ UNCHANGED <<vars, envVars, program, pc, flowVars, outVars, end>>

Finished == {n \in pending : worker[n] \in {"ok", "failed"}}

(* asyncio.wait, FIRST_COMPLETED *)
WaitReturns ==
  /\ pc = "wait"
  /\ Finished # {}
  /\ batch' = Finished
  /\ Goto("sort")
  /\ UNCHANGED <<vars, envVars, program, inputClosed, admitted, pending, worker,
                 outVars, made, end>>

IsFirst(n, S) == n \in S /\ \A m \in S : n <= m

(* The finished tasks, one after the other. *)
TaskSucceeded(n) ==
  /\ pc = "sort"
  /\ IsFirst(n, batch) /\ worker[n] = "ok"
  /\ batch' = batch \ {n}
  /\ pending' = pending \ {n}
  /\ completed' = completed \cup {n}
  /\ UNCHANGED <<vars, envVars, program, pc, inputClosed, admitted, worker,
                 nextOutput, left, made, end>>

TaskFailed(n) ==
  /\ pc = "sort"
  /\ IsFirst(n, batch) /\ worker[n] = "failed"
  /\ pending' = pending \ {n}
  /\ IF program.handler THEN Goto("handle") /\ UNCHANGED end ELSE Stop("failed")
  /\ UNCHANGED <<vars, envVars, program, inputClosed, admitted, batch, worker,
                 outVars, made>>

\* Mutant: an input that the handler drops has no result.
HandlerDrops(n) ==
  /\ pc = "handle"
  /\ IsFirst(n, batch)
  /\ \E k \in Yields : made' = [made EXCEPT ![n] = k]
  /\ batch' = batch \ {n}
  /\ completed' = IF made'[n] = 0 THEN completed ELSE completed \cup {n}
  /\ Goto("sort")
  /\ UNCHANGED <<vars, envVars, program, inputClosed, admitted, pending, worker,
                 nextOutput, left, end>>

(* The error handler ran in a thread and gave replacements, or raised. *)
HandlerReturns(n) ==
  /\ pc = "handle"
  /\ IsFirst(n, batch)
  /\ \E k \in Yields : made' = [made EXCEPT ![n] = k]
  /\ batch' = batch \ {n}
  /\ completed' = completed \cup {n}
  /\ Goto("sort")
  /\ UNCHANGED <<vars, envVars, program, inputClosed, admitted, pending, worker,
                 nextOutput, left, end>>

HandlerRaises ==
  /\ pc = "handle"
  /\ Stop("failed")
  /\ UNCHANGED <<vars, envVars, program, flowVars, worker, outVars, made>>

BatchDone ==
  /\ pc = "sort" /\ batch = {}
  /\ Goto("emit")
  /\ UNCHANGED <<vars, envVars, program, flowVars, worker, outVars, made, end>>
----------------------------------------------------------------------------
\* Mutant: whatever is completed is put, the earliest first.
AnyCompleted(n) == IsFirst(n, completed)

IsNext(n) == n = nextOutput /\ n \in completed

(* completed.pop(next_output) *)
NextResult(n) ==
  /\ pc = "emit" /\ left = 0
  /\ IsNext(n)
  /\ completed' = completed \ {n}
  /\ left' = made[n]
  /\ nextOutput' = IF made[n] = 0 THEN n + 1 ELSE n
  /\ UNCHANGED <<vars, envVars, program, pc, flowVars, worker, made, end>>

NothingDue ==
  /\ pc = "emit" /\ left = 0
  /\ ~\E n \in completed : IsNext(n)
  /\ Proceed(inputClosed, pending)
  /\ UNCHANGED <<vars, envVars, program, flowVars, worker, outVars, made>>

DueItem == Item(nextOutput, made[nextOutput] - left + 1)

(* A put that returned true or false. *)
PutDone ==
  /\ left' = left - 1
  /\ nextOutput' = IF left = 1 THEN nextOutput + 1 ELSE nextOutput
  /\ UNCHANGED <<pc, completed, end>>

Refused == Stop("refused") /\ UNCHANGED outVars

PutOutput ==
  /\ pc = "emit" /\ left > 0
  /\ PutNow(Forwarder, Destination, DueItem)
  /\ IF closed[Destination] THEN Refused ELSE PutDone
  /\ UNCHANGED <<envVars, program, flowVars, worker, made>>

AwaitOutput ==
  /\ pc = "emit" /\ left > 0
  /\ Sleep(Forwarder, PutTo(Destination), DueItem)
  /\ UNCHANGED <<ownVars, envVars>>

OutputReturns ==
  /\ pc = "emit" /\ left > 0
  /\ Resume(Forwarder)
  /\ ~Raises(Forwarder)
  /\ IF future[Forwarder].is = "false" THEN Refused ELSE PutDone
  /\ UNCHANGED <<envVars, program, flowVars, worker, made>>
----------------------------------------------------------------------------
(* The finally clause.  A thread that runs goes on, but the task that waits  *)
(* for its result is cancelled. *)
Abandon ==
  /\ pc = "closing"
  /\ worker' = [n \in Input |->
       IF n \in pending /\ worker[n] = "running" THEN "cancelled" ELSE worker[n]]
  /\ Goto("joining")
  /\ UNCHANGED <<vars, envVars, program, flowVars, outVars, made, end>>

\* Mutant: the output is closed only if the input came to its end.
CloseIfDrained ==
  IF program.closeOutput /\ end = "drained" /\ ~closed[Destination]
  THEN Close(Destination)
  ELSE UNCHANGED vars

CloseOutput ==
  IF program.closeOutput /\ ~closed[Destination]
  THEN Close(Destination)
  ELSE UNCHANGED vars

Leave ==
  /\ pc = "joining"
  /\ CloseOutput
  /\ Goto("ended")
  /\ UNCHANGED <<envVars, program, flowVars, worker, outVars, made, end>>

(* Task.cancel, of the forwarder.  Asleep on a channel it is cancelled as   *)
(* any task is, for which once is enough; elsewhere its await raises.       *)
(* Before its first step, and in the finally clause itself, it ends there   *)
(* and then. *)
CancelAsleep ==
  /\ pc \in {"admit", "emit"}
  /\ ~Raises(Forwarder)
  /\ Cancel(Forwarder)
  /\ UNCHANGED ownVars

CallRaises ==
  /\ pc \in {"admit", "emit"}
  /\ Resume(Forwarder)
  /\ Raises(Forwarder)
  /\ Stop("cancelled")
  /\ UNCHANGED <<envVars, program, flowVars, worker, outVars, made>>

CancelElsewhere ==
  /\ \/ pc \in {"wait", "handle"} /\ Stop("cancelled")
     \/ pc = "created" /\ Goto("ended") /\ end' = "unborn"
     \/ pc = "joining" /\ pending # {} /\ Goto("ended") /\ end' = "unjoined"
  /\ UNCHANGED <<vars, program, flowVars, worker, outVars, made>>

CancelForwarder ==
  /\ cancels < MaxCancels
  /\ cancels' = cancels + 1
  /\ CancelAsleep \/ CancelElsewhere
  /\ UNCHANGED fed
----------------------------------------------------------------------------
(* The producer and the consumer, and whoever closes their channels. *)
Feed ==
  /\ fed < MaxInputs /\ ~closed[Source]
  /\ fed' = fed + 1
  /\ PutNow(Producer, Source, fed') \/ Sleep(Producer, PutTo(Source), fed')
  /\ UNCHANGED <<ownVars, cancels>>

Consume ==
  /\ \/ TakeNow(Consumer, Destination, 1)
     \/ Sleep(Consumer, TakeFrom(Destination), 1)
  /\ UNCHANGED <<ownVars, envVars>>

Wake(t) ==
  /\ t \in {Producer, Consumer}
  /\ Resume(t)
  /\ UNCHANGED <<ownVars, envVars>>

CloseEnd(c) == Close(c) /\ UNCHANGED <<ownVars, envVars>>

(* What the forwarder does when the event loop runs it. *)
Step ==
  \/ Start \/ TakeInput \/ AwaitInput \/ InputArrives
  \/ WaitReturns \/ HandlerRaises \/ BatchDone
  \/ NothingDue \/ PutOutput \/ AwaitOutput \/ OutputReturns
  \/ Abandon \/ Leave \/ CallRaises
  \/ \E n \in Input :
       TaskSucceeded(n) \/ TaskFailed(n) \/ HandlerReturns(n) \/ NextResult(n)

(* It is before its first step, at an await, or at its end. *)
Suspended ==
  \/ pc \in {"created", "wait", "handle", "ended"}
  \/ pc = "joining" /\ pending # {}
  \/ ~Idle(Forwarder)

PipeNext ==
  \/ Step
  \/ /\ Suspended
     /\ \/ \E n \in Input : WorkerEnds(n)
        \/ CancelForwarder
        \/ Feed \/ Consume
        \/ \E t \in {Producer, Consumer} : Wake(t)
        \/ \E c \in Chan : CloseEnd(c)

PipeSpec == PipeInit /\ [][PipeNext]_pipeVars

(* The event loop runs every task that can go on, the transforms and the    *)
(* handler end, and the consumer takes until the destination is closed. *)
FairPipeSpec ==
  /\ PipeSpec
  /\ WF_pipeVars(Step)
  /\ \A n \in Input : WF_pipeVars(Suspended /\ WorkerEnds(n))
  /\ WF_pipeVars(Suspended /\ Wake(Consumer))
  /\ WF_pipeVars(Suspended /\ Consume)
=============================================================================
