-------------------------------- MODULE Channel --------------------------------
(***************************************************************************)
(* The channels of basilisp.concurrent_channel: put, take, offer, poll,     *)
(* alts, close and timeout, called by the tasks of one event loop.  A task  *)
(* that finds no operation ready leaves a waiter on every channel it asked  *)
(* for, all of them sharing one future, and sleeps.  Whoever resolves the   *)
(* future does so in a step of its own; the sleeping task goes on in a      *)
(* later step, and may be cancelled in between.  What a task does from one  *)
(* await to the next is one step.                                           *)
(*                                                                         *)
(* Calls are numbered; the number of a call is the value it puts, and it    *)
(* orders the waiters of a channel, which are appended to its deques and    *)
(* popped from the left.  put and take are requests of one port, alts of    *)
(* several, in the order in which alts tries them; a waiter of a selection  *)
(* that asks for a channel twice stands for both entries.                   *)
(***************************************************************************)
EXTENDS Naturals, Sequences

CONSTANTS
  Task, Chan,
  Timer,        \* channels made by timeout
  Kinds,        \* bound: how the channels may be created
  Requests,     \* bound: what the tasks ask for, a sequence of ports each
  MaxCalls      \* bound: calls made

Port   == [chan : Chan, put : BOOLEAN]
Policy == {"fixed", "sliding", "dropping"}
Kind   == [capacity : Nat, policy : Policy]
Call   == 1..MaxCalls
Nobody == 0

ASSUME ChannelAssumption ==
  /\ Timer \subseteq Chan
  /\ Kinds \subseteq [Chan -> Kind]
  /\ \A k \in Kinds, c \in Chan : k[c].capacity = 0 => k[c].policy = "fixed"
  /\ Requests \subseteq Seq(Port)
  /\ MaxCalls \in Nat

VARIABLES
  kind, closed, buffer, puts, takes,
  future,     \* what became of the call a task sleeps in
  call,       \* the number of that call
  on,         \* the channels it left waiters on
  doomed,     \* the task was cancelled after its future had been resolved
  calls,      \* calls made so far
  accepted,   \* the puts that were told they succeeded
  received    \* the values taken from each channel, and by which call

chanVars == <<kind, closed, buffer, puts, takes>>
taskVars == <<call, on, doomed>>
pastVars == <<accepted, received>>
vars == <<chanVars, future, taskVars, calls, pastVars>>

Waiter == [task : Task, id : Call]

Answer(s) == [is |-> s, value |-> Nobody]
Given(v)  == [is |-> "value", value |-> v]
Status    == {"none", "pending", "cancelled", "true", "false", "nil"}

Idle(t) == future[t].is = "none"
Done(t) == future[t].is \notin {"none", "pending"}

(* _Waiter.active *)
Active(w) == call[w.task] = w.id /\ future[w.task].is = "pending"

\* Mutant: a waiter whose selection is over is matched all the same.
Anyone(W) == W

Live(W) == {w \in W : Active(w)}

\* Mutant: the deques are popped from the right.
Newest(W) == {w \in W : \A x \in W : x.id <= w.id}

Oldest(W) == {w \in W : \A x \in W : w.id <= x.id}

\* Mutant: off by one.
RoomForOneMore(c) == Len(buffer[c]) <= kind[c].capacity

HasRoom(c) == Len(buffer[c]) < kind[c].capacity

Init ==
  /\ kind \in Kinds
  /\ closed = [c \in Chan |-> FALSE]
  /\ buffer = [c \in Chan |-> <<>>]
  /\ puts = [c \in Chan |-> {}]
  /\ takes = [c \in Chan |-> {}]
  /\ future = [t \in Task |-> Answer("none")]
  /\ call = [t \in Task |-> Nobody]
  /\ on = [t \in Task |-> {}]
  /\ doomed = [t \in Task |-> FALSE]
  /\ calls = 0
  /\ accepted = {}
  /\ received = [c \in Chan |-> <<>>]
----------------------------------------------------------------------------
(* _discard_inactive on the channels C; `put` and `take` leave the deque of *)
(* c to whom they are matched with.                                         *)
Discarded(q, C) == [d \in Chan |-> IF d \in C THEN Live(q[d]) ELSE q[d]]

Discard(C) == puts' = Discarded(puts, C) /\ takes' = Discarded(takes, C)

PopPut(c, C, w) ==
  /\ puts' = [Discarded(puts, C) EXCEPT ![c] = @ \ {w}]
  /\ takes' = Discarded(takes, C)

PopTake(c, C, w) ==
  /\ takes' = [Discarded(takes, C) EXCEPT ![c] = @ \ {w}]
  /\ puts' = Discarded(puts, C)

(* _Waiter.resolve, of a waiter that is active *)
Resolve(w, answer) == future' = [future EXCEPT ![w.task] = answer]

Accept(v) == accepted' = accepted \cup {v}

Receive(c, v, k) ==
  received' = [received EXCEPT ![c] = Append(@, [value |-> v, by |-> k])]

(* _try_put by call k, on an open channel; C: the channels tidied on the way *)
PutHanded(c, k, C) ==
  \E w \in Oldest(Live(takes[c])) :
    /\ PopTake(c, C, w)
    /\ Resolve(w, Given(k))
    /\ Accept(k) /\ Receive(c, k, w.id)
    /\ UNCHANGED buffer

PutStored(c, k, C) ==
  /\ Live(takes[c]) = {}
  /\ kind[c].capacity > 0
  /\ \/ HasRoom(c) /\ buffer' = [buffer EXCEPT ![c] = Append(@, k)]
     \/ /\ ~HasRoom(c) /\ kind[c].policy = "sliding"
        /\ buffer' = [buffer EXCEPT ![c] = Append(Tail(@), k)]
     \/ ~HasRoom(c) /\ kind[c].policy = "dropping" /\ UNCHANGED buffer
  /\ Discard(C)
  /\ Accept(k)
  /\ UNCHANGED <<future, received>>

PutRefused(C) ==
  /\ Discard(C)
  /\ UNCHANGED <<buffer, future, accepted, received>>

TryPut(c, k, C) ==
  \/ closed[c] /\ PutRefused(C)
  \/ ~closed[c] /\ PutHanded(c, k, C \cup {c})
  \/ ~closed[c] /\ PutStored(c, k, C \cup {c})

(* _try_take by call k.  A put waits only while the buffer is full, so that  *)
(* _fill_buffer finds room for one.                                          *)

\* Mutant: a take from the buffer wakes no put.
DrainBuffer(c, C) ==
  /\ buffer' = [buffer EXCEPT ![c] = Tail(@)]
  /\ Discard(C)
  /\ UNCHANGED <<future, accepted>>

FillBuffer(c, C) ==
  \/ /\ Live(puts[c]) = {}
     /\ buffer' = [buffer EXCEPT ![c] = Tail(@)]
     /\ Discard(C)
     /\ UNCHANGED <<future, accepted>>
  \/ \E w \in Oldest(Live(puts[c])) :
       /\ buffer' = [buffer EXCEPT ![c] = Append(Tail(@), w.id)]
       /\ PopPut(c, C, w)
       /\ Resolve(w, Answer("true"))
       /\ Accept(w.id)

TakeStored(c, k, C) ==
  /\ buffer[c] # <<>>
  /\ Receive(c, Head(buffer[c]), k)
  /\ FillBuffer(c, C)

TakeHanded(c, k, C) ==
  /\ buffer[c] = <<>>
  /\ \E w \in Oldest(Live(puts[c])) :
       /\ PopPut(c, C, w)
       /\ Resolve(w, Answer("true"))
       /\ Accept(w.id) /\ Receive(c, w.id, k)
  /\ UNCHANGED buffer

TakeNil(c, C) ==
  /\ buffer[c] = <<>> /\ Live(puts[c]) = {} /\ closed[c]
  /\ Discard(C)
  /\ UNCHANGED <<buffer, future, accepted, received>>

TryTake(c, k, C) ==
  \/ TakeStored(c, k, C)
  \/ TakeHanded(c, k, C)
  \/ TakeNil(c, C)

(* What _try_put and _try_take find when they do not ask to wait. *)
PutReady(c) ==
  \/ closed[c] \/ Live(takes[c]) # {} \/ HasRoom(c)
  \/ kind[c].policy # "fixed"

TakeReady(c) == buffer[c] # <<>> \/ Live(puts[c]) # {} \/ closed[c]

Ready(p) == IF p.put THEN PutReady(p.chan) ELSE TakeReady(p.chan)

Try(p, k, C) ==
  IF p.put THEN TryPut(p.chan, k, C) ELSE TryTake(p.chan, k, C \cup {p.chan})

ChansOf(ports) == {ports[i].chan : i \in DOMAIN ports}
----------------------------------------------------------------------------
(* The first port that is ready, in the order of the request. *)
Succeed(t, ports) ==
  /\ Idle(t)
  /\ calls < MaxCalls
  /\ calls' = calls + 1
  /\ \E i \in DOMAIN ports :
       /\ Ready(ports[i])
       /\ \A j \in 1..(i - 1) : ~Ready(ports[j])
       /\ Try(ports[i], calls', {ports[j].chan : j \in 1..(i - 1)})
  /\ UNCHANGED <<kind, closed, taskVars>>

NoneReady(ports) == \A i \in DOMAIN ports : ~Ready(ports[i])

(* put, take and alts without a default leave their waiters. *)
Enqueued(q, ports, put, w) ==
  LET asked == {ports[i].chan : i \in {j \in DOMAIN ports : ports[j].put = put}}
  IN  [d \in Chan |-> IF d \in asked THEN q[d] \cup {w} ELSE q[d]]

Wait(t, ports) ==
  /\ Idle(t)
  /\ calls < MaxCalls
  /\ calls' = calls + 1
  /\ NoneReady(ports)
  /\ LET w == [task |-> t, id |-> calls']
         C == ChansOf(ports)
     IN  /\ puts' = Enqueued(Discarded(puts, C), ports, TRUE, w)
         /\ takes' = Enqueued(Discarded(takes, C), ports, FALSE, w)
         /\ on' = [on EXCEPT ![t] = C]
  /\ future' = [future EXCEPT ![t] = Answer("pending")]
  /\ call' = [call EXCEPT ![t] = calls']
  /\ UNCHANGED <<kind, closed, buffer, doomed, pastVars>>

(* offer, poll, and alts with a default. *)
GiveUp(ports) ==
  /\ NoneReady(ports)
  /\ Discard(ChansOf(ports))
  /\ UNCHANGED <<kind, closed, buffer, future, taskVars, calls, pastVars>>

(* The sleeping task goes on: its call returns, or raises if it was         *)
(* cancelled.                                                               *)

\* Mutant: only a selection that was won tidies its channels.
TidyIfWon(t) ==
  /\ Done(t)
  /\ Discard(IF future[t].is = "cancelled" THEN {} ELSE on[t])
  /\ future' = [future EXCEPT ![t] = Answer("none")]
  /\ call' = [call EXCEPT ![t] = Nobody]
  /\ on' = [on EXCEPT ![t] = {}]
  /\ doomed' = [doomed EXCEPT ![t] = FALSE]
  /\ UNCHANGED <<kind, closed, buffer, calls, pastVars>>

Resume(t) ==
  /\ Done(t)
  /\ Discard(on[t])
  /\ future' = [future EXCEPT ![t] = Answer("none")]
  /\ call' = [call EXCEPT ![t] = Nobody]
  /\ on' = [on EXCEPT ![t] = {}]
  /\ doomed' = [doomed EXCEPT ![t] = FALSE]
  /\ UNCHANGED <<kind, closed, buffer, calls, pastVars>>

(* Task.cancel: the future is cancelled with the task unless it is done.    *)
Cancel(t) ==
  /\ \/ /\ future[t].is = "pending"
        /\ future' = [future EXCEPT ![t] = Answer("cancelled")]
        /\ UNCHANGED doomed
     \/ /\ Done(t)
        /\ doomed' = [doomed EXCEPT ![t] = TRUE]
        /\ UNCHANGED future
  /\ UNCHANGED <<chanVars, call, on, calls, pastVars>>

Waits(W, t) == \E w \in Live(W) : w.task = t

\* Mutant: close wakes the blocked puts only.
WokenPut(c, t) == IF Waits(puts[c], t) THEN Answer("false") ELSE future[t]

Woken(c, t) ==
  IF Waits(puts[c], t) THEN Answer("false")
  ELSE IF Waits(takes[c], t) /\ buffer[c] = <<>> THEN Answer("nil")
  ELSE future[t]

Close(c) ==
  /\ ~closed[c]
  /\ closed' = [closed EXCEPT ![c] = TRUE]
  /\ future' = [t \in Task |-> Woken(c, t)]
  /\ puts' = [puts EXCEPT ![c] = {}]
  /\ takes' = [takes EXCEPT ![c] = IF buffer[c] = <<>> THEN {} ELSE Live(@)]
  /\ UNCHANGED <<kind, buffer, taskVars, calls, pastVars>>

Next ==
  \/ \E t \in Task, ports \in Requests : Succeed(t, ports) \/ Wait(t, ports)
  \/ \E ports \in Requests : GiveUp(ports)
  \/ \E t \in Task : Resume(t) \/ Cancel(t)
  \/ \E c \in Chan : Close(c)

Spec == Init /\ [][Next]_vars

(* The event loop runs the tasks that are ready and the timers that expire. *)
FairSpec ==
  /\ Spec
  /\ \A t \in Task : WF_vars(Resume(t))
  /\ \A c \in Timer : WF_vars(Close(c))
=============================================================================
