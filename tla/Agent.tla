-------------------------------- MODULE Agent --------------------------------
(***************************************************************************)
(* An agent of basilisp.lang.agent: a value, a queue of actions, and a      *)
(* lease (_active) that at most one thread holds while it runs an action or *)
(* handles a failure.  Each block of the code under the agent's lock is one *)
(* step; an action, an error handler and a wait run outside it.             *)
(*                                                                         *)
(* Clients are the threads that call the agent; a runner is the thread of   *)
(* an executor, or of a future's callback, that serves one submitted        *)
(* _run_one.  An action is the number of its submission and the executor it *)
(* was dispatched to; the value is the sequence of actions applied since    *)
(* the last reset.  An action fails if its function raises or the validator *)
(* rejects its result.  A watch never calls back into the agent; one that   *)
(* raises after an action changes nothing but what the executor logs.       *)
(***************************************************************************)
EXTENDS Naturals, Sequences, FiniteSets

CONSTANTS
  Client, Runner,
  Executor,
  Ops,          \* bound: operations, beside sends, that clients use
  Modes,        \* bound: error modes the agent may be created with
  MaxSends      \* bound: actions submitted

Mode    == {"fail", "continue"}
OpKind  == {"await", "await-agent", "timeout", "restart", "clear-error",
            "set-error-mode", "shutdown"}
Proc    == Client \cup Runner
Nothing == 0

ASSUME AgentAssumption ==
  /\ Client \cap Runner = {}
  /\ Ops \subseteq OpKind
  /\ Modes \subseteq Mode
  /\ MaxSends \in Nat

VARIABLES
  state, queue, active, error, mode,
  down,       \* executors that have been shut down
  pc,         \* the phase of every thread
  doing,      \* the action a runner has taken from the queue
  seen,       \* the value it read as it took it
  barrier,    \* the action whose completion a client awaits; Nothing: any
  sent,       \* actions submitted so far
  refused     \* actions whose submission raised

runnerVars == <<doing, seen>>
clientVars == <<barrier, sent, refused>>
vars == <<state, queue, active, error, mode, down, pc, runnerVars, clientVars>>

Action      == [id : Nat, executor : Executor]
ClientPhase == {"idle", "waiting", "asleep", "error", "handler"}
RunnerPhase == {"free", "scheduled", "running", "error", "handler"}

Failed  == error /\ mode = "fail"
Rest(p) == IF p \in Client THEN "idle" ELSE "free"


\* Mutant: notify() instead of notify_all().
NotifyOne ==
  [p \in Proc |-> IF pc[p] = "asleep" /\ p = CHOOSE q \in Proc : pc[q] = "asleep"
                  THEN "waiting" ELSE pc[p]]

Notify == [p \in Proc |-> IF pc[p] = "asleep" THEN "waiting" ELSE pc[p]]

Init ==
  /\ state = <<>> /\ queue = <<>> /\ active = FALSE
  /\ error = FALSE /\ mode \in Modes
  /\ down = {}
  /\ pc = [p \in Proc |-> Rest(p)]
  /\ doing = [w \in Runner |-> Nothing]
  /\ seen = [w \in Runner |-> <<>>]
  /\ barrier = [c \in Client |-> Nothing]
  /\ sent = 0 /\ refused = {}
----------------------------------------------------------------------------
(* _schedule_next, called with the queue q by thread p, which then goes on  *)
(* to phase s.  An executor that is down refuses the oldest action: the     *)
(* caller drops it, keeps the lease and handles the failure.                *)

\* Mutant: the refused action stays in the queue.
RefuseAndKeep(p, q, pcs) ==
  /\ q # <<>> /\ Head(q).executor \in down
  /\ active' = TRUE
  /\ queue' = q
  /\ pc' = [pcs EXCEPT ![p] = "error"]

Refuse(p, q, pcs) ==
  /\ q # <<>> /\ Head(q).executor \in down
  /\ active' = TRUE
  /\ queue' = Tail(q)
  /\ pc' = [pcs EXCEPT ![p] = "error"]

\* Mutant: the caller may have to run the action itself.
RunnerOrCaller(p) == {w \in Proc : w = p \/ pc[w] = "free"}

FreeRunner(p) == {w \in Runner : w = p \/ pc[w] = "free"}

Hand(p, q, s, pcs) ==
  /\ q # <<>> /\ Head(q).executor \notin down
  /\ active' = TRUE
  /\ queue' = q
  /\ \E w \in FreeRunner(p) : pc' = [pcs EXCEPT ![p] = s, ![w] = "scheduled"]

\* Mutant: the lease is given up and waiting threads are not told.
GoIdleQuietly(p, s) ==
  /\ active' = FALSE
  /\ pc' = [pc EXCEPT ![p] = s]

GoIdle(p, s) ==
  /\ active' = FALSE
  /\ pc' = [Notify EXCEPT ![p] = s]

ScheduleNext(p, q, s, pcs) ==
  \/ q = <<>> /\ queue' = q /\ GoIdle(p, s)
  \/ Hand(p, q, s, pcs)
  \/ Refuse(p, q, pcs)

(* Agent.submit. *)
Enqueue(c, q, s) ==
  /\ active
  /\ queue' = q
  /\ pc' = [pc EXCEPT ![c] = s]
  /\ UNCHANGED <<active, refused>>

StartQueue(c, q, s) ==
  /\ ~active
  /\ \/ Hand(c, q, s, pc) /\ UNCHANGED refused
     \/ Refuse(c, q, pc) /\ refused' = refused \cup {sent'}

Submit(c, e, s) ==
  /\ pc[c] = "idle"
  /\ sent < MaxSends
  /\ ~Failed
  /\ sent' = sent + 1
  /\ LET q == Append(queue, [id |-> sent', executor |-> e])
     IN  Enqueue(c, q, s) \/ StartQueue(c, q, s)
  /\ UNCHANGED <<state, error, mode, down, runnerVars>>

Send(c) ==
  \E e \in Executor : Submit(c, e, "idle") /\ UNCHANGED barrier

(* await: an action of its own, then a wait that a failure does not end.   *)
Await(c) ==
  /\ "await" \in Ops
  /\ \E e \in Executor : Submit(c, e, "waiting")
  /\ barrier' = [barrier EXCEPT ![c] = sent']

AwaitAgent(c) ==
  /\ "await-agent" \in Ops
  /\ pc[c] = "idle"
  /\ pc' = [pc EXCEPT ![c] = "waiting"]
  /\ barrier' = [barrier EXCEPT ![c] = Nothing]
  /\ UNCHANGED <<state, queue, active, error, mode, down, runnerVars, sent, refused>>

(* The predicate await_completion waits for. *)
Complete(c) ==
  /\ ~active
  /\ queue = <<>> \/ Failed
  /\ barrier[c] = Nothing \/ ~Failed

Check(c) ==
  /\ pc[c] = "waiting"
  /\ pc' = [pc EXCEPT ![c] = IF Complete(c) THEN "idle" ELSE "asleep"]
  /\ UNCHANGED <<state, queue, active, error, mode, down, runnerVars, clientVars>>

TimesOut(c) ==
  /\ "timeout" \in Ops
  /\ pc[c] = "asleep"
  /\ pc' = [pc EXCEPT ![c] = "idle"]
  /\ UNCHANGED <<state, queue, active, error, mode, down, runnerVars, clientVars>>
----------------------------------------------------------------------------
(* Agent._run_one.  A runner always finds its action in the queue.         *)
Start(w) ==
  /\ pc[w] = "scheduled"
  /\ IF queue = <<>>
     THEN GoIdle(w, "free") /\ UNCHANGED <<queue, doing, seen>>
     ELSE /\ queue' = Tail(queue)
          /\ doing' = [doing EXCEPT ![w] = Head(queue).id]
          /\ seen' = [seen EXCEPT ![w] = state]
          /\ pc' = [pc EXCEPT ![w] = "running"]
          /\ UNCHANGED active
  /\ UNCHANGED <<state, error, mode, down, clientVars>>

Done(w) ==
  /\ doing' = [doing EXCEPT ![w] = Nothing]
  /\ seen' = [seen EXCEPT ![w] = <<>>]

Succeeds(w) ==
  /\ pc[w] = "running"
  /\ state' = Append(seen[w], doing[w])
  /\ Done(w)
  /\ ScheduleNext(w, queue, "free", pc)
  /\ UNCHANGED <<error, mode, down, clientVars>>

Fails(w) ==
  /\ pc[w] = "running"
  /\ Done(w)
  /\ pc' = [pc EXCEPT ![w] = "error"]
  /\ UNCHANGED <<state, queue, active, error, mode, down, clientVars>>

(* _handle_pre_start_failure: the future ended without running _run_one.   *)

\* Mutant: nobody observes the future.
FailsSilently(w) ==
  /\ pc[w] = "scheduled"
  /\ active /\ queue # <<>>
  /\ pc' = [pc EXCEPT ![w] = "free"]
  /\ UNCHANGED <<state, queue, active, error, mode, down, runnerVars, clientVars>>

FailsToStart(w) ==
  /\ pc[w] = "scheduled"
  /\ active /\ queue # <<>>
  /\ queue' = Tail(queue)
  /\ pc' = [pc EXCEPT ![w] = "error"]
  /\ UNCHANGED <<state, active, error, mode, down, runnerVars, clientVars>>

(* _handle_failure: record the error, call the handler, give up the lease. *)

\* Mutant: the lease is given up before the handler runs.
RecordAndRelease(p) ==
  /\ pc[p] = "error"
  /\ error' = TRUE /\ active' = FALSE
  /\ pc' = [pc EXCEPT ![p] = "handler"]
  /\ UNCHANGED <<state, queue, mode, down, runnerVars, clientVars>>

Record(p) ==
  /\ pc[p] = "error"
  /\ error' = TRUE
  /\ pc' = [pc EXCEPT ![p] = "handler"]
  /\ UNCHANGED <<state, queue, active, mode, down, runnerVars, clientVars>>

\* Mutant: a failed agent goes on to its next action.
GoOn(p) == ScheduleNext(p, queue, Rest(p), pc) /\ UNCHANGED error

Stop(p) == GoIdle(p, Rest(p)) /\ UNCHANGED <<queue, error>>

\* Mutant: the actions behind the failed one are not scheduled.
ContinueIdle(p) == error' = FALSE /\ GoIdle(p, Rest(p)) /\ UNCHANGED queue

Continue(p) ==
  /\ error' = FALSE \/ UNCHANGED error     \* the handler returned, or raised
  /\ ScheduleNext(p, queue, Rest(p), pc)

Handled(p) ==
  /\ pc[p] = "handler"
  /\ \/ mode = "continue" /\ Continue(p)
     \/ mode = "fail" /\ Stop(p)
  /\ UNCHANGED <<state, mode, down, runnerVars, clientVars>>
----------------------------------------------------------------------------
\* Mutant: restart does not look at the lease.
RestartAnyTime(c) == "restart" \in Ops /\ pc[c] = "idle"

MayRestart(c) == "restart" \in Ops /\ pc[c] = "idle" /\ ~active

(* Agent.restart; a watch that raises leaves the new value and the error.  *)
Restart(c) ==
  /\ MayRestart(c)
  /\ state' \in {state, <<>>}
  /\ error' = FALSE
  /\ \E q \in {queue, <<>>} : ScheduleNext(c, q, "idle", Notify)
  /\ UNCHANGED <<mode, down, runnerVars, clientVars>>

RestartWatchRaises(c) ==
  /\ MayRestart(c)
  /\ state' = <<>>
  /\ UNCHANGED <<queue, active, error, mode, down, pc, runnerVars, clientVars>>

ClearError(c) ==
  /\ "clear-error" \in Ops
  /\ pc[c] = "idle"
  /\ error' = FALSE
  /\ pc' = Notify
  /\ UNCHANGED <<state, queue, active, mode, down, runnerVars, clientVars>>

SetErrorMode(c) ==
  /\ "set-error-mode" \in Ops
  /\ pc[c] = "idle"
  /\ mode' \in Mode
  /\ UNCHANGED <<state, queue, active, error, down, pc, runnerVars, clientVars>>

(* shutdown-agents, or the owner of an executor shutting it down. *)
Shutdown(e) ==
  /\ "shutdown" \in Ops
  /\ down' = down \cup {e}
  /\ UNCHANGED <<state, queue, active, error, mode, pc, runnerVars, clientVars>>

(* The steps that the code takes by itself. *)
Runs(w) == Start(w) \/ Succeeds(w) \/ Fails(w) \/ FailsToStart(w)
Fault(p) == Record(p) \/ Handled(p)

Calls(c) ==
  \/ Send(c) \/ Await(c) \/ AwaitAgent(c) \/ TimesOut(c)
  \/ Restart(c) \/ RestartWatchRaises(c) \/ ClearError(c) \/ SetErrorMode(c)

Next ==
  \/ \E c \in Client : Calls(c) \/ Check(c)
  \/ \E w \in Runner : Runs(w)
  \/ \E p \in Proc : Fault(p)
  \/ \E e \in Executor : Shutdown(e)

Spec == Init /\ [][Next]_vars

(* Executors run or fail what they accepted, actions and handlers return,   *)
(* and a woken thread takes the lock again.  Nobody has to call the agent.  *)
FairSpec ==
  /\ Spec
  /\ \A w \in Runner : WF_vars(Runs(w))
  /\ \A p \in Proc : WF_vars(Fault(p))
  /\ \A c \in Client : WF_vars(Check(c))
=============================================================================
