------------------------------ MODULE AgentProps ------------------------------
(***************************************************************************)
(* Correctness properties of an agent.                                      *)
(***************************************************************************)
EXTENDS Agent

(* Every variable holds a value of its type. *)
TypeOK ==
  /\ state \in Seq(Nat)
  /\ queue \in Seq(Action)
  /\ active \in BOOLEAN /\ error \in BOOLEAN
  /\ mode \in Mode
  /\ down \subseteq Executor
  /\ pc \in [Proc -> ClientPhase \cup RunnerPhase]
  /\ \A c \in Client : pc[c] \in ClientPhase
  /\ \A w \in Runner : pc[w] \in RunnerPhase
  /\ doing \in [Runner -> Nat]
  /\ seen \in [Runner -> Seq(Nat)]
  /\ barrier \in [Client -> Nat]
  /\ sent \in Nat
  /\ refused \subseteq Nat

(* The threads that act for the agent: they run or are about to run one of   *)
(* its actions, or handle a failure.                                         *)
Holders == {p \in Proc : pc[p] \in {"scheduled", "running", "error", "handler"}}

(* The agent is active exactly while one thread acts for it, and never do    *)
(* two; a runner that has been handed an action finds one in the queue; and  *)
(* the value an action computes from is still the agent's value.             *)
LeaseExclusive ==
  /\ active <=> Holders # {}
  /\ \A p, q \in Holders : p = q
  /\ \A w \in Runner : pc[w] = "scheduled" => queue # <<>>
  /\ \A w \in Runner : pc[w] = "running" => seen[w] = state

(* Actions taken from the queue and not yet applied, then those in it.       *)
Running == {w \in Runner : pc[w] = "running"}
Current == IF Running = {} THEN <<>> ELSE <<doing[CHOOSE w \in Running : TRUE]>>
Ids(q)  == [i \in DOMAIN q |-> q[i].id]
Pending == Current \o Ids(queue)

(* Actions take effect one at a time, in the order of their submission, each *)
(* on the value the one before it left, at most once; a failed or refused    *)
(* action leaves no trace; no update is lost to a restart.                   *)
Serial == INSTANCE SerialAgent WITH
  value <- state, pending <- Pending, submitted <- sent

Serialized == Serial!Spec

(* Actions wait in the queue of an idle agent only if it has failed: nothing *)
(* that was submitted is forgotten.  Holds while nobody clears the error or  *)
(* changes the error mode.                                                   *)
QueueNotStalled == queue # <<>> /\ ~active => Failed

(* A failed agent that runs nothing, a handler aside, goes on to run nothing *)
(* until it is restarted, its error is cleared or its mode changed.          *)
Quiet == \A w \in Runner : pc[w] \notin {"scheduled", "running"}

FailedRunsNothing == [][Failed /\ Quiet /\ Failed' => Quiet']_vars

(* An action whose submission raised is not run later, nor does it wait to.  *)
(* Holds while nobody clears the error or changes the error mode.            *)
RefusedNeverRuns ==
  LET At(s) == {s[i] : i \in DOMAIN s}
  IN  refused \cap (At(state) \cup At(Pending)) = {}

(* No step makes true what a thread sleeping in await_completion waits for   *)
(* without waking it, but for set-error-mode!, which wakes nobody.           *)
NoLostWakeup ==
  [][mode' = mode =>
       \A c \in Client :
         pc[c] = "asleep" /\ ~Complete(c) /\ Complete(c)' => pc'[c] # "asleep"]_vars

(* Every action submitted is applied, given up or left to a failed agent.    *)
EveryActionSettles ==
  \A i \in 1..MaxSends :
    i \in {Pending[k] : k \in DOMAIN Pending}
      ~> Failed \/ i \notin {Pending[k] : k \in DOMAIN Pending}

(* A wait ends once no more actions are sent, unless the agent fails.        *)
AwaitReturns ==
  \A c \in Client : pc[c] = "asleep" ~> pc[c] = "idle" \/ Failed
=============================================================================
