------------------------------ MODULE AgentProofs ------------------------------
(***************************************************************************)
(* Proofs about an agent, for any clients, runners, executors, operations   *)
(* and number of actions.                                                   *)
(***************************************************************************)
EXTENDS AgentProps, SequenceTheorems, TLAPS

(* The time each leaf is given: most need a second, a busy machine needs more. *)
USE SMTT(60), ZenonT(60)

(* The phase a thread is in when it does nothing for the agent. *)
Resting(p, s) == s = Rest(p) \/ (p \in Client /\ s = "waiting")

(* Whoever schedules the next action leaves every variable well typed. *)
LEMMA ScheduleType ==
  ASSUME TypeOK, NEW p \in Proc, NEW q \in Seq(Action), NEW s, Resting(p, s),
         NEW pcs \in {pc, Notify}, ScheduleNext(p, q, s, pcs)
  PROVE  /\ queue' \in Seq(Action) /\ active' \in BOOLEAN
         /\ pc' \in [Proc -> ClientPhase \cup RunnerPhase]
         /\ \A c \in Client : pc'[c] \in ClientPhase
         /\ \A w \in Runner : pc'[w] \in RunnerPhase
<1> USE AgentAssumption DEF Proc, ClientPhase, RunnerPhase, Resting, Rest
<1>1. /\ pcs \in [Proc -> ClientPhase \cup RunnerPhase]
      /\ Notify \in [Proc -> ClientPhase \cup RunnerPhase]
      /\ \A c \in Client : pcs[c] \in ClientPhase /\ Notify[c] \in ClientPhase
      /\ \A w \in Runner : pcs[w] \in RunnerPhase /\ Notify[w] \in RunnerPhase
  BY DEF TypeOK, Notify
<1>2. CASE q = <<>> /\ queue' = q /\ GoIdle(p, s)
  BY <1>1, <1>2 DEF GoIdle
<1>3. CASE Hand(p, q, s, pcs)
  <2>1. PICK w \in Runner : pc' = [pcs EXCEPT ![p] = s, ![w] = "scheduled"]
    BY <1>3 DEF Hand, FreeRunner
  <2> QED
    BY <1>1, <1>3, <2>1 DEF Hand
<1>4. CASE Refuse(p, q, pcs)
  BY <1>1, <1>4 DEF Refuse
<1> QED
  BY <1>2, <1>3, <1>4 DEF ScheduleNext

(* If nobody else acts for the agent, scheduling the next action leaves at   *)
(* most one thread that does, and an action in the queue if it is to be run. *)
LEMMA ScheduleLease ==
  ASSUME TypeOK, NEW p \in Proc, NEW q \in Seq(Action), NEW s, Resting(p, s),
         NEW pcs \in {pc, Notify}, ScheduleNext(p, q, s, pcs), Holders \subseteq {p}
  PROVE  /\ active' <=> Holders' # {}
         /\ \A x, y \in Holders' : x = y
         /\ \A w \in Runner : pc'[w] = "scheduled" => queue' # <<>>
         /\ \A w \in Runner : pc'[w] # "running"
<1> USE AgentAssumption DEF Proc, Resting, Rest
<1>1. /\ pcs \in [Proc -> ClientPhase \cup RunnerPhase]
      /\ Notify \in [Proc -> ClientPhase \cup RunnerPhase]
  BY DEF TypeOK, Notify, ClientPhase, RunnerPhase
<1>2. \A x \in Proc \ {p} :
        /\ pcs[x] \notin {"scheduled", "running", "error", "handler"}
        /\ Notify[x] \notin {"scheduled", "running", "error", "handler"}
  BY DEF Notify, Holders
<1>3. CASE q = <<>> /\ queue' = q /\ GoIdle(p, s)
  BY <1>1, <1>2, <1>3 DEF GoIdle, Holders
<1>4. CASE Hand(p, q, s, pcs)
  <2>1. PICK w \in Runner : pc' = [pcs EXCEPT ![p] = s, ![w] = "scheduled"]
    BY <1>4 DEF Hand, FreeRunner
  <2>2. Holders' = {w}
    BY <1>1, <1>2, <2>1 DEF Holders
  <2> QED
    BY <1>1, <1>2, <1>4, <2>1, <2>2 DEF Hand, Holders
<1>5. CASE Refuse(p, q, pcs)
  <2>1. Holders' = {p}
    BY <1>1, <1>2, <1>5 DEF Refuse, Holders
  <2> QED
    BY <1>1, <1>2, <1>5, <2>1 DEF Refuse, Holders
<1> QED
  BY <1>3, <1>4, <1>5 DEF ScheduleNext

(* The call of _schedule_next in submit. *)
LEMMA StartQueueSchedules ==
  ASSUME NEW c, NEW q, NEW s, StartQueue(c, q, s)
  PROVE  ScheduleNext(c, q, s, pc)
BY DEF StartQueue, ScheduleNext
----------------------------------------------------------------------------
(* Submissions.                                                            *)

(* A queue to which an action was added is not empty. *)
LEMMA AppendNotEmpty ==
  ASSUME NEW S, NEW q \in Seq(S), NEW a \in S
  PROVE  Append(q, a) # <<>>
<1>1. Len(Append(q, a)) = Len(q) + 1 /\ Len(q) \in Nat
  OBVIOUS
<1>2. Len(<<>>) = 0
  OBVIOUS
<1> QED
  BY <1>1, <1>2

(* A client that submits goes to a resting phase unless it is refused. *)
LEMMA SubmitType ==
  ASSUME TypeOK, NEW c \in Client, NEW e \in Executor, NEW s \in {"idle", "waiting"},
         Submit(c, e, s)
  PROVE  /\ queue' \in Seq(Action) /\ active' \in BOOLEAN
         /\ pc' \in [Proc -> ClientPhase \cup RunnerPhase]
         /\ \A x \in Client : pc'[x] \in ClientPhase
         /\ \A w \in Runner : pc'[w] \in RunnerPhase
         /\ sent' \in Nat /\ refused' \subseteq Nat
<1> DEFINE q == Append(queue, [id |-> sent', executor |-> e])
<1>1. sent' \in Nat /\ q \in Seq(Action)
  BY DEF TypeOK, Submit, Action
<1>2. c \in Proc /\ Resting(c, s)
  BY DEF Proc, Resting, Rest
<1>3. CASE Enqueue(c, q, s)
  BY <1>1, <1>3, AgentAssumption
     DEF Enqueue, TypeOK, Proc, ClientPhase, RunnerPhase
<1>4. CASE StartQueue(c, q, s)
  <2>1. ScheduleNext(c, q, s, pc)
    BY <1>4, StartQueueSchedules
  <2>2. refused' \subseteq Nat
    BY <1>1, <1>4 DEF StartQueue, TypeOK
  <2> HIDE DEF q
  <2> QED
    BY <1>1, <1>2, <2>1, <2>2, ScheduleType
<1> QED
  BY <1>3, <1>4 DEF Submit

(* A submission takes the lease only if nobody holds it. *)
LEMMA SubmitLease ==
  ASSUME TypeOK, LeaseExclusive, NEW c \in Client, NEW e \in Executor,
         NEW s \in {"idle", "waiting"}, Submit(c, e, s)
  PROVE  LeaseExclusive'
<1> DEFINE q == Append(queue, [id |-> sent', executor |-> e])
<1>0. sent' \in Nat /\ q \in Seq(Action)
  BY DEF TypeOK, Submit, Action
<1>1. q # <<>>
  <2> DEFINE a == [id |-> sent', executor |-> e]
  <2>1. queue \in Seq(Action) /\ a \in Action
    BY <1>0 DEF TypeOK, Action
  <2> HIDE DEF a
  <2>2. Append(queue, a) # <<>>
    BY <2>1, AppendNotEmpty
  <2> QED
    BY <2>2 DEF a
<1>2. c \in Proc /\ Resting(c, s)
  BY DEF Proc, Resting, Rest
<1>3. UNCHANGED <<seen, state>>
  BY DEF Submit, runnerVars
<1>4. CASE Enqueue(c, q, s)
  <2>1. \A x \in Proc : \/ pc'[x] = pc[x]
                        \/ x = c /\ pc[x] = "idle" /\ pc'[x] \in {"idle", "waiting"}
    BY <1>2, <1>4 DEF Enqueue, TypeOK, Submit
  <2>2. Holders' = Holders
    BY <2>1 DEF Holders
  <2>3. \A w \in Runner : pc'[w] = pc[w]
    BY <2>1, AgentAssumption DEF Proc
  <2> QED
    BY <1>1, <1>3, <1>4, <2>2, <2>3 DEF Enqueue, LeaseExclusive
<1>5. CASE StartQueue(c, q, s)
  <2>1. ScheduleNext(c, q, s, pc) /\ Holders \subseteq {c}
    BY <1>5, StartQueueSchedules DEF StartQueue, LeaseExclusive
  <2> HIDE DEF q
  <2> QED
    BY <1>0, <1>2, <2>1, ScheduleLease DEF LeaseExclusive
<1> QED
  BY <1>4, <1>5 DEF Submit

----------------------------------------------------------------------------
(* Type correctness.                                                       *)

(* The empty sequence is a sequence of anything. *)
LEMMA EmptyIsSeq == ASSUME NEW S PROVE <<>> \in Seq(S)
OBVIOUS

(* Initial states are well typed and nobody holds the lease. *)
LEMMA InitInv == Init => TypeOK /\ LeaseExclusive
<1> SUFFICES ASSUME Init PROVE TypeOK /\ LeaseExclusive
  OBVIOUS
<1> USE AgentAssumption
<1>1. state \in Seq(Nat) /\ queue \in Seq(Action) /\ seen \in [Runner -> Seq(Nat)]
  BY EmptyIsSeq DEF Init
<1>2. TypeOK
  BY <1>1 DEF Init, TypeOK, Proc, Rest, Nothing, ClientPhase, RunnerPhase
<1>3. LeaseExclusive
  BY DEF Init, LeaseExclusive, Holders, Proc, Rest
<1> QED
  BY <1>2, <1>3

(* Waking threads keeps them in the phases of a client. *)
LEMMA NotifyType ==
  ASSUME TypeOK
  PROVE  /\ Notify \in [Proc -> ClientPhase \cup RunnerPhase]
         /\ \A c \in Client : Notify[c] \in ClientPhase
         /\ \A w \in Runner : Notify[w] = pc[w]
BY AgentAssumption DEF TypeOK, Notify, Proc, ClientPhase, RunnerPhase

(* Every call of a client keeps the types. *)
LEMMA CallsType ==
  ASSUME TypeOK, NEW c \in Client, Calls(c)
  PROVE  TypeOK'
<1> USE AgentAssumption
<1>1. CASE Send(c)
  <2>1. PICK e \in Executor : Submit(c, e, "idle") /\ UNCHANGED barrier
    BY <1>1 DEF Send
  <2> QED
    BY <2>1, SubmitType DEF Submit, runnerVars, TypeOK
<1>2. CASE Await(c)
  <2>1. PICK e \in Executor : Submit(c, e, "waiting")
    BY <1>2 DEF Await
  <2>2. barrier' \in [Client -> Nat]
    BY <1>2, <2>1, SubmitType DEF Await, TypeOK
  <2> QED
    BY <2>1, <2>2, SubmitType DEF Submit, runnerVars, TypeOK
<1>3. CASE AwaitAgent(c)
  BY <1>3 DEF AwaitAgent, TypeOK, runnerVars, Proc, ClientPhase, RunnerPhase, Nothing
<1>4. CASE TimesOut(c)
  BY <1>4 DEF TimesOut, TypeOK, runnerVars, clientVars, Proc, ClientPhase, RunnerPhase
<1>5. CASE Restart(c)
  <2>1. PICK q \in {queue, <<>>} : ScheduleNext(c, q, "idle", Notify)
    BY <1>5 DEF Restart
  <2>2. q \in Seq(Action)
    <3>1. queue \in Seq(Action)
      BY DEF TypeOK
    <3> QED
      BY <2>1, <3>1, EmptyIsSeq
  <2>c. c \in Proc /\ Resting(c, "idle")
    BY DEF Proc, Resting, Rest
  <2>3. state' \in Seq(Nat)
    BY <1>5, EmptyIsSeq DEF Restart, TypeOK
  <2>4. Notify \in {pc, Notify}
    OBVIOUS
  <2>5. /\ queue' \in Seq(Action) /\ active' \in BOOLEAN
        /\ pc' \in [Proc -> ClientPhase \cup RunnerPhase]
        /\ \A x \in Client : pc'[x] \in ClientPhase
        /\ \A w \in Runner : pc'[w] \in RunnerPhase
    BY <2>1, <2>2, <2>c, <2>4, ScheduleType
  <2> QED
    BY <1>5, <2>3, <2>5 DEF Restart, TypeOK, runnerVars, clientVars
<1>6. CASE RestartWatchRaises(c)
  BY <1>6, EmptyIsSeq DEF RestartWatchRaises, TypeOK, runnerVars, clientVars
<1>7. CASE ClearError(c)
  BY <1>7, NotifyType DEF ClearError, TypeOK, runnerVars, clientVars
<1>8. CASE SetErrorMode(c)
  BY <1>8 DEF SetErrorMode, TypeOK, runnerVars, clientVars
<1> QED
  BY <1>1, <1>2, <1>3, <1>4, <1>5, <1>6, <1>7, <1>8 DEF Calls

(* Every step of a runner keeps the types. *)
LEMMA RunsType ==
  ASSUME TypeOK, NEW w \in Runner, Runs(w)
  PROVE  TypeOK'
<1> USE AgentAssumption
<1>1. CASE Start(w)
  <2>1. CASE queue = <<>>
    BY <1>1, <2>1, NotifyType
       DEF Start, GoIdle, TypeOK, clientVars, Proc, ClientPhase, RunnerPhase
  <2>2. CASE queue # <<>>
    <3>1. Head(queue) \in Action /\ Tail(queue) \in Seq(Action)
      BY <2>2 DEF TypeOK
    <3>2. Head(queue).id \in Nat
      BY <3>1 DEF Action
    <3> QED
      BY <1>1, <2>2, <3>1, <3>2
         DEF Start, TypeOK, clientVars, Proc, ClientPhase, RunnerPhase
  <2> QED
    BY <2>1, <2>2
<1>2. CASE Succeeds(w)
  <2>1. queue \in Seq(Action) /\ w \in Proc /\ Resting(w, "free")
    BY DEF TypeOK, Proc, Resting, Rest
  <2>2. state' \in Seq(Nat)
    BY <1>2 DEF Succeeds, TypeOK
  <2> QED
    BY <1>2, <2>1, <2>2, ScheduleType DEF Succeeds, Done, Nothing, TypeOK, clientVars
<1>3. CASE Fails(w)
  BY <1>3 DEF Fails, Done, Nothing, TypeOK, clientVars, Proc, ClientPhase, RunnerPhase
<1>4. CASE FailsToStart(w)
  <2>1. Tail(queue) \in Seq(Action)
    BY <1>4 DEF FailsToStart, TypeOK
  <2> QED
    BY <1>4, <2>1
       DEF FailsToStart, TypeOK, runnerVars, clientVars, Proc, ClientPhase, RunnerPhase
<1> QED
  BY <1>1, <1>2, <1>3, <1>4 DEF Runs

(* Handling a failure keeps the types. *)
LEMMA FaultType ==
  ASSUME TypeOK, NEW p \in Proc, Fault(p)
  PROVE  TypeOK'
<1> USE AgentAssumption
<1>1. CASE Record(p)
  BY <1>1 DEF Record, TypeOK, runnerVars, clientVars, Proc, ClientPhase, RunnerPhase
<1>2. CASE Handled(p) /\ Continue(p)
  <2>1. queue \in Seq(Action) /\ Resting(p, Rest(p))
    BY DEF TypeOK, Resting
  <2> QED
    BY <1>2, <2>1, ScheduleType DEF Handled, Continue, TypeOK, runnerVars, clientVars
<1>3. CASE Handled(p) /\ Stop(p)
  BY <1>3, NotifyType
     DEF Handled, Stop, GoIdle, TypeOK, runnerVars, clientVars, Proc, Rest,
         ClientPhase, RunnerPhase
<1> QED
  BY <1>1, <1>2, <1>3 DEF Fault, Handled

(* Every step keeps the types. *)
LEMMA TypeStep == TypeOK /\ [Next]_vars => TypeOK'
<1> SUFFICES ASSUME TypeOK, [Next]_vars PROVE TypeOK'
  OBVIOUS
<1> USE AgentAssumption
<1>1. ASSUME NEW c \in Client, Check(c) PROVE TypeOK'
  BY <1>1 DEF Check, TypeOK, runnerVars, clientVars, Proc, ClientPhase, RunnerPhase
<1>2. ASSUME NEW e \in Executor, Shutdown(e) PROVE TypeOK'
  BY <1>2 DEF Shutdown, TypeOK, runnerVars, clientVars
<1>3. CASE UNCHANGED vars
  BY <1>3 DEF vars, TypeOK, runnerVars, clientVars
<1> QED
  BY <1>1, <1>2, <1>3, CallsType, RunsType, FaultType DEF Next

(* Every variable of an agent keeps its type. *)
THEOREM AgentTypeCorrect == Spec => []TypeOK
BY InitInv, TypeStep, PTL DEF Spec

----------------------------------------------------------------------------
(* The lease.                                                              *)

(* Steps of clients that come and go without touching the agent. *)
LEMMA QuietLease ==
  ASSUME LeaseExclusive, UNCHANGED <<state, queue, active, seen>>,
         Holders' = Holders, \A w \in Runner : pc'[w] = pc[w]
  PROVE  LeaseExclusive'
BY DEF LeaseExclusive

(* Calls of clients take the lease only when it is free. *)
LEMMA CallsLease ==
  ASSUME TypeOK, LeaseExclusive, NEW c \in Client, Calls(c)
  PROVE  LeaseExclusive'
<1> USE AgentAssumption
<1>1. CASE Send(c)
  BY <1>1, SubmitLease DEF Send
<1>2. CASE Await(c)
  BY <1>2, SubmitLease DEF Await
<1>3. CASE AwaitAgent(c)
  <2>1. Holders' = Holders /\ \A w \in Runner : pc'[w] = pc[w]
    BY <1>3 DEF AwaitAgent, Holders, TypeOK, Proc
  <2> QED
    BY <1>3, <2>1, QuietLease DEF AwaitAgent, runnerVars
<1>4. CASE TimesOut(c)
  <2>1. Holders' = Holders /\ \A w \in Runner : pc'[w] = pc[w]
    BY <1>4 DEF TimesOut, Holders, TypeOK, Proc
  <2> QED
    BY <1>4, <2>1, QuietLease DEF TimesOut, runnerVars
<1>5. CASE Restart(c)
  <2>1. PICK q \in {queue, <<>>} : ScheduleNext(c, q, "idle", Notify)
    BY <1>5 DEF Restart
  <2>2. q \in Seq(Action)
    <3>1. queue \in Seq(Action)
      BY DEF TypeOK
    <3> QED
      BY <2>1, <3>1, EmptyIsSeq
  <2>c. c \in Proc /\ Resting(c, "idle")
    BY DEF Proc, Resting, Rest
  <2>3. Holders \subseteq {c}
    BY <1>5 DEF Restart, MayRestart, LeaseExclusive
  <2> QED
    BY <2>1, <2>2, <2>c, <2>3, ScheduleLease DEF LeaseExclusive
<1>6. CASE RestartWatchRaises(c)
  BY <1>6
     DEF RestartWatchRaises, MayRestart, LeaseExclusive, Holders, Proc, runnerVars
<1>7. CASE ClearError(c)
  <2>1. Holders' = Holders /\ \A w \in Runner : pc'[w] = pc[w]
    BY <1>7, NotifyType DEF ClearError, Notify, Holders, Proc
  <2> QED
    BY <1>7, <2>1, QuietLease DEF ClearError, runnerVars
<1>8. CASE SetErrorMode(c)
  BY <1>8 DEF SetErrorMode, LeaseExclusive, Holders, runnerVars
<1> QED
  BY <1>1, <1>2, <1>3, <1>4, <1>5, <1>6, <1>7, <1>8 DEF Calls

(* A runner acts only as the holder of the lease, and hands it on. *)
LEMMA RunsLease ==
  ASSUME TypeOK, LeaseExclusive, NEW w \in Runner, Runs(w)
  PROVE  LeaseExclusive'
<1> USE AgentAssumption
<1>0. w \in Proc /\ Holders = {w}
  BY DEF Runs, Start, Succeeds, Fails, FailsToStart, LeaseExclusive, Holders, Proc
<1>1. CASE Start(w)
  <2>1. queue # <<>>
    BY <1>1 DEF Start, LeaseExclusive
  <2>2. \A x \in Proc : pc'[x] = IF x = w THEN "running" ELSE pc[x]
    BY <1>1, <2>1 DEF Start, TypeOK
  <2>3. seen'[w] = state /\ state' = state /\ active' = active
    BY <1>1, <2>1 DEF Start, TypeOK
  <2> QED
    BY <1>0, <2>2, <2>3 DEF LeaseExclusive, Holders, Proc
<1>2. CASE Succeeds(w)
  <2>1. queue \in Seq(Action) /\ Resting(w, "free")
    BY DEF TypeOK, Resting, Rest
  <2> QED
    BY <1>0, <1>2, <2>1, ScheduleLease DEF Succeeds, LeaseExclusive
<1>3. CASE Fails(w)
  <2>1. \A x \in Proc : pc'[x] = IF x = w THEN "error" ELSE pc[x]
    BY <1>3 DEF Fails, TypeOK
  <2> QED
    BY <1>0, <1>3, <2>1 DEF Fails, LeaseExclusive, Holders, Proc
<1>4. CASE FailsToStart(w)
  <2>1. \A x \in Proc : pc'[x] = IF x = w THEN "error" ELSE pc[x]
    BY <1>4 DEF FailsToStart, TypeOK
  <2> QED
    BY <1>0, <1>4, <2>1 DEF FailsToStart, LeaseExclusive, Holders, Proc
<1> QED
  BY <1>1, <1>2, <1>3, <1>4 DEF Runs

(* Whoever handles a failure holds the lease until it has done so. *)
LEMMA FaultLease ==
  ASSUME TypeOK, LeaseExclusive, NEW p \in Proc, Fault(p)
  PROVE  LeaseExclusive'
<1> USE AgentAssumption
<1>0. Holders = {p} /\ active
  BY DEF Fault, Record, Handled, LeaseExclusive, Holders
<1>1. CASE Record(p)
  <2>1. \A x \in Proc : pc'[x] = IF x = p THEN "handler" ELSE pc[x]
    BY <1>1 DEF Record, TypeOK
  <2> QED
    BY <1>0, <1>1, <2>1 DEF Record, LeaseExclusive, Holders, Proc
<1>2. CASE Handled(p) /\ Continue(p)
  <2>1. queue \in Seq(Action) /\ Resting(p, Rest(p))
    BY DEF TypeOK, Resting
  <2> QED
    BY <1>0, <1>2, <2>1, ScheduleLease DEF Continue, LeaseExclusive
<1>3. CASE Handled(p) /\ Stop(p)
  <2>1. \A x \in Proc : pc'[x] \notin {"scheduled", "running", "error", "handler"}
    BY <1>0, <1>3 DEF Stop, GoIdle, Notify, Holders, Rest
  <2> QED
    BY <1>3, <2>1 DEF Stop, GoIdle, LeaseExclusive, Holders, Proc
<1> QED
  BY <1>1, <1>2, <1>3 DEF Fault, Handled

(* Every step keeps the lease exclusive. *)
LEMMA LeaseStep == TypeOK /\ LeaseExclusive /\ [Next]_vars => LeaseExclusive'
<1> SUFFICES ASSUME TypeOK, LeaseExclusive, [Next]_vars PROVE LeaseExclusive'
  OBVIOUS
<1>1. ASSUME NEW c \in Client, Check(c) PROVE LeaseExclusive'
  <2>1. Holders' = Holders /\ \A w \in Runner : pc'[w] = pc[w]
    BY <1>1, AgentAssumption DEF Check, Holders, TypeOK, Proc
  <2> QED
    BY <1>1, <2>1, QuietLease DEF Check, runnerVars
<1>2. ASSUME NEW e \in Executor, Shutdown(e) PROVE LeaseExclusive'
  BY <1>2 DEF Shutdown, LeaseExclusive, Holders, runnerVars
<1>3. CASE UNCHANGED vars
  BY <1>3 DEF vars, LeaseExclusive, Holders, runnerVars
<1> QED
  BY <1>1, <1>2, <1>3, CallsLease, RunsLease, FaultLease DEF Next

(* One thread at a time acts for the agent, and on its current value. *)
THEOREM LeaseIsExclusive == Spec => []LeaseExclusive
BY InitInv, TypeStep, LeaseStep, PTL DEF Spec

----------------------------------------------------------------------------
(* Queues of idle agents.                                                  *)

(* Nobody clears the error of the agent or changes its error mode.          *)
ErrorsStay == Ops \cap {"clear-error", "set-error-mode"} = {}

(* A handler runs only once the failure has been recorded. *)
FailuresRecorded == \A p \in Proc : pc[p] = "handler" => error

(* Scheduling the next action starts no handler, ends that of the thread     *)
(* that schedules, and leaves no queue behind with an idle agent.            *)
LEMMA ScheduleKeepsGoing ==
  ASSUME TypeOK, NEW p \in Proc, NEW q, NEW s, Resting(p, s),
         NEW pcs \in {pc, Notify}, ScheduleNext(p, q, s, pcs)
  PROVE  /\ queue' = <<>> \/ active'
         /\ \A x \in Proc : pc'[x] = "handler" => x # p /\ pc[x] = "handler"
<1> USE AgentAssumption DEF Proc, Resting, Rest
<1>1. /\ pcs \in [Proc -> ClientPhase \cup RunnerPhase]
      /\ Notify \in [Proc -> ClientPhase \cup RunnerPhase]
  BY DEF TypeOK, Notify, ClientPhase, RunnerPhase
<1>2. \A x \in Proc : pcs[x] = "handler" \/ Notify[x] = "handler" => pc[x] = "handler"
  BY DEF Notify
<1>3. CASE q = <<>> /\ queue' = q /\ GoIdle(p, s)
  BY <1>1, <1>2, <1>3 DEF GoIdle
<1>4. CASE Hand(p, q, s, pcs)
  <2>1. PICK w \in Runner : pc' = [pcs EXCEPT ![p] = s, ![w] = "scheduled"]
    BY <1>4 DEF Hand, FreeRunner
  <2> QED
    BY <1>1, <1>2, <1>4, <2>1 DEF Hand
<1>5. CASE Refuse(p, q, pcs)
  BY <1>1, <1>2, <1>5 DEF Refuse
<1> QED
  BY <1>3, <1>4, <1>5 DEF ScheduleNext

NotStalled == QueueNotStalled /\ FailuresRecorded

(* A call of a client leaves no queue behind. *)
LEMMA CallsNotStalled ==
  ASSUME ErrorsStay, TypeOK, LeaseExclusive, NotStalled, NEW c \in Client, Calls(c)
  PROVE  NotStalled'
<1> USE AgentAssumption
<1>0. c \in Proc
  BY DEF Proc
<1>1. ASSUME NEW e \in Executor, NEW s \in {"idle", "waiting"}, Submit(c, e, s)
      PROVE  NotStalled'
  <2> DEFINE q == Append(queue, [id |-> sent', executor |-> e])
  <2>1. error' = error /\ mode' = mode /\ Resting(c, s)
    BY <1>1 DEF Submit, Resting, Rest
  <2>2. CASE Enqueue(c, q, s)
    BY <1>0, <2>1, <2>2
       DEF Enqueue, NotStalled, QueueNotStalled, FailuresRecorded, TypeOK
  <2>3. CASE StartQueue(c, q, s)
    <3>1. ScheduleNext(c, q, s, pc)
      BY <2>3, StartQueueSchedules
    <3> HIDE DEF q
    <3>2. /\ queue' = <<>> \/ active'
          /\ \A x \in Proc : pc'[x] = "handler" => pc[x] = "handler"
      BY <1>0, <2>1, <3>1, ScheduleKeepsGoing
    <3> QED
      BY <2>1, <3>2 DEF NotStalled, QueueNotStalled, FailuresRecorded
  <2> QED
    BY <1>1, <2>2, <2>3 DEF Submit
<1>2. CASE Send(c) \/ Await(c)
  BY <1>1, <1>2 DEF Send, Await
<1>3. CASE Restart(c)
  <2>1. PICK q \in {queue, <<>>} : ScheduleNext(c, q, "idle", Notify)
    BY <1>3 DEF Restart
  <2>2. Resting(c, "idle") /\ Holders = {}
    BY <1>3 DEF Resting, Rest, Restart, MayRestart, LeaseExclusive
  <2>3. queue' = <<>> \/ active'
    BY <1>0, <2>1, <2>2, ScheduleKeepsGoing
  <2>4. \A x \in Proc : pc'[x] # "handler"
    <3>1. \A x \in Proc : pc'[x] = "handler" => pc[x] = "handler"
      BY <1>0, <2>1, <2>2, ScheduleKeepsGoing
    <3> QED
      BY <2>2, <3>1 DEF Holders
  <2> QED
    BY <2>3, <2>4 DEF NotStalled, QueueNotStalled, FailuresRecorded
<1>4. CASE AwaitAgent(c) \/ TimesOut(c) \/ RestartWatchRaises(c)
  BY <1>0, <1>4
     DEF AwaitAgent, TimesOut, RestartWatchRaises, NotStalled, QueueNotStalled,
         FailuresRecorded, Failed, TypeOK
<1>5. ~ClearError(c) /\ ~SetErrorMode(c)
  BY DEF ErrorsStay, ClearError, SetErrorMode
<1> QED
  BY <1>2, <1>3, <1>4, <1>5 DEF Calls

(* A runner, and whoever handles a failure, leave no queue behind but that   *)
(* of a failed agent. *)
LEMMA HoldersNotStalled ==
  ASSUME TypeOK, LeaseExclusive, NotStalled, NEW p \in Proc,
         (p \in Runner /\ Runs(p)) \/ Fault(p)
  PROVE  NotStalled'
<1> USE AgentAssumption
<1>0. Holders = {p} /\ active /\ \A x \in Proc \ {p} : pc[x] # "handler"
  <2>1. p \in Holders
    BY DEF Runs, Start, Succeeds, Fails, FailsToStart, Fault, Record, Handled, Holders
  <2> QED
    BY <2>1 DEF LeaseExclusive, Holders
<1>1. CASE p \in Runner /\ Start(p)
  BY <1>0, <1>1 DEF Start, LeaseExclusive, NotStalled, QueueNotStalled,
                    FailuresRecorded, TypeOK
<1>2. CASE p \in Runner /\ Succeeds(p)
  <2>1. Resting(p, "free") /\ ScheduleNext(p, queue, "free", pc)
    BY <1>2 DEF Resting, Rest, Succeeds
  <2>2. /\ queue' = <<>> \/ active'
        /\ \A x \in Proc : pc'[x] = "handler" => x # p /\ pc[x] = "handler"
    BY <2>1, ScheduleKeepsGoing
  <2> QED
    BY <1>0, <2>2 DEF NotStalled, QueueNotStalled, FailuresRecorded
<1>3. CASE p \in Runner /\ (Fails(p) \/ FailsToStart(p))
  BY <1>0, <1>3 DEF Fails, FailsToStart, NotStalled, QueueNotStalled, FailuresRecorded,
                    TypeOK
<1>4. CASE Record(p)
  BY <1>0, <1>4 DEF Record, NotStalled, QueueNotStalled, FailuresRecorded, TypeOK
<1>5. CASE Handled(p) /\ Continue(p)
  <2>1. Resting(p, Rest(p)) /\ ScheduleNext(p, queue, Rest(p), pc)
    BY <1>5 DEF Resting, Continue
  <2>2. /\ queue' = <<>> \/ active'
        /\ \A x \in Proc : pc'[x] = "handler" => x # p /\ pc[x] = "handler"
    BY <2>1, ScheduleKeepsGoing
  <2> QED
    BY <1>0, <2>2 DEF NotStalled, QueueNotStalled, FailuresRecorded
<1>6. CASE Handled(p) /\ Stop(p) /\ mode = "fail"
  <2>1. error /\ error' /\ mode' = "fail"
    BY <1>6 DEF Handled, Stop, NotStalled, FailuresRecorded
  <2> QED
    BY <2>1 DEF NotStalled, QueueNotStalled, FailuresRecorded, Failed
<1> QED
  BY <1>1, <1>2, <1>3, <1>4, <1>5, <1>6 DEF Runs, Fault, Handled

(* Every step. *)
LEMMA NotStalledStep ==
  ErrorsStay /\ TypeOK /\ LeaseExclusive /\ NotStalled /\ [Next]_vars => NotStalled'
<1> SUFFICES ASSUME ErrorsStay, TypeOK, LeaseExclusive, NotStalled, [Next]_vars
             PROVE  NotStalled'
  OBVIOUS
<1>1. ASSUME NEW c \in Client, Check(c) PROVE NotStalled'
  BY <1>1 DEF Check, NotStalled, QueueNotStalled, FailuresRecorded, Failed, TypeOK
<1>2. ASSUME NEW e \in Executor, Shutdown(e) PROVE NotStalled'
  BY <1>2 DEF Shutdown, NotStalled, QueueNotStalled, FailuresRecorded, Failed
<1>3. CASE UNCHANGED vars
  BY <1>3 DEF vars, NotStalled, QueueNotStalled, FailuresRecorded, Failed
<1> QED
  BY <1>1, <1>2, <1>3, CallsNotStalled, HoldersNotStalled DEF Next, Proc

(* Actions are left in the queue of an idle agent only by a failure, if      *)
(* nobody clears errors or changes the error mode.                           *)
THEOREM NothingStalls == ASSUME ErrorsStay PROVE Spec => []QueueNotStalled
<1>1. Init => NotStalled
  BY AgentAssumption
     DEF Init, NotStalled, QueueNotStalled, FailuresRecorded, Proc, Rest
<1>2. TypeOK /\ LeaseExclusive /\ NotStalled /\ [Next]_vars => NotStalled'
  BY ErrorsStay, NotStalledStep
<1>3. NotStalled => QueueNotStalled
  BY DEF NotStalled
<1> QED
  BY <1>1, <1>2, <1>3, AgentTypeCorrect, LeaseIsExclusive, PTL DEF Spec

----------------------------------------------------------------------------
(* What no step may do.                                                    *)

(* A failed agent that runs nothing goes on to run nothing. *)
LEMMA FailedStep ==
  TypeOK /\ LeaseExclusive /\ [Next]_vars => [Failed /\ Quiet /\ Failed' => Quiet']_vars
<1> SUFFICES ASSUME TypeOK, LeaseExclusive, Next, Failed, Quiet, Failed' PROVE Quiet'
  OBVIOUS
<1> USE AgentAssumption
<1>1. ASSUME NEW c \in Client, Calls(c) \/ Check(c) PROVE Quiet'
  <2>1. ~Send(c) /\ ~Await(c) /\ ~Restart(c)
    BY DEF Send, Await, Submit, Restart, Failed
  <2>2. CASE AwaitAgent(c) \/ TimesOut(c) \/ Check(c)
    BY <2>2 DEF AwaitAgent, TimesOut, Check, Quiet, TypeOK, Proc
  <2>3. CASE RestartWatchRaises(c) \/ SetErrorMode(c)
    BY <2>3 DEF RestartWatchRaises, SetErrorMode, Quiet
  <2>4. ~ClearError(c)
    BY DEF ClearError, Failed
  <2> QED
    BY <1>1, <2>1, <2>2, <2>3, <2>4 DEF Calls
<1>2. ASSUME NEW w \in Runner PROVE ~Runs(w)
  BY DEF Runs, Start, Succeeds, Fails, FailsToStart, Quiet
<1>3. ASSUME NEW p \in Proc, Fault(p) PROVE Quiet'
  <2>1. CASE Record(p)
    BY <2>1 DEF Record, Quiet, TypeOK, Proc
  <2>2. CASE Handled(p)
    <3>1. Stop(p)
      BY <2>2 DEF Handled, Failed
    <3> QED
      BY <3>1, NotifyType DEF Stop, GoIdle, Quiet, Rest, Proc
  <2> QED
    BY <1>3, <2>1, <2>2 DEF Fault
<1>4. ASSUME NEW e \in Executor, Shutdown(e) PROVE Quiet'
  BY <1>4 DEF Shutdown, Quiet
<1> QED
  BY <1>1, <1>2, <1>3, <1>4 DEF Next

(* Once it has failed, and until it is restarted, its error is cleared or    *)
(* its mode changed, an agent hands out and runs no action.                  *)
THEOREM FailedIsQuiet == Spec => FailedRunsNothing
BY FailedStep, AgentTypeCorrect, LeaseIsExclusive, PTL DEF Spec, FailedRunsNothing

(* Whoever schedules the next action wakes all that sleep unless the lease   *)
(* goes on. *)
LEMMA ScheduleWakes ==
  ASSUME TypeOK, NEW p \in Proc, NEW q, NEW s, Resting(p, s),
         NEW pcs, ScheduleNext(p, q, s, pcs), NEW c \in Client
  PROVE  active' \/ pc'[c] # "asleep"
<1>1. CASE Hand(p, q, s, pcs) \/ Refuse(p, q, pcs)
  BY <1>1 DEF Hand, Refuse
<1>2. CASE GoIdle(p, s)
  <2>1. s # "asleep"
    BY DEF Resting, Rest
  <2> QED
    BY <1>2, <2>1, AgentAssumption DEF GoIdle, Notify, Proc
<1> QED
  BY <1>1, <1>2 DEF ScheduleNext

(* What a step of p does for c, which sleeps until it is Complete. *)
Wakes(c) == mode' = mode /\ ~Complete(c) /\ Complete(c)' => pc'[c] # "asleep"

(* A call of a client wakes those it completes. *)
LEMMA CallsWake ==
  ASSUME TypeOK, NEW c \in Client, pc[c] = "asleep", NEW d \in Client, Calls(d)
  PROVE  Wakes(c)
<1> USE AgentAssumption
<1>0. d \in Proc /\ c \in Proc /\ Resting(d, "idle") /\ Resting(d, "waiting")
  BY DEF Proc, Resting, Rest
<1>1. ASSUME NEW e \in Executor, NEW s \in {"idle", "waiting"}, Submit(d, e, s)
      PROVE  active' \/ pc'[c] # "asleep"
  <2> DEFINE q == Append(queue, [id |-> sent', executor |-> e])
  <2>1. CASE Enqueue(d, q, s)
    BY <2>1 DEF Enqueue
  <2>2. CASE StartQueue(d, q, s)
    <3>1. ScheduleNext(d, q, s, pc)
      BY <2>2, StartQueueSchedules
    <3> HIDE DEF q
    <3> QED
      BY <1>0, <3>1, ScheduleWakes
  <2> QED
    BY <1>1, <2>1, <2>2 DEF Submit
<1>2. CASE Send(d) \/ Await(d)
  BY <1>1, <1>2 DEF Send, Await, Wakes, Complete
<1>3. CASE Restart(d)
  <2>1. PICK q \in {queue, <<>>} : ScheduleNext(d, q, "idle", Notify)
    BY <1>3 DEF Restart
  <2> QED
    BY <1>0, <2>1, ScheduleWakes DEF Wakes, Complete
<1>4. CASE AwaitAgent(d)
  <2>1. c # d /\ barrier'[c] = barrier[c]
    BY <1>4 DEF AwaitAgent, TypeOK
  <2> QED
    BY <1>4, <2>1 DEF AwaitAgent, Wakes, Complete, Failed
<1>5. CASE TimesOut(d) \/ RestartWatchRaises(d) \/ SetErrorMode(d)
  BY <1>5 DEF TimesOut, RestartWatchRaises, SetErrorMode, clientVars, Wakes, Complete, Failed
<1>6. CASE ClearError(d)
  BY <1>0, <1>6 DEF ClearError, Notify, Wakes
<1> QED
  BY <1>2, <1>3, <1>4, <1>5, <1>6 DEF Calls

(* A runner, and whoever handles a failure, hold on to the lease or wake     *)
(* everybody. *)
LEMMA HoldersWake ==
  ASSUME TypeOK, LeaseExclusive, NEW c \in Client, pc[c] = "asleep", NEW p \in Proc,
         (p \in Runner /\ Runs(p)) \/ Fault(p)
  PROVE  Wakes(c)
<1> USE AgentAssumption
<1>0. active /\ c \in Proc /\ c # p
  BY DEF Runs, Start, Succeeds, Fails, FailsToStart, Fault, Record, Handled, Holders,
         LeaseExclusive, Proc
<1>1. CASE p \in Runner /\ Start(p)
  BY <1>0, <1>1 DEF Start, LeaseExclusive, Wakes, Complete
<1>2. CASE p \in Runner /\ Succeeds(p)
  <2>1. Resting(p, "free") /\ ScheduleNext(p, queue, "free", pc)
    BY <1>2 DEF Resting, Rest, Succeeds
  <2> QED
    BY <2>1, ScheduleWakes DEF Wakes, Complete
<1>3. CASE p \in Runner /\ (Fails(p) \/ FailsToStart(p))
  BY <1>0, <1>3 DEF Fails, FailsToStart, Wakes, Complete
<1>4. CASE Record(p)
  BY <1>0, <1>4 DEF Record, Wakes, Complete
<1>5. CASE Handled(p) /\ Continue(p)
  <2>1. Resting(p, Rest(p)) /\ ScheduleNext(p, queue, Rest(p), pc)
    BY <1>5 DEF Resting, Continue
  <2> QED
    BY <2>1, ScheduleWakes DEF Wakes, Complete
<1>6. CASE Handled(p) /\ Stop(p)
  BY <1>0, <1>6 DEF Stop, GoIdle, Notify, Wakes
<1> QED
  BY <1>1, <1>2, <1>3, <1>4, <1>5, <1>6 DEF Runs, Fault, Handled

(* Every step. *)
LEMMA WakeStep ==
  TypeOK /\ LeaseExclusive /\ [Next]_vars
    => [mode' = mode =>
          \A c \in Client :
            pc[c] = "asleep" /\ ~Complete(c) /\ Complete(c)' => pc'[c] # "asleep"]_vars
<1> SUFFICES ASSUME TypeOK, LeaseExclusive, Next, NEW c \in Client, pc[c] = "asleep"
             PROVE  Wakes(c)
  BY DEF Wakes
<1>1. ASSUME NEW d \in Client, Check(d) PROVE Wakes(c)
  BY <1>1 DEF Check, clientVars, Wakes, Complete, Failed
<1>2. ASSUME NEW e \in Executor, Shutdown(e) PROVE Wakes(c)
  BY <1>2 DEF Shutdown, clientVars, Wakes, Complete, Failed
<1> QED
  BY <1>1, <1>2, CallsWake, HoldersWake DEF Next, Proc

(* Nobody sleeps through the moment its wait is over, but for a change of    *)
(* the error mode, which wakes nobody.                                       *)
THEOREM NoWakeupLost == Spec => NoLostWakeup
BY WakeStep, AgentTypeCorrect, LeaseIsExclusive, PTL DEF Spec, NoLostWakeup

-----------------------------------------------------------------------------
(***************************************************************************)
(* An agent implements SerialAgent.  The actions SerialAgent has pending    *)
(* are the one a runner has taken from the queue, if any, and those in it;  *)
(* that at most one has been taken, and that it is applied to the current   *)
(* value, is the lease.                                                     *)
(***************************************************************************)

(* Sequences of actions and of their numbers.                              *)

(* The numbers of a queue are as many as its actions, in the same order. *)
LEMMA IdsElements ==
  ASSUME NEW q \in Seq(Action)
  PROVE  /\ Ids(q) \in Seq(Nat)
         /\ Len(Ids(q)) = Len(q)
         /\ \A i \in 1..Len(q) : Ids(q)[i] = q[i].id
<1>1. /\ Len(q) \in Nat /\ DOMAIN q = 1..Len(q)
      /\ \A i \in 1..Len(q) : q[i] \in Action
  BY LenProperties, ElementOfSeq
<1>2. \A i \in 1..Len(q) : q[i].id \in Nat
  BY <1>1 DEF Action
<1>3. Ids(q) = [i \in 1..Len(q) |-> q[i].id]
  BY <1>1 DEF Ids
<1>4. Ids(q) \in [1..Len(q) -> Nat]
  BY <1>2, <1>3
<1>5. Ids(q) \in Seq(Nat)
  BY <1>1, <1>4, SeqDef
<1>6. DOMAIN Ids(q) = 1..Len(Ids(q)) /\ Len(Ids(q)) \in Nat
  BY <1>5, LenProperties
<1>7. Len(Ids(q)) = Len(q)
  <2>1. ASSUME NEW m \in Nat, NEW n \in Nat, 1..m = 1..n PROVE m = n
    <3>1. m >= 1 => m \in 1..m
      OBVIOUS
    <3>2. n >= 1 => n \in 1..n
      OBVIOUS
    <3> QED
      BY <2>1, <3>1, <3>2
  <2>2. 1..Len(Ids(q)) = 1..Len(q)
    BY <1>4, <1>6
  <2> HIDE DEF Ids
  <2> QED
    BY <1>1, <1>6, <2>1, <2>2
<1> QED
  BY <1>3, <1>5, <1>7

(* Adding an action adds its number. *)
LEMMA IdsAppend ==
  ASSUME NEW q \in Seq(Action), NEW a \in Action
  PROVE  Ids(Append(q, a)) = Append(Ids(q), a.id)
<1>1. Append(q, a) \in Seq(Action) /\ a.id \in Nat
  BY DEF Action
<1>2. Len(Append(q, a)) = Len(q) + 1 /\ Len(q) \in Nat
  OBVIOUS
<1>3. /\ Ids(Append(q, a)) \in Seq(Nat) /\ Len(Ids(Append(q, a))) = Len(q) + 1
      /\ \A i \in 1..Len(q) + 1 : Ids(Append(q, a))[i] = Append(q, a)[i].id
  BY <1>1, <1>2, IdsElements
<1>4. /\ Ids(q) \in Seq(Nat) /\ Len(Ids(q)) = Len(q)
      /\ \A i \in 1..Len(q) : Ids(q)[i] = q[i].id
  BY IdsElements
<1>5. /\ Append(Ids(q), a.id) \in Seq(Nat) /\ Len(Append(Ids(q), a.id)) = Len(q) + 1
      /\ \A i \in 1..Len(q) + 1 :
           Append(Ids(q), a.id)[i] = IF i = Len(q) + 1 THEN a.id ELSE q[i].id
  BY <1>1, <1>2, <1>4
<1>6. \A i \in 1..Len(q) + 1 : Append(q, a)[i] = IF i = Len(q) + 1 THEN a ELSE q[i]
  BY <1>2
<1>7. \A i \in 1..Len(q) + 1 : Ids(Append(q, a))[i] = Append(Ids(q), a.id)[i]
  BY <1>3, <1>5, <1>6
<1> QED
  BY <1>3, <1>5, <1>7, SeqEqual

(* Dropping the oldest action drops its number. *)
LEMMA IdsTail ==
  ASSUME NEW q \in Seq(Action), q # <<>>
  PROVE  /\ Ids(Tail(q)) = Tail(Ids(q))
         /\ Head(Ids(q)) = Head(q).id
         /\ Ids(q) # <<>>
         /\ <<Head(q).id>> \o Ids(Tail(q)) = Ids(q)
<1>1. /\ Tail(q) \in Seq(Action) /\ Len(Tail(q)) = Len(q) - 1
      /\ \A i \in 1..Len(q) - 1 : Tail(q)[i] = q[i + 1]
      /\ Len(q) \in Nat \ {0}
  BY HeadTailProperties, EmptySeq
<1>2. /\ Ids(q) \in Seq(Nat) /\ Len(Ids(q)) = Len(q)
      /\ \A i \in 1..Len(q) : Ids(q)[i] = q[i].id
  BY IdsElements
<1>3. /\ Ids(Tail(q)) \in Seq(Nat) /\ Len(Ids(Tail(q))) = Len(q) - 1
      /\ \A i \in 1..Len(q) - 1 : Ids(Tail(q))[i] = Tail(q)[i].id
  BY <1>1, IdsElements
<1>4. Ids(q) # <<>>
  BY <1>1, <1>2, EmptySeq
<1>5. /\ Tail(Ids(q)) \in Seq(Nat) /\ Len(Tail(Ids(q))) = Len(q) - 1
      /\ \A i \in 1..Len(q) - 1 : Tail(Ids(q))[i] = Ids(q)[i + 1]
  BY <1>2, <1>4, HeadTailProperties
<1>6. Ids(Tail(q)) = Tail(Ids(q))
  <2>1. \A i \in 1..Len(q) - 1 : Ids(Tail(q))[i] = Tail(Ids(q))[i]
    BY <1>1, <1>2, <1>3, <1>5
  <2> QED
    BY <1>3, <1>5, <2>1, SeqEqual
<1>7. Head(Ids(q)) = Head(q).id
  <2>1. Head(Ids(q)) = Ids(q)[1] /\ Head(q) = q[1]
    BY <1>2, <1>4
  <2> QED
    BY <1>1, <1>2, <2>1
<1>8. <<Head(Ids(q))>> \o Tail(Ids(q)) = Ids(q)
  BY <1>2, <1>4
<1> QED
  BY <1>4, <1>6, <1>7, <1>8

(* A sequence with one element put in front. *)
LEMMA InFront ==
  ASSUME NEW d \in Nat, NEW s \in Seq(Nat)
  PROVE  /\ <<d>> \o s # <<>>
         /\ Head(<<d>> \o s) = d
         /\ Tail(<<d>> \o s) = s
         /\ \A i \in Nat : Append(<<d>> \o s, i) = <<d>> \o Append(s, i)
<1>1. /\ <<d>> \o s # <<>>
      /\ Head(<<d>> \o s) = d
  OBVIOUS
<1>2. Tail(<<d>> \o s) = s
  OBVIOUS
<1>3. ASSUME NEW i \in Nat PROVE Append(<<d>> \o s, i) = <<d>> \o Append(s, i)
  OBVIOUS
<1> QED
  BY <1>1, <1>2, <1>3
----------------------------------------------------------------------------
(* What is pending, before and after a step.                               *)

NoneRunning == \A w \in Runner : pc[w] # "running"

(* With no action taken, the queue is all that is pending. *)
LEMMA PendingIdle == ASSUME NoneRunning, queue \in Seq(Action) PROVE Pending = Ids(queue)
<1>1. Current = <<>>
  BY DEF NoneRunning, Current, Running
<1>2. Ids(queue) \in Seq(Nat)
  BY IdsElements
<1> QED
  BY <1>1, <1>2, ConcatEmptySeq DEF Pending

(* The same after a step. *)
LEMMA PendingIdleNext ==
  ASSUME NoneRunning', queue' \in Seq(Action) PROVE Pending' = Ids(queue')
<1>1. Current' = <<>>
  BY DEF NoneRunning, Current, Running
<1>2. Ids(queue') \in Seq(Nat)
  BY IdsElements
<1>3. Ids(queue)' = Ids(queue')
  BY DEF Ids
<1> QED
  BY <1>1, <1>2, <1>3, ConcatEmptySeq DEF Pending

(* With one action taken, it comes first. *)
LEMMA PendingBusy ==
  ASSUME NEW w \in Runner, Running = {w} PROVE Pending = <<doing[w]>> \o Ids(queue)
BY DEF Pending, Current

(* The same after a step. *)
LEMMA PendingBusyNext ==
  ASSUME NEW w \in Runner, Running' = {w} PROVE Pending' = <<doing'[w]>> \o Ids(queue')
<1>1. Ids(queue)' = Ids(queue')
  BY DEF Ids
<1> QED
  BY <1>1 DEF Pending, Current

(* A step that touches neither the queue nor what is being done. *)
LEMMA PendingSame ==
  ASSUME Running' = Running, UNCHANGED <<queue, doing>> PROVE Pending' = Pending
BY DEF Pending, Current, Ids

(* While a thread holds the lease and runs nothing, nobody runs anything. *)
LEMMA LeaseNoneRunning ==
  ASSUME LeaseExclusive, ~active \/ \E p \in Holders : pc[p] # "running"
  PROVE  NoneRunning
BY DEF LeaseExclusive, Holders, NoneRunning, Proc

(* Whoever schedules the next action drops at most the oldest. *)
LEMMA ScheduleQueue ==
  ASSUME NEW p, NEW q \in Seq(Action), NEW s, NEW pcs, ScheduleNext(p, q, s, pcs)
  PROVE  \/ queue' = q
         \/ q # <<>> /\ queue' = Tail(q)
BY DEF ScheduleNext, Hand, Refuse

----------------------------------------------------------------------------
(* Steps.                                                                  *)

SStep == [Serial!Next]_(Serial!vars)

(* What is invisible in SerialAgent. *)
LEMMA Stutters == ASSUME UNCHANGED <<state, sent>>, Pending' = Pending PROVE SStep
BY DEF SStep, Serial!vars

(* A submission adds an action, and may lose the oldest. *)
LEMMA SubmitImplements ==
  ASSUME TypeOK, LeaseExclusive, LeaseExclusive', NEW c \in Client, NEW e \in Executor,
         NEW s \in {"idle", "waiting"}, Submit(c, e, s)
  PROVE  SStep
<1> DEFINE a == [id |-> sent', executor |-> e]
           q == Append(queue, a)
<1>1. sent' = sent + 1 /\ a \in Action /\ queue \in Seq(Action) /\ q \in Seq(Action)
  BY DEF Submit, TypeOK, Action
<1>2. Ids(q) = Append(Ids(queue), sent')
  BY <1>1, IdsAppend
<1>3. state' = state
  BY DEF Submit
<1>4. CASE Enqueue(c, q, s)
  <2>1. \A w \in Runner : pc'[w] = pc[w]
    BY <1>4, AgentAssumption DEF Enqueue, TypeOK, Proc
  <2>2. queue' = q /\ doing' = doing /\ Running' = Running
    BY <1>4, <2>1 DEF Enqueue, Submit, runnerVars, Running
  <2>3. Pending' = Append(Pending, sent')
    <3>1. CASE NoneRunning
      <4>1. NoneRunning'
        BY <3>1, <2>1 DEF NoneRunning
      <4> HIDE DEF q
      <4> QED
        BY <1>1, <1>2, <2>2, <3>1, <4>1, PendingIdle, PendingIdleNext
    <3>2. CASE ~NoneRunning
      <4>1. PICK w \in Runner : Running = {w}
        BY <3>2 DEF NoneRunning, Running, LeaseExclusive, Holders, Proc
      <4>2. doing[w] \in Nat /\ sent' \in Nat /\ Ids(queue) \in Seq(Nat)
        BY <1>1, IdsElements DEF TypeOK, Submit
      <4>3. Pending = <<doing[w]>> \o Ids(queue)
        BY <4>1, PendingBusy
      <4>4. Pending' = <<doing[w]>> \o Ids(q)
        BY <2>2, <4>1, PendingBusyNext
      <4>5. Append(<<doing[w]>> \o Ids(queue), sent') = <<doing[w]>> \o Append(Ids(queue), sent')
        BY <4>2, InFront
      <4> HIDE DEF q
      <4> QED
        BY <1>2, <4>3, <4>4, <4>5 
    <3> QED
      BY <3>1, <3>2
  <2> QED
    BY <1>1, <1>3, <2>3 DEF SStep, Serial!Next, Serial!Submit, Serial!Keep
<1>5. CASE StartQueue(c, q, s)
  <2> HIDE DEF q
  <2>1. ScheduleNext(c, q, s, pc) /\ ~active
    BY <1>5, StartQueueSchedules DEF StartQueue
  <2>2. c \in Proc /\ Resting(c, s) /\ Holders \subseteq {c}
    BY <2>1 DEF Proc, Resting, Rest, LeaseExclusive
  <2>3. NoneRunning /\ NoneRunning' /\ queue' \in Seq(Action)
    BY <1>1, <2>1, <2>2, ScheduleLease, ScheduleType, LeaseNoneRunning DEF NoneRunning
  <2>4. Pending = Ids(queue) /\ Pending' = Ids(queue')
    BY <1>1, <2>3, PendingIdle, PendingIdleNext
  <2>5. \/ Pending' = Append(Pending, sent')
        \/ /\ Append(Pending, sent') # <<>>
           /\ Pending' = Tail(Append(Pending, sent'))
    BY <1>1, <1>2, <2>1, <2>4, ScheduleQueue, IdsTail
  <2> QED
    BY <1>1, <1>3, <2>5
       DEF SStep, Serial!Next, Serial!Submit, Serial!Keep, Serial!GiveUpOne
<1> QED
  BY <1>4, <1>5 DEF Submit

(* A restart that schedules, and one whose watch raises. *)
LEMMA RestartImplements ==
  ASSUME TypeOK, LeaseExclusive, NEW c \in Client, Restart(c) \/ RestartWatchRaises(c)
  PROVE  SStep
<1>1. queue \in Seq(Action) /\ NoneRunning /\ Holders \subseteq {c}
  BY LeaseNoneRunning DEF TypeOK, Restart, RestartWatchRaises, MayRestart, LeaseExclusive
<1>2. Pending = Ids(queue)
  BY <1>1, PendingIdle
<1>3. CASE Restart(c)
  <2>1. PICK q \in {queue, <<>>} : ScheduleNext(c, q, "idle", Notify)
    BY <1>3 DEF Restart
  <2>2. q \in Seq(Action) /\ c \in Proc /\ Resting(c, "idle")
    BY <1>1, <2>1, EmptyIsSeq DEF Proc, Resting, Rest
  <2>3. NoneRunning' /\ queue' \in Seq(Action)
    BY <1>1, <2>1, <2>2, ScheduleLease, ScheduleType DEF NoneRunning
  <2>4. Pending' = Ids(queue')
    BY <2>3, PendingIdleNext
  <2>5. \/ queue' = queue
        \/ queue' = <<>>
        \/ queue # <<>> /\ queue' = Tail(queue)
    BY <2>1, <2>2, ScheduleQueue
  <2>6. Ids(<<>>) = <<>>
    BY DEF Ids
  <2>7. \/ Pending' = Pending
        \/ Pending' = <<>>
        \/ Pending # <<>> /\ Pending' = Tail(Pending)
    BY <1>1, <1>2, <2>4, <2>5, <2>6, IdsTail
  <2> QED
    BY <1>3, <2>7 DEF Restart, clientVars, SStep, Serial!Next, Serial!Restart,
                      Serial!Keep, Serial!GiveUpOne
<1>4. CASE RestartWatchRaises(c)
  <2>1. Pending' = Pending
    BY <1>4, PendingSame DEF RestartWatchRaises, runnerVars, Running
  <2> QED
    BY <1>4, <2>1 DEF RestartWatchRaises, clientVars, SStep, Serial!Next,
                      Serial!Restart, Serial!Keep
<1> QED
  BY <1>3, <1>4

(* Every call of a client is a step of SerialAgent or none. *)
LEMMA CallsImplement ==
  ASSUME TypeOK, LeaseExclusive, LeaseExclusive', NEW c \in Client, Calls(c)
  PROVE  SStep
<1>1. CASE Send(c)
  BY <1>1, SubmitImplements DEF Send
<1>2. CASE Await(c)
  BY <1>2, SubmitImplements DEF Await
<1>3. CASE AwaitAgent(c)
  <2>1. Running' = Running
    BY <1>3, AgentAssumption DEF AwaitAgent, Running, TypeOK, Proc
  <2> QED
    BY <1>3, <2>1, PendingSame, Stutters DEF AwaitAgent, runnerVars
<1>4. CASE TimesOut(c)
  <2>1. Running' = Running
    BY <1>4, AgentAssumption DEF TimesOut, Running, TypeOK, Proc
  <2> QED
    BY <1>4, <2>1, PendingSame, Stutters DEF TimesOut, runnerVars, clientVars
<1>5. CASE Restart(c) \/ RestartWatchRaises(c)
  BY <1>5, RestartImplements
<1>6. CASE ClearError(c)
  <2>1. Running' = Running
    BY <1>6, NotifyType DEF ClearError, Running
  <2> QED
    BY <1>6, <2>1, PendingSame, Stutters DEF ClearError, runnerVars, clientVars
<1>7. CASE SetErrorMode(c)
  BY <1>7, PendingSame, Stutters DEF SetErrorMode, runnerVars, clientVars, Running
<1> QED
  BY <1>1, <1>2, <1>3, <1>4, <1>5, <1>6, <1>7 DEF Calls

(* A runner takes, applies or gives up the oldest pending action. *)
LEMMA RunsImplement ==
  ASSUME TypeOK, LeaseExclusive, NEW w \in Runner, Runs(w)
  PROVE  SStep
<1> USE AgentAssumption
<1>0. /\ w \in Proc /\ w \in Holders /\ Holders = {w} /\ queue \in Seq(Action)
      /\ doing \in [Runner -> Nat]
  BY DEF Runs, Start, Succeeds, Fails, FailsToStart, LeaseExclusive, Holders, Proc,
         TypeOK
<1>1. CASE Start(w)
  <2>1. queue # <<>>
    BY <1>1 DEF Start, LeaseExclusive
  <2>2. NoneRunning /\ Running' = {w}
    BY <1>0, <1>1, <2>1, LeaseNoneRunning DEF Start, TypeOK, Running, NoneRunning, Proc
  <2>3. Pending = Ids(queue) /\ Pending' = <<doing'[w]>> \o Ids(queue')
    BY <1>0, <2>2, PendingIdle, PendingBusyNext
  <2>4. doing'[w] = Head(queue).id /\ queue' = Tail(queue)
    BY <1>0, <1>1, <2>1 DEF Start
  <2>5. Pending' = Pending
    BY <1>0, <2>1, <2>3, <2>4, IdsTail
  <2> QED
    BY <1>1, <2>5, Stutters DEF Start, clientVars
<1>2. CASE Succeeds(w) \/ Fails(w)
  <2>1. Running = {w} /\ doing[w] \in Nat /\ Ids(queue) \in Seq(Nat)
    BY <1>0, <1>2, IdsElements DEF Succeeds, Fails, Running, Holders, Proc
  <2>2. Pending = <<doing[w]>> \o Ids(queue)
    BY <2>1, PendingBusy
  <2>3. Pending # <<>> /\ Head(Pending) = doing[w] /\ Tail(Pending) = Ids(queue)
    BY <2>1, <2>2, InFront
  <2>4. CASE Succeeds(w)
    <3>1. ScheduleNext(w, queue, "free", pc) /\ Resting(w, "free")
      BY <2>4 DEF Succeeds, Resting, Rest
    <3>2. NoneRunning' /\ queue' \in Seq(Action)
      BY <1>0, <3>1, ScheduleLease, ScheduleType DEF NoneRunning
    <3>3. Pending' = Ids(queue')
      BY <3>2, PendingIdleNext
    <3>4. \/ Pending' = Tail(Pending)
          \/ Tail(Pending) # <<>> /\ Pending' = Tail(Tail(Pending))
      BY <1>0, <2>3, <3>1, <3>3, ScheduleQueue, IdsTail
    <3>5. state' = Append(state, Head(Pending))
      BY <2>3, <2>4 DEF Succeeds, LeaseExclusive
    <3> QED
      BY <2>3, <2>4, <3>4, <3>5 DEF Succeeds, clientVars, SStep, Serial!Next,
                                    Serial!Apply, Serial!Keep, Serial!GiveUpOne
  <2>5. CASE Fails(w)
    <3>1. NoneRunning' /\ queue' = queue
      BY <1>0, <2>5 DEF Fails, NoneRunning, TypeOK, Holders, Proc
    <3>2. Pending' = Tail(Pending)
      BY <1>0, <2>3, <3>1, PendingIdleNext
    <3> QED
      BY <2>3, <2>5, <3>2 DEF Fails, clientVars, SStep, Serial!Next,
                              Serial!GiveUp, Serial!GiveUpOne
  <2> QED
    BY <1>2, <2>4, <2>5
<1>3. CASE FailsToStart(w)
  <2>1. NoneRunning /\ NoneRunning' /\ queue # <<>> /\ queue' = Tail(queue)
    BY <1>0, <1>3, LeaseNoneRunning DEF FailsToStart, NoneRunning, TypeOK, Proc
  <2>2. queue' \in Seq(Action)
    BY <1>0, <2>1
  <2>3. Pending = Ids(queue) /\ Pending' = Ids(Tail(queue))
    BY <1>0, <2>1, <2>2, PendingIdle, PendingIdleNext
  <2>4. Pending # <<>> /\ Pending' = Tail(Pending)
    BY <1>0, <2>1, <2>3, IdsTail
  <2> QED
    BY <1>3, <2>4 DEF FailsToStart, clientVars, SStep, Serial!Next,
                      Serial!GiveUp, Serial!GiveUpOne
<1> QED
  BY <1>1, <1>2, <1>3 DEF Runs

(* Handling a failure gives up at most the oldest action. *)
LEMMA FaultImplements ==
  ASSUME TypeOK, LeaseExclusive, LeaseExclusive', NEW p \in Proc, Fault(p)
  PROVE  SStep
<1> USE AgentAssumption
<1>0. p \in Holders /\ Holders = {p} /\ NoneRunning /\ queue \in Seq(Action)
  BY LeaseNoneRunning DEF Fault, Record, Handled, LeaseExclusive, Holders, TypeOK
<1>1. CASE Record(p)
  <2>1. Running' = Running
    BY <1>0, <1>1 DEF Record, TypeOK, Running, NoneRunning, Proc
  <2> QED
    BY <1>1, <2>1, PendingSame, Stutters DEF Record, runnerVars, clientVars
<1>2. CASE Handled(p) /\ Continue(p)
  <2>1. ScheduleNext(p, queue, Rest(p), pc) /\ Resting(p, Rest(p))
    BY <1>2 DEF Continue, Resting
  <2>2. NoneRunning' /\ queue' \in Seq(Action)
    BY <1>0, <2>1, ScheduleLease, ScheduleType DEF NoneRunning
  <2>3. Pending = Ids(queue) /\ Pending' = Ids(queue')
    BY <1>0, <2>2, PendingIdle, PendingIdleNext
  <2>4. \/ Pending' = Pending
        \/ Pending # <<>> /\ Pending' = Tail(Pending)
    BY <1>0, <2>1, <2>3, ScheduleQueue, IdsTail
  <2>5. CASE Pending' = Pending
    BY <1>2, <2>5, Stutters DEF Handled, clientVars
  <2>6. CASE Pending # <<>> /\ Pending' = Tail(Pending)
    BY <1>2, <2>6 DEF Handled, clientVars, SStep, Serial!Next,
                      Serial!GiveUp, Serial!GiveUpOne
  <2> QED
    BY <2>4, <2>5, <2>6
<1>3. CASE Handled(p) /\ Stop(p)
  <2>1. Running' = Running
    BY <1>0, <1>3
       DEF Stop, GoIdle, Notify, Running, NoneRunning, Rest, Proc
  <2> QED
    BY <1>3, <2>1, PendingSame, Stutters DEF Handled, Stop, runnerVars, clientVars
<1> QED
  BY <1>1, <1>2, <1>3 DEF Fault, Handled

(* Initially nothing has been submitted. *)
LEMMA InitImplements == ASSUME Init PROVE Serial!Init
<1>1. queue = <<>> /\ NoneRunning
  BY AgentAssumption DEF Init, NoneRunning, Proc, Rest
<1>2. Pending = Ids(<<>>)
  BY <1>1, PendingIdle, EmptyIsSeq
<1> QED
  BY <1>2 DEF Init, Serial!Init, Ids

(* Every step is a step of SerialAgent or none. *)
LEMMA StepImplements ==
  TypeOK /\ LeaseExclusive /\ LeaseExclusive' /\ [Next]_vars => [Serial!Next]_(Serial!vars)
<1> SUFFICES ASSUME TypeOK, LeaseExclusive, LeaseExclusive', [Next]_vars PROVE SStep
  BY DEF SStep
<1>1. ASSUME NEW c \in Client, Check(c) PROVE SStep
  <2>1. Running' = Running
    BY <1>1, AgentAssumption DEF Check, Running, TypeOK, Proc
  <2> QED
    BY <1>1, <2>1, PendingSame, Stutters DEF Check, runnerVars, clientVars
<1>2. ASSUME NEW e \in Executor, Shutdown(e) PROVE SStep
  BY <1>2, PendingSame, Stutters DEF Shutdown, runnerVars, clientVars, Running
<1>3. CASE UNCHANGED vars
  BY <1>3, PendingSame, Stutters DEF vars, runnerVars, clientVars, Running
<1> QED
  BY <1>1, <1>2, <1>3, CallsImplement, RunsImplement, FaultImplements DEF Next

(* An agent applies submitted actions one at a time and in order, each to    *)
(* the value left by the one before.                                         *)
THEOREM AgentImplements == Spec => Serialized
<1>1. Init => Serial!Init
  BY InitImplements
<1>2. TypeOK /\ LeaseExclusive /\ LeaseExclusive' /\ [Next]_vars
        => [Serial!Next]_(Serial!vars)
  BY StepImplements
<1>3. Spec => []TypeOK /\ []LeaseExclusive
  BY AgentTypeCorrect, LeaseIsExclusive
<1> QED
  BY <1>1, <1>2, <1>3, PTL DEF Spec, Serialized, Serial!Spec

----------------------------------------------------------------------------
(* Refused actions.                                                        *)

Members(s) == {s[i] : i \in DOMAIN s}

(* The members of a sequence that grows at its end or loses its head. *)
LEMMA MembersOf ==
  ASSUME NEW s \in Seq(Nat), NEW x \in Nat
  PROVE  /\ Members(s) \subseteq Nat
         /\ Append(s, x) \in Seq(Nat)
         /\ Members(Append(s, x)) = Members(s) \cup {x}
         /\ s # <<>> => /\ Head(s) \in Members(s)
                       /\ Tail(s) \in Seq(Nat)
                       /\ Members(Tail(s)) \subseteq Members(s)
<1>1. Len(s) \in Nat /\ DOMAIN s = 1..Len(s) /\ \A i \in 1..Len(s) : s[i] \in Nat
  BY LenProperties, ElementOfSeq
<1>2. Members(s) \subseteq Nat
  BY <1>1 DEF Members
<1>3. /\ Append(s, x) \in Seq(Nat) /\ DOMAIN Append(s, x) = 1..(Len(s) + 1)
      /\ \A i \in 1..Len(s) : Append(s, x)[i] = s[i]
      /\ Append(s, x)[Len(s) + 1] = x
  BY <1>1, AppendProperties
<1>4. Members(Append(s, x)) = Members(s) \cup {x}
  <2>1. \A y \in Members(Append(s, x)) : y \in Members(s) \cup {x}
    BY <1>1, <1>3 DEF Members
  <2>2. \A y \in Members(s) : y \in Members(Append(s, x))
    BY <1>1, <1>3 DEF Members
  <2>3. x \in Members(Append(s, x))
    BY <1>1, <1>3 DEF Members
  <2> QED
    BY <2>1, <2>2, <2>3
<1>5. ASSUME s # <<>>
      PROVE  Head(s) \in Members(s) /\ Tail(s) \in Seq(Nat) /\ Members(Tail(s)) \subseteq Members(s)
  <2>1. /\ Head(s) = s[1] /\ Tail(s) \in Seq(Nat) /\ Len(Tail(s)) = Len(s) - 1
        /\ \A i \in 1..(Len(s) - 1) : Tail(s)[i] = s[i + 1]
        /\ Len(s) >= 1
    BY <1>1, <1>5, HeadTailProperties, EmptySeq
  <2>2. DOMAIN Tail(s) = 1..(Len(s) - 1)
    BY <2>1, LenProperties
  <2> QED
    BY <1>1, <2>1, <2>2 DEF Members
<1> QED
  BY <1>2, <1>3, <1>4, <1>5

(* What is pending is a sequence of numbers. *)
LEMMA PendingIsSeq == ASSUME TypeOK, LeaseExclusive PROVE Pending \in Seq(Nat)
<1>1. queue \in Seq(Action) /\ Ids(queue) \in Seq(Nat)
  BY IdsElements DEF TypeOK
<1>2. CASE NoneRunning
  BY <1>1, <1>2, PendingIdle
<1>3. CASE ~NoneRunning
  <2>1. PICK w \in Runner : Running = {w}
    BY <1>3 DEF NoneRunning, Running, LeaseExclusive, Holders, Proc
  <2>2. Pending = <<doing[w]>> \o Ids(queue) /\ <<doing[w]>> \in Seq(Nat)
    BY <2>1, PendingBusy DEF TypeOK
  <2> QED
    BY <1>1, <2>2, ConcatProperties
<1> QED
  BY <1>2, <1>3

(* In SerialAgent no number comes from nowhere. *)
LEMMA NumbersComeFromSubmissions ==
  ASSUME TypeOK, LeaseExclusive, SStep
  PROVE  /\ sent' \in {sent, sent + 1}
         /\ Members(state') \cup Members(Pending')
              \subseteq Members(state) \cup Members(Pending) \cup ({sent'} \ {sent})
<1>1. /\ state \in Seq(Nat) /\ Pending \in Seq(Nat) /\ sent \in Nat /\ sent + 1 \in Nat
      /\ sent + 1 # sent
  BY PendingIsSeq DEF TypeOK
<1>2. Members(<<>>) = {}
  BY DEF Members
<1>3. CASE Serial!Submit
  <2>1. /\ sent' = sent + 1 /\ state' = state
        /\ \/ Pending' = Append(Pending, sent + 1)
           \/ Append(Pending, sent + 1) # <<>> /\ Pending' = Tail(Append(Pending, sent + 1))
    BY <1>3 DEF Serial!Submit, Serial!Keep, Serial!GiveUpOne
  <2>2. /\ Append(Pending, sent + 1) \in Seq(Nat)
        /\ Members(Append(Pending, sent + 1)) = Members(Pending) \cup {sent + 1}
    BY <1>1, MembersOf
  <2>3. Members(Pending') \subseteq Members(Append(Pending, sent + 1))
    BY <1>1, <2>1, <2>2, MembersOf
  <2> QED
    BY <1>1, <2>1, <2>2, <2>3
<1>4. CASE Serial!Apply
  <2>1. /\ Pending # <<>> /\ state' = Append(state, Head(Pending)) /\ sent' = sent
        /\ \/ Pending' = Tail(Pending)
           \/ Tail(Pending) # <<>> /\ Pending' = Tail(Tail(Pending))
    BY <1>4 DEF Serial!Apply, Serial!Keep, Serial!GiveUpOne
  <2>2. Head(Pending) \in Members(Pending) /\ Head(Pending) \in Nat /\ Tail(Pending) \in Seq(Nat)
    BY <1>1, <2>1, MembersOf
  <2>3. Members(state') = Members(state) \cup {Head(Pending)}
    BY <1>1, <2>1, <2>2, MembersOf
  <2>4. Members(Pending') \subseteq Members(Pending)
    BY <1>1, <2>1, <2>2, MembersOf
  <2> QED
    BY <2>1, <2>2, <2>3, <2>4
<1>5. CASE Serial!GiveUp
  <2>1. Pending # <<>> /\ Pending' = Tail(Pending) /\ state' = state /\ sent' = sent
    BY <1>5 DEF Serial!GiveUp, Serial!GiveUpOne
  <2> QED
    BY <1>1, <2>1, MembersOf
<1>6. CASE Serial!Restart
  <2>1. /\ state' \in {state, <<>>} /\ sent' = sent
        /\ \/ Pending' \in {Pending, <<>>}
           \/ Pending # <<>> /\ Pending' = Tail(Pending)
    BY <1>6 DEF Serial!Restart, Serial!Keep, Serial!GiveUpOne
  <2>2. Members(Pending') \subseteq Members(Pending)
    BY <1>1, <1>2, <2>1, MembersOf
  <2>3. Members(state') \subseteq Members(state)
    BY <1>2, <2>1
  <2> QED
    BY <2>1, <2>2, <2>3
<1>7. CASE UNCHANGED Serial!vars
  BY <1>7 DEF Serial!vars
<1> QED
  BY <1>3, <1>4, <1>5, <1>6, <1>7 DEF SStep, Serial!Next

Numbered == Members(state) \cup Members(Pending) \cup refused \subseteq 1..sent

(* An action is refused only as it is submitted to an agent that has nothing *)
(* else to do, and is gone. *)
LEMMA RefusedStep ==
  ASSUME TypeOK, LeaseExclusive, QueueNotStalled, [Next]_vars
  PROVE  \/ refused' = refused
         \/ /\ refused' = refused \cup {sent'} /\ sent' = sent + 1
            /\ state' = state /\ Members(Pending') = {}
<1> USE AgentAssumption
<1>1. ASSUME NEW c \in Client, NEW e \in Executor, NEW s \in {"idle", "waiting"},
             Submit(c, e, s), refused' # refused
      PROVE  /\ refused' = refused \cup {sent'} /\ sent' = sent + 1
             /\ state' = state /\ Members(Pending') = {}
  <2> DEFINE a == [id |-> sent', executor |-> e]
             q == Append(queue, a)
  <2>1. StartQueue(c, q, s) /\ ~active /\ Refuse(c, q, pc) /\ refused' = refused \cup {sent'}
    BY <1>1 DEF Submit, Enqueue, StartQueue
  <2>2. queue = <<>>
    BY <1>1, <2>1 DEF Submit, QueueNotStalled
  <2>3. queue' = <<>>
    <3>1. a \in Action
      BY <1>1 DEF Submit, Action, TypeOK
    <3> HIDE DEF a
    <3>2. Tail(Append(<<>>, a)) = <<>>
      BY <3>1
    <3> QED
      BY <2>1, <2>2, <3>2 DEF Refuse
  <2>4. NoneRunning'
    <3>1. NoneRunning
      BY <2>1, LeaseNoneRunning
    <3>2. pc' = [pc EXCEPT ![c] = "error"]
      BY <2>1 DEF Refuse
    <3> QED
      BY <3>1, <3>2 DEF NoneRunning, TypeOK, Proc
  <2>5. Pending' = Ids(<<>>)
    BY <2>3, <2>4, PendingIdleNext, EmptyIsSeq
  <2>6. Members(Ids(<<>>)) = {}
    BY DEF Ids, Members
  <2> QED
    BY <1>1, <2>1, <2>5, <2>6 DEF Submit
<1>2. ASSUME NEW c \in Client, Send(c) \/ Await(c), refused' # refused
      PROVE  \E e \in Executor, s \in {"idle", "waiting"} : Submit(c, e, s)
  BY <1>2 DEF Send, Await
<1>3. ASSUME NEW c \in Client, Calls(c) \/ Check(c), ~Send(c), ~Await(c)
      PROVE  refused' = refused
  BY <1>3 DEF Calls, AwaitAgent, TimesOut, Restart, RestartWatchRaises, ClearError,
              SetErrorMode, Check, clientVars
<1>4. ASSUME NEW p \in Proc, (p \in Runner /\ Runs(p)) \/ Fault(p)
      PROVE  refused' = refused
  BY <1>4 DEF Runs, Start, Succeeds, Fails, FailsToStart, Fault, Record, Handled, clientVars
<1>5. ASSUME NEW e \in Executor, Shutdown(e) PROVE refused' = refused
  BY <1>5 DEF Shutdown, clientVars
<1>6. CASE UNCHANGED vars
  BY <1>6 DEF vars, clientVars
<1> QED
  BY <1>1, <1>2, <1>3, <1>4, <1>5, <1>6 DEF Next, Proc, Calls

(* Every step leaves refused actions behind. *)
LEMMA RefusedInvStep ==
  TypeOK /\ LeaseExclusive /\ LeaseExclusive' /\ QueueNotStalled /\ Numbered
    /\ RefusedNeverRuns /\ [Next]_vars => Numbered' /\ RefusedNeverRuns'
<1> SUFFICES ASSUME TypeOK, LeaseExclusive, LeaseExclusive', QueueNotStalled, Numbered,
                    RefusedNeverRuns, [Next]_vars
             PROVE  Numbered' /\ RefusedNeverRuns'
  OBVIOUS
<1>1. SStep /\ sent \in Nat
  BY StepImplements DEF SStep, TypeOK
<1>2. /\ sent' \in {sent, sent + 1}
      /\ Members(state') \cup Members(Pending')
           \subseteq Members(state) \cup Members(Pending) \cup ({sent'} \ {sent})
  BY <1>1, NumbersComeFromSubmissions
<1>3. \/ refused' = refused
      \/ /\ refused' = refused \cup {sent'} /\ sent' = sent + 1
         /\ state' = state /\ Members(Pending') = {}
  BY RefusedStep
<1>4. 1..sent \subseteq 1..sent' /\ {sent'} \ {sent} \subseteq 1..sent' /\ sent + 1 \notin 1..sent
  BY <1>1, <1>2
<1>5. Members(state') \cup Members(Pending') \cup refused' \subseteq 1..sent'
  BY <1>1, <1>2, <1>3, <1>4 DEF Numbered
<1>6. refused \cap (Members(state) \cup Members(Pending)) = {}
  BY DEF RefusedNeverRuns, Members
<1>7. refused' \cap (Members(state') \cup Members(Pending')) = {}
  BY <1>1, <1>2, <1>3, <1>4, <1>6 DEF Numbered
<1>8. Members(state)' = Members(state') /\ Members(Pending)' = Members(Pending')
  BY DEF Members
<1>9. Numbered'
  BY <1>5, <1>8 DEF Numbered
<1> QED
  BY <1>7, <1>9 DEF RefusedNeverRuns, Members

(* An action that was refused as it was submitted is never run, if nobody    *)
(* clears errors or changes the error mode.                                  *)
THEOREM RefusedIsGone == ASSUME ErrorsStay PROVE Spec => []RefusedNeverRuns
<1>1. Init => Numbered /\ RefusedNeverRuns
  <2> SUFFICES ASSUME Init PROVE Numbered /\ RefusedNeverRuns
    OBVIOUS
  <2>1. Pending = <<>> /\ state = <<>> /\ refused = {}
    BY InitImplements DEF Serial!Init, Init
  <2> QED
    BY <2>1 DEF Numbered, RefusedNeverRuns, Members
<1>2. TypeOK /\ LeaseExclusive /\ LeaseExclusive' /\ QueueNotStalled /\ Numbered
        /\ RefusedNeverRuns /\ [Next]_vars => Numbered' /\ RefusedNeverRuns'
  BY RefusedInvStep
<1>3. Spec => []QueueNotStalled
  BY ErrorsStay, NothingStalls
<1> QED
  BY <1>1, <1>2, <1>3, AgentTypeCorrect, LeaseIsExclusive, PTL DEF Spec
=============================================================================
