--------------------------------- MODULE Stm ---------------------------------
(***************************************************************************)
(* The optimistic software transactional memory of basilisp.lang.stm: Refs  *)
(* with a version, a validator and a lock; transactions that record the     *)
(* version of what they first read, stage writes, and at commit lock every  *)
(* Ref they touched, compare versions, validate, publish and unlock.        *)
(*                                                                         *)
(* A transaction body is any sequence of at most MaxBodyOps operations; it  *)
(* may raise at any point.  Values are opaque; a function passed to alter   *)
(* or commute is a member of Fn; a validator is the set of values it        *)
(* accepts (Value itself: no validator).  Nested run_transaction calls join *)
(* the outer transaction and so add nothing to a body.                      *)
(***************************************************************************)
EXTENDS Integers, Sequences, FiniteSets

CONSTANTS
  Thread, Nobody,    \* threads, and the owner of a free lock
  Ref,               \* Refs, by id(): the order in which commit locks them
  Value, NoValue,    \* values, and the absence of one
  Fn,                \* functions bodies pass to alter and commute
  Validator,         \* validators each Ref may be given
  ValidatorReads,    \* Refs the validator of each Ref dereferences
  Limit,             \* max_attempts arguments; 0 stands for None
  MinHistory,        \* minimum-history controls each Ref may be given
  BodyOps,           \* bound: kinds of operation bodies use
  MaxBodyOps,        \* bound: operations in one body
  MaxTransactions    \* bound: transactions each thread runs

OpKind == {"deref", "alter", "ref-set", "commute", "ensure", "after-commit",
           "set-validator!"}

ASSUME StmAssumption ==
  /\ Nobody \notin Thread
  /\ Ref \subseteq Nat
  /\ NoValue \notin Value
  /\ Fn \subseteq [Value -> Value]
  /\ Validator \in [Ref -> SUBSET SUBSET Value]
  /\ ValidatorReads \in [Ref -> SUBSET Ref]
  /\ Limit \subseteq Nat
  /\ MinHistory \in [Ref -> SUBSET Int]
  /\ BodyOps \subseteq OpKind
  /\ MaxBodyOps \in Nat
  /\ MaxTransactions \in Nat

VARIABLES
  \* Ref
  state, version, validator, lock, minHistory, historyLen,
  \* _Transaction
  reads,      \* first value and version read of each Ref, or NoRead
  writes,     \* staged by alter and ref-set
  commuted,   \* Refs with commute operations recorded
  replay,     \* the recorded commute operations of a Ref, composed
  staged,     \* in-transaction result of those operations
  ensured,    \* Refs passed to ensure
  deferred,   \* after-commit actions: the attempt that registered each
  changes,    \* values commit is about to publish
  \* run_transaction
  pc, todo,   \* the phase of each thread and the Refs it has left to visit
  outcome, attempts, limit, ops, started,
  \* what the body did, in the terms of SerialStore
  effect, legal

refVars   == <<state, version, validator, lock, minHistory, historyLen>>
txVars    == <<reads, writes, commuted, replay, staged, ensured, deferred,
               changes, effect, legal>>
runVars   == <<pc, todo, outcome, attempts, limit, ops, started>>
vars      == <<refVars, txVars, runVars>>

Phase   == {"idle", "body", "locking", "publishing", "releasing", "notifying"}
Outcome == {"none", "conflict", "invalid", "committed"}
NoRead  == [value |-> NoValue, version |-> 0]
Same    == [v \in Value |-> v]
----------------------------------------------------------------------------
(* What a transaction holds.                                               *)

Recorded(t, r) == reads[t][r] # NoRead
Written(t)     == {r \in Ref : writes[t][r] # NoValue}
PureCommute(t) == commuted[t] \ Written(t)
Changed(t)     == Written(t) \cup commuted[t]

\* Mutant: only what will be written or was ensured is checked.
CheckedWhenWritten(t) == {r \in Written(t) \cup ensured[t] : Recorded(t, r)}

Checked(t)     == {r \in Ref : Recorded(t, r)} \ (PureCommute(t) \ ensured[t])

\* Mutant: Refs that are only commuted, whose version is not compared, are not locked.
CheckedOrWritten(t) == Checked(t) \cup Written(t)

Participant(t) == {r \in Ref : Recorded(t, r)} \cup Changed(t)

Known(t, r) == writes[t][r] # NoValue \/ staged[t][r] # NoValue \/ Recorded(t, r)

(* _Transaction.read: own writes, then own commutes, then the first read. *)
Look(t, r) ==
  IF writes[t][r] # NoValue THEN writes[t][r]
  ELSE IF staged[t][r] # NoValue THEN staged[t][r]
  ELSE IF Recorded(t, r) THEN reads[t][r].value
  ELSE state[r]

(* Ref._read_committed takes the lock of a Ref not seen before. *)
Record(t, r) ==
  /\ Known(t, r) \/ lock[r] = Nobody
  /\ reads' = IF Known(t, r) THEN reads
              ELSE [reads EXCEPT ![t][r] =
                      [value |-> state[r], version |-> version[r]]]

\* Mutants: one _Transaction serves every attempt of run_transaction.
KeepReads(t)    == UNCHANGED reads
KeepDeferred(t) == UNCHANGED deferred

NoReadYet(t)     == reads' = [reads EXCEPT ![t] = [r \in Ref |-> NoRead]]
NoDeferredYet(t) == deferred' = [deferred EXCEPT ![t] = <<>>]

NewTransaction(t) ==
  /\ NoReadYet(t)
  /\ NoDeferredYet(t)
  /\ writes'   = [writes EXCEPT ![t] = [r \in Ref |-> NoValue]]
  /\ commuted' = [commuted EXCEPT ![t] = {}]
  /\ replay'   = [replay EXCEPT ![t] = [r \in Ref |-> Same]]
  /\ staged'   = [staged EXCEPT ![t] = [r \in Ref |-> NoValue]]
  /\ ensured'  = [ensured EXCEPT ![t] = {}]
  /\ changes'  = [changes EXCEPT ![t] = [r \in Ref |-> NoValue]]
  /\ effect'   = [effect EXCEPT ![t] = [r \in Ref |-> Same]]
  /\ legal'    = [legal EXCEPT ![t] = [r \in Ref |-> Value]]
  /\ ops'      = [ops EXCEPT ![t] = 0]

(* The body is shown v for r; the body applies f to r. *)
Shown(t, r, v)   == legal' = [legal EXCEPT ![t][r] = {x \in @ : effect'[t][r][x] = v}]
Applied(t, r, f) == effect' = [effect EXCEPT ![t][r] = [x \in Value |-> f[@[x]]]]

Init ==
  /\ state \in [Ref -> Value]
  /\ version = [r \in Ref |-> 0]
  /\ validator \in [Ref -> SUBSET Value]
  /\ \A r \in Ref : validator[r] \in Validator[r] /\ state[r] \in validator[r]
  /\ lock = [r \in Ref |-> Nobody]
  /\ minHistory = [r \in Ref |-> 0]
  /\ historyLen = [r \in Ref |-> 0]
  /\ reads = [t \in Thread |-> [r \in Ref |-> NoRead]]
  /\ writes = [t \in Thread |-> [r \in Ref |-> NoValue]]
  /\ commuted = [t \in Thread |-> {}]
  /\ replay = [t \in Thread |-> [r \in Ref |-> Same]]
  /\ staged = [t \in Thread |-> [r \in Ref |-> NoValue]]
  /\ ensured = [t \in Thread |-> {}]
  /\ deferred = [t \in Thread |-> <<>>]
  /\ changes = [t \in Thread |-> [r \in Ref |-> NoValue]]
  /\ effect = [t \in Thread |-> [r \in Ref |-> Same]]
  /\ legal = [t \in Thread |-> [r \in Ref |-> Value]]
  /\ pc = [t \in Thread |-> "idle"]
  /\ todo = [t \in Thread |-> {}]
  /\ outcome = [t \in Thread |-> "none"]
  /\ attempts = [t \in Thread |-> 0]
  /\ limit = [t \in Thread |-> 0]
  /\ ops = [t \in Thread |-> 0]
  /\ started = [t \in Thread |-> 0]
----------------------------------------------------------------------------
(* The transaction body.                                                   *)

Begin(t) ==
  /\ pc[t] = "idle"
  /\ started[t] < MaxTransactions
  /\ pc' = [pc EXCEPT ![t] = "body"]
  /\ started' = [started EXCEPT ![t] = @ + 1]
  /\ attempts' = [attempts EXCEPT ![t] = 1]
  /\ \E n \in Limit : limit' = [limit EXCEPT ![t] = n]
  /\ NewTransaction(t)
  /\ UNCHANGED <<refVars, todo, outcome>>

BodyOp(t, kind) ==
  /\ pc[t] = "body"
  /\ kind \in BodyOps
  /\ ops[t] < MaxBodyOps
  /\ ops' = [ops EXCEPT ![t] = @ + 1]
  /\ UNCHANGED <<state, version, lock, minHistory, historyLen, changes,
                 pc, todo, outcome, attempts, limit, started>>

Deref(t, r) ==
  /\ BodyOp(t, "deref")
  /\ Record(t, r)
  /\ UNCHANGED <<validator, writes, commuted, replay, staged, ensured,
                 deferred, effect>>
  /\ Shown(t, r, Look(t, r))

(* Altering or setting a commuted Ref raises: see BodyRaises. *)
Alter(t, r, f) ==
  /\ BodyOp(t, "alter")
  /\ r \notin commuted[t]
  /\ Record(t, r)
  /\ writes' = [writes EXCEPT ![t][r] = f[Look(t, r)]]
  /\ Applied(t, r, f)
  /\ Shown(t, r, f[Look(t, r)])
  /\ UNCHANGED <<validator, commuted, replay, staged, ensured, deferred>>

RefSet(t, r, v) ==
  /\ BodyOp(t, "ref-set")
  /\ r \notin commuted[t]
  /\ Record(t, r)
  /\ writes' = [writes EXCEPT ![t][r] = v]
  /\ Applied(t, r, [x \in Value |-> v])
  /\ UNCHANGED <<validator, commuted, replay, staged, ensured, deferred, legal>>

Commute(t, r, f) ==
  /\ BodyOp(t, "commute")
  /\ Record(t, r)
  /\ commuted' = [commuted EXCEPT ![t] = @ \cup {r}]
  /\ replay' = [replay EXCEPT ![t][r] = [x \in Value |-> f[@[x]]]]
  /\ IF writes[t][r] # NoValue
     THEN /\ writes' = [writes EXCEPT ![t][r] = f[Look(t, r)]]
          /\ UNCHANGED staged
     ELSE /\ staged' = [staged EXCEPT ![t][r] = f[Look(t, r)]]
          /\ UNCHANGED writes
  /\ Applied(t, r, f)
  /\ UNCHANGED <<validator, ensured, deferred, legal>>

Ensure(t, r) ==
  /\ BodyOp(t, "ensure")
  /\ Record(t, r)
  /\ ensured' = [ensured EXCEPT ![t] = @ \cup {r}]
  /\ UNCHANGED <<validator, writes, commuted, replay, staged, deferred, effect>>
  /\ Shown(t, r, Look(t, r))

AfterCommit(t) ==
  /\ BodyOp(t, "after-commit")
  /\ deferred' = [deferred EXCEPT ![t] = Append(@, attempts[t])]
  /\ UNCHANGED <<validator, reads, writes, commuted, replay, staged, ensured,
                 effect, legal>>

(* set-validator! in a body checks the in-transaction value and installs the *)
(* validator at once; removing the validator checks nothing.                 *)
SetValidatorInBody(t, r, p) ==
  /\ BodyOp(t, "set-validator!")
  /\ lock[r] = Nobody
  /\ \/ p = Value /\ UNCHANGED reads
     \/ p # Value /\ Record(t, r) /\ Look(t, r) \in p
  /\ validator' = [validator EXCEPT ![r] = p]
  /\ UNCHANGED <<writes, commuted, replay, staged, ensured, deferred, effect, legal>>

(* The body raises: the transaction is dropped before any commit. *)
BodyRaises(t) ==
  /\ pc[t] = "body"
  /\ pc' = [pc EXCEPT ![t] = "idle"]
  /\ NewTransaction(t)
  /\ UNCHANGED <<refVars, todo, outcome, attempts, limit, started>>

BodyReturns(t) ==
  /\ pc[t] = "body"
  /\ pc' = [pc EXCEPT ![t] = "locking"]
  /\ todo' = [todo EXCEPT ![t] = Participant(t)]
  /\ UNCHANGED <<refVars, txVars, outcome, attempts, limit, ops, started>>
----------------------------------------------------------------------------
(* _Transaction.commit.                                                    *)

\* Mutant: Refs are locked in the order of the dictionaries that hold them.
InAnyOrder(t, r) == r \in todo[t]

IsNext(t, r) == r \in todo[t] /\ \A q \in todo[t] : r <= q

LockRef(t, r) ==
  /\ pc[t] = "locking"
  /\ IsNext(t, r)
  /\ lock[r] = Nobody
  /\ lock' = [lock EXCEPT ![r] = t]
  /\ todo' = [todo EXCEPT ![t] = @ \ {r}]
  /\ UNCHANGED <<state, version, validator, minHistory, historyLen, txVars, pc,
                 outcome, attempts, limit, ops, started>>

AllLocked(t)   == pc[t] = "locking" /\ todo[t] = {}
Conflicting(t) == \E r \in Checked(t) : version[r] # reads[t][r].version
NewValue(t, r) == IF r \in Written(t) THEN writes[t][r] ELSE replay[t][r][state[r]]

\* Mutant: commuted values are forgotten.
WritesOnly(t) == writes[t]

Changes(t) == [r \in Ref |-> IF r \in Changed(t) THEN NewValue(t, r) ELSE NoValue]

\* Mutant: the value about to be replaced is validated.
OldValid(t) == \A r \in Changed(t) : state[r] \in validator[r]

AllValid(t) == \A r \in Changed(t) : NewValue(t, r) \in validator[r]

(* Locks of Refs the transaction has not read that its validators read. *)
ValidatorWants(t) ==
  {r \in UNION {ValidatorReads[q] : q \in Changed(t)} : ~Known(t, r)}

CanValidate(t) ==
  /\ AllLocked(t)
  /\ ~Conflicting(t)
  /\ \A r \in ValidatorWants(t) : lock[r] \in {Nobody, t}

(* commit ends: locks are released whatever the outcome. *)
Decide(t, o, phase, visit) ==
  /\ outcome' = [outcome EXCEPT ![t] = o]
  /\ pc' = [pc EXCEPT ![t] = phase]
  /\ todo' = [todo EXCEPT ![t] = visit]
  /\ UNCHANGED <<refVars, attempts, limit, ops, started>>

CommitConflicts(t) ==
  /\ AllLocked(t)
  /\ Conflicting(t)
  /\ Decide(t, "conflict", "releasing", Participant(t))
  /\ UNCHANGED txVars

(* A validator rejects a value, or a commute function raises when replayed. *)
CommitInvalid(t) ==
  /\ CanValidate(t)
  /\ ~AllValid(t) \/ PureCommute(t) # {}
  /\ Decide(t, "invalid", "releasing", Participant(t))
  /\ UNCHANGED txVars

CommitAccepted(t) ==
  /\ CanValidate(t)
  /\ AllValid(t)
  /\ changes' = [changes EXCEPT ![t] = Changes(t)]
  /\ IF Changed(t) = {}
     THEN Decide(t, "committed", "releasing", Participant(t))
     ELSE Decide(t, "committed", "publishing", Changed(t))
  /\ UNCHANGED <<reads, writes, commuted, replay, staged, ensured, deferred,
                 effect, legal>>

\* Mutant: the version moves only when history is recorded.
BumpWithHistory(r) ==
  version' = [version EXCEPT ![r] = IF historyLen[r] < minHistory[r] THEN @ + 1 ELSE @]

Bump(r) == version' = [version EXCEPT ![r] = @ + 1]

Publish(t, r) ==
  /\ pc[t] = "publishing"
  /\ r \in todo[t]
  /\ historyLen' = [historyLen EXCEPT ![r] = IF @ < minHistory[r] THEN @ + 1 ELSE @]
  /\ state' = [state EXCEPT ![r] = changes[t][r]]
  /\ Bump(r)
  /\ IF todo[t] = {r}
     THEN /\ pc' = [pc EXCEPT ![t] = "releasing"]
          /\ todo' = [todo EXCEPT ![t] = Participant(t)]
     ELSE /\ todo' = [todo EXCEPT ![t] = @ \ {r}]
          /\ UNCHANGED pc
  /\ UNCHANGED <<validator, lock, minHistory, txVars, outcome, attempts, limit,
                 ops, started>>

(* The ExitStack releases in the reverse order of acquisition. *)
Release(t, r) ==
  /\ pc[t] = "releasing"
  /\ r \in todo[t]
  /\ \A q \in todo[t] : q <= r
  /\ lock' = [lock EXCEPT ![r] = Nobody]
  /\ todo' = [todo EXCEPT ![t] = @ \ {r}]
  /\ UNCHANGED <<state, version, validator, minHistory, historyLen, txVars, pc,
                 outcome, attempts, limit, ops, started>>
----------------------------------------------------------------------------
(* run_transaction after commit.                                           *)

Released(t, o) == pc[t] = "releasing" /\ todo[t] = {} /\ outcome[t] = o

MayRetry(t) == limit[t] = 0 \/ attempts[t] < limit[t]

Retry(t) ==
  /\ Released(t, "conflict")
  /\ MayRetry(t)
  /\ pc' = [pc EXCEPT ![t] = "body"]
  /\ outcome' = [outcome EXCEPT ![t] = "none"]
  /\ attempts' = [attempts EXCEPT ![t] = @ + 1]
  /\ NewTransaction(t)
  /\ UNCHANGED <<refVars, todo, limit, started>>

(* run_transaction returns or raises. *)
Leave(t) ==
  /\ pc' = [pc EXCEPT ![t] = "idle"]
  /\ outcome' = [outcome EXCEPT ![t] = "none"]
  /\ NewTransaction(t)
  /\ UNCHANGED <<refVars, todo, attempts, limit, started>>

GiveUp(t) == Released(t, "conflict") /\ ~MayRetry(t) /\ Leave(t)

CommitRaises(t) == Released(t, "invalid") /\ Leave(t)

StartNotifying(t) ==
  /\ Released(t, "committed")
  /\ pc' = [pc EXCEPT ![t] = "notifying"]
  /\ todo' = [todo EXCEPT ![t] = Changed(t)]
  /\ UNCHANGED <<refVars, txVars, outcome, attempts, limit, ops, started>>

(* The watches of one changed Ref run; if one raises the rest are skipped. *)
Notify(t, r) ==
  /\ pc[t] = "notifying"
  /\ r \in todo[t]
  /\ \/ todo' = [todo EXCEPT ![t] = @ \ {r}]
     \/ todo' = [todo EXCEPT ![t] = {}]
  /\ UNCHANGED <<refVars, txVars, pc, outcome, attempts, limit, ops, started>>

(* An after-commit action runs; if it raises the rest are skipped. *)
RunDeferred(t) ==
  /\ pc[t] = "notifying" /\ todo[t] = {}
  /\ deferred[t] # <<>>
  /\ \/ deferred' = [deferred EXCEPT ![t] = Tail(@)]
     \/ deferred' = [deferred EXCEPT ![t] = <<>>]
  /\ UNCHANGED <<refVars, runVars, reads, writes, commuted, replay, staged,
                 ensured, changes, effect, legal>>

Return(t) ==
  /\ pc[t] = "notifying" /\ todo[t] = {}
  /\ deferred[t] = <<>>
  /\ Leave(t)
----------------------------------------------------------------------------
(* Operations of threads outside any transaction, each under the Ref's lock. *)

SetValidator(r, p) ==
  /\ lock[r] = Nobody
  /\ state[r] \in p
  /\ validator' = [validator EXCEPT ![r] = p]
  /\ UNCHANGED <<state, version, lock, minHistory, historyLen, txVars, runVars>>

SetMinHistory(r, n) ==
  /\ lock[r] = Nobody
  /\ minHistory' = [minHistory EXCEPT ![r] = n]
  /\ UNCHANGED <<state, version, validator, lock, historyLen, txVars, runVars>>

(* Every thread has run all its transactions. *)
Finished ==
  /\ \A t \in Thread : pc[t] = "idle" /\ started[t] = MaxTransactions
  /\ UNCHANGED vars

Body(t) ==
  \/ \E r \in Ref :
       \/ Deref(t, r) \/ Ensure(t, r)
       \/ \E f \in Fn : Alter(t, r, f) \/ Commute(t, r, f)
       \/ \E v \in Value : RefSet(t, r, v)
       \/ \E p \in Validator[r] : SetValidatorInBody(t, r, p)
  \/ AfterCommit(t)

(* What a thread does by itself once it is in a transaction. *)
Proceed(t) ==
  \/ BodyRaises(t) \/ BodyReturns(t)
  \/ CommitConflicts(t) \/ CommitInvalid(t) \/ CommitAccepted(t)
  \/ Retry(t) \/ GiveUp(t) \/ CommitRaises(t) \/ StartNotifying(t)
  \/ RunDeferred(t) \/ Return(t)
  \/ \E r \in Ref : LockRef(t, r) \/ Publish(t, r) \/ Release(t, r) \/ Notify(t, r)

Next ==
  \/ \E t \in Thread : Begin(t) \/ Body(t) \/ Proceed(t)
  \/ \E r \in Ref : \/ \E p \in Validator[r] : SetValidator(r, p)
                    \/ \E n \in MinHistory[r] : SetMinHistory(r, n)
  \/ Finished

Spec == Init /\ [][Next]_vars

(* A thread inside a transaction keeps running: its body returns or raises, *)
(* it takes a lock that stays free, and it finishes what it started.        *)
FairSpec == Spec /\ \A t \in Thread : WF_vars(Proceed(t))
=============================================================================
