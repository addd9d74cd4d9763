------------------------------- MODULE StmProofs -------------------------------
(***************************************************************************)
(* Proofs about the transactional memory, for any threads, Refs, values,    *)
(* functions, validators and bounds: its types, and its inductive invariant, *)
(* that what a transaction holds describes its effect and that versions     *)
(* identify values, then who holds which lock in each phase of a commit.    *)
(***************************************************************************)
EXTENDS StmProps, TLAPS

(* The time each leaf is given: most need a second, a busy machine needs more. *)
USE SMTT(60), ZenonT(60)

----------------------------------------------------------------------------
(* Type correctness.                                                       *)

(* Types need one fact about the control: a value about to be published is   *)
(* a value.                                                                  *)
PublishesValues ==
  \A t \in Thread : \A r \in todo[t] :
    pc[t] = "publishing" => changes[t][r] \in Value

TypeInv == TypeOK /\ PublishesValues

(* What the body is shown of a Ref is a value. *)
LEMMA LookIsValue ==
  ASSUME TypeOK, NEW t \in Thread, NEW r \in Ref
  PROVE  Look(t, r) \in Value
BY StmAssumption DEF TypeOK, RefTypeOK, TxTypeOK, Read, Look, Recorded, NoRead

(* Sequences: the tail of one, and the empty one. *)
LEMMA TailIsSeq == ASSUME NEW S, NEW s \in Seq(S), s # <<>> PROVE Tail(s) \in Seq(S)
OBVIOUS
LEMMA EmptyIsSeq == ASSUME NEW S PROVE <<>> \in Seq(S)
OBVIOUS

(* Types of variables that do not change. *)
LEMMA RefTypeStutter == RefTypeOK /\ UNCHANGED refVars => RefTypeOK'
BY DEF RefTypeOK, refVars

(* The same for a transaction. *)
LEMMA TxTypeStutter == TxTypeOK /\ UNCHANGED txVars => TxTypeOK'
BY DEF TxTypeOK, txVars

(* A new transaction is well typed. *)
LEMMA NewTransactionType ==
  ASSUME TypeOK, NEW t \in Thread, NewTransaction(t)
  PROVE  TxTypeOK' /\ ops' \in [Thread -> Nat]
BY DEF TypeOK, TxTypeOK, RunTypeOK, NewTransaction, NoReadYet, NoDeferredYet, Same

(* Recording a Ref keeps the type of what was read. *)
LEMMA RecordType ==
  ASSUME TypeOK, NEW t \in Thread, NEW r \in Ref, Record(t, r)
  PROVE  reads' \in [Thread -> [Ref -> Read \cup {NoRead}]]
BY DEF TypeOK, RefTypeOK, TxTypeOK, Read, Record

(* Initial states are well typed. *)
LEMMA TypeInit == Init => TypeInv
BY StmAssumption DEF Init, TypeInv, TypeOK, RefTypeOK, TxTypeOK, RunTypeOK,
                     PublishesValues, Phase, Outcome, Same

(* Operations of the body change a transaction, and of a Ref no more than   *)
(* its validator.                                                           *)
LEMMA BodyOpType ==
  ASSUME TypeInv, NEW t \in Thread, NEW kind, BodyOp(t, kind),
         validator' \in [Ref -> SUBSET Value]
  PROVE  /\ RefTypeOK' /\ RunTypeOK' /\ PublishesValues'
         /\ changes' \in [Thread -> [Ref -> Value \cup {NoValue}]]
BY DEF TypeInv, TypeOK, RefTypeOK, TxTypeOK, RunTypeOK, PublishesValues, BodyOp

(* Every operation of a body keeps the types. *)
LEMMA BodyType ==
  ASSUME TypeInv, NEW t \in Thread, Body(t)
  PROVE  TypeInv'
<1> USE StmAssumption
<1>t. TypeOK /\ validator \in [Ref -> SUBSET Value]
  BY DEF TypeInv, TypeOK, RefTypeOK
<1>1. ASSUME NEW r \in Ref PROVE Look(t, r) \in Value
  BY <1>t, LookIsValue
<1>2. ASSUME NEW r \in Ref, Deref(t, r) PROVE TypeInv'
  <2>1. Record(t, r) /\ BodyOp(t, "deref") /\ UNCHANGED validator
    BY <1>2 DEF Deref
  <2>2. TxTypeOK'
    BY <1>2, <1>t, <2>1, BodyOpType, RecordType DEF Deref, Shown, TypeOK, TxTypeOK
  <2> QED
    BY <1>t, <2>1, <2>2, BodyOpType DEF TypeInv, TypeOK
<1>3. ASSUME NEW r \in Ref, Ensure(t, r) PROVE TypeInv'
  <2>1. Record(t, r) /\ BodyOp(t, "ensure") /\ UNCHANGED validator
    BY <1>3 DEF Ensure
  <2>2. TxTypeOK'
    BY <1>3, <1>t, <2>1, BodyOpType, RecordType DEF Ensure, Shown, TypeOK, TxTypeOK
  <2> QED
    BY <1>t, <2>1, <2>2, BodyOpType DEF TypeInv, TypeOK
<1>4. ASSUME NEW r \in Ref, NEW f \in Fn, Alter(t, r, f) PROVE TypeInv'
  <2>1. Record(t, r) /\ BodyOp(t, "alter") /\ UNCHANGED validator
    BY <1>4 DEF Alter
  <2>2. f[Look(t, r)] \in Value
    BY <1>1
  <2>3. TxTypeOK'
    BY <1>4, <1>t, <2>1, <2>2, BodyOpType, RecordType
       DEF Alter, Applied, Shown, TypeOK, TxTypeOK
  <2> QED
    BY <1>t, <2>1, <2>3, BodyOpType DEF TypeInv, TypeOK
<1>5. ASSUME NEW r \in Ref, NEW f \in Fn, Commute(t, r, f) PROVE TypeInv'
  <2>1. Record(t, r) /\ BodyOp(t, "commute") /\ UNCHANGED validator
    BY <1>5 DEF Commute
  <2>2. f[Look(t, r)] \in Value
    BY <1>1
  <2>3. replay' \in [Thread -> [Ref -> [Value -> Value]]]
    BY <1>5, <1>t DEF Commute, TypeOK, TxTypeOK
  <2>4. effect' \in [Thread -> [Ref -> [Value -> Value]]]
    <3>1. effect \in [Thread -> [Ref -> [Value -> Value]]]
      BY <1>t DEF TypeOK, TxTypeOK
    <3>2. [x \in Value |-> f[effect[t][r][x]]] \in [Value -> Value]
      BY <3>1, StmAssumption
    <3>3. effect' = [effect EXCEPT ![t][r] = [x \in Value |-> f[effect[t][r][x]]]]
      BY <1>5 DEF Commute, Applied
    <3> QED
      BY <3>1, <3>2, <3>3
  <2>5. /\ writes' \in [Thread -> [Ref -> Value \cup {NoValue}]]
        /\ staged' \in [Thread -> [Ref -> Value \cup {NoValue}]]
    <3> DEFINE v == f[Look(t, r)]
    <3>1. \/ writes' = [writes EXCEPT ![t][r] = v] /\ staged' = staged
          \/ staged' = [staged EXCEPT ![t][r] = v] /\ writes' = writes
      BY <1>5 DEF Commute
    <3>2. v \in Value
      BY <2>2
    <3>3. /\ writes \in [Thread -> [Ref -> Value \cup {NoValue}]]
          /\ staged \in [Thread -> [Ref -> Value \cup {NoValue}]]
      BY <1>t DEF TypeOK, TxTypeOK
    <3> HIDE DEF v
    <3>4. CASE writes' = [writes EXCEPT ![t][r] = v] /\ staged' = staged
      BY <3>2, <3>3, <3>4
    <3>5. CASE staged' = [staged EXCEPT ![t][r] = v] /\ writes' = writes
      BY <3>2, <3>3, <3>5
    <3> QED
      BY <3>1, <3>4, <3>5
  <2>6. TxTypeOK'
    <3>1. commuted' \in [Thread -> SUBSET Ref]
      BY <1>5, <1>t DEF Commute, TypeOK, TxTypeOK
    <3>2. UNCHANGED <<ensured, deferred, legal>>
      BY <1>5 DEF Commute
    <3> QED
      BY <1>t, <2>1, <2>3, <2>4, <2>5, <3>1, <3>2, BodyOpType, RecordType
         DEF TypeOK, TxTypeOK
  <2> QED
    BY <1>t, <2>1, <2>6, BodyOpType DEF TypeInv, TypeOK
<1>6. ASSUME NEW r \in Ref, NEW v \in Value, RefSet(t, r, v) PROVE TypeInv'
  <2>1. Record(t, r) /\ BodyOp(t, "ref-set") /\ UNCHANGED validator
    BY <1>6 DEF RefSet
  <2>2. effect' \in [Thread -> [Ref -> [Value -> Value]]]
    BY <1>6, <1>t DEF RefSet, Applied, TypeOK, TxTypeOK
  <2>3. writes' \in [Thread -> [Ref -> Value \cup {NoValue}]]
    BY <1>6, <1>t DEF RefSet, TypeOK, TxTypeOK
  <2>4. TxTypeOK'
    BY <1>6, <1>t, <2>1, <2>2, <2>3, BodyOpType, RecordType DEF RefSet, TypeOK, TxTypeOK
  <2> QED
    BY <1>t, <2>1, <2>4, BodyOpType DEF TypeInv, TypeOK
<1>7. ASSUME NEW r \in Ref, NEW p \in Validator[r], SetValidatorInBody(t, r, p)
      PROVE TypeInv'
  <2>1. BodyOp(t, "set-validator!") /\ validator' \in [Ref -> SUBSET Value]
    BY <1>7, <1>t DEF SetValidatorInBody
  <2>2. reads' \in [Thread -> [Ref -> Read \cup {NoRead}]]
    BY <1>7, <1>t, RecordType DEF SetValidatorInBody, TypeOK, TxTypeOK
  <2>3. TxTypeOK'
    BY <1>7, <1>t, <2>1, <2>2, BodyOpType DEF SetValidatorInBody, TypeOK, TxTypeOK
  <2> QED
    BY <1>t, <2>1, <2>3, BodyOpType DEF TypeInv, TypeOK
<1>8. ASSUME AfterCommit(t) PROVE TypeInv'
  <2>1. BodyOp(t, "after-commit") /\ UNCHANGED validator
    BY <1>8 DEF AfterCommit
  <2>2. TxTypeOK'
    <3>1. deferred \in [Thread -> Seq(Nat)] /\ attempts[t] \in Nat
      BY <1>t DEF TypeOK, TxTypeOK, RunTypeOK
    <3>2. Append(deferred[t], attempts[t]) \in Seq(Nat)
      BY <3>1
    <3>3. deferred' = [deferred EXCEPT ![t] = Append(@, attempts[t])]
      BY <1>8 DEF AfterCommit
    <3>4. deferred' \in [Thread -> Seq(Nat)]
      BY <3>1, <3>2, <3>3
    <3>5. UNCHANGED <<reads, writes, commuted, replay, staged, ensured, effect, legal>>
      BY <1>8 DEF AfterCommit
    <3> QED
      BY <1>t, <2>1, <3>4, <3>5, BodyOpType DEF TypeOK, TxTypeOK
  <2> QED
    BY <1>t, <2>1, <2>2, BodyOpType DEF TypeInv, TypeOK
<1> QED
  BY <1>2, <1>3, <1>4, <1>5, <1>6, <1>7, <1>8 DEF Body

(* run_transaction, commit and what follows keep the types. *)
LEMMA ProceedType ==
  ASSUME TypeInv, NEW t \in Thread, Proceed(t)
  PROVE  TypeInv'
<1> USE StmAssumption
<1>t. TypeOK /\ PublishesValues
  BY DEF TypeInv
<1>p. Participant(t) \subseteq Ref /\ Changed(t) \subseteq Ref
  BY <1>t DEF Participant, Changed, Written, TypeOK, TxTypeOK
<1>1. ASSUME BodyRaises(t) PROVE TypeInv'
  <2>1. RefTypeOK'
    BY <1>1, <1>t, RefTypeStutter DEF BodyRaises, TypeOK
  <2>2. TxTypeOK' /\ ops' \in [Thread -> Nat]
    BY <1>1, <1>t, NewTransactionType DEF BodyRaises
  <2>3. RunTypeOK' /\ \A u \in Thread : pc'[u] = "publishing" => pc[u] = "publishing" /\ changes'[u] = changes[u]
    BY <1>1, <1>t, <2>2 DEF BodyRaises, NewTransaction, TypeOK, TxTypeOK, RunTypeOK, Phase
  <2> QED
    BY <1>1, <1>t, <2>1, <2>2, <2>3 DEF BodyRaises, TypeInv, TypeOK, PublishesValues
<1>2. ASSUME BodyReturns(t) PROVE TypeInv'
  <2>1. RefTypeOK' /\ TxTypeOK'
    BY <1>2, <1>t, RefTypeStutter, TxTypeStutter DEF BodyReturns, TypeOK
  <2>2. RunTypeOK'
    BY <1>2, <1>t, <1>p DEF BodyReturns, TypeOK, RunTypeOK, Phase
  <2>3. PublishesValues'
    <3>1. changes' = changes /\ pc \in [Thread -> Phase] /\ todo \in [Thread -> SUBSET Ref]
      BY <1>2, <1>t DEF BodyReturns, txVars, TypeOK, RunTypeOK
    <3>2. \A u \in Thread : pc'[u] = "publishing" => pc[u] = "publishing" /\ todo'[u] = todo[u]
      BY <1>2, <3>1 DEF BodyReturns
    <3> QED
      BY <1>t, <3>1, <3>2 DEF TypeInv, PublishesValues
  <2> QED
    BY <2>1, <2>2, <2>3 DEF TypeInv, TypeOK
<1>3. ASSUME NEW o \in Outcome, Decide(t, o, "releasing", Participant(t)), UNCHANGED txVars
      PROVE TypeInv'
  <2>1. RefTypeOK' /\ TxTypeOK'
    BY <1>3, <1>t, RefTypeStutter, TxTypeStutter DEF Decide, TypeOK
  <2>2. RunTypeOK'
    BY <1>3, <1>t, <1>p DEF Decide, TypeOK, RunTypeOK, Phase
  <2>3. PublishesValues'
    BY <1>3, <1>t DEF Decide, txVars, TypeOK, RunTypeOK, PublishesValues
  <2> QED
    BY <2>1, <2>2, <2>3 DEF TypeInv, TypeOK
<1>4. ASSUME CommitAccepted(t) PROVE TypeInv'
  <2>1. \A r \in Changed(t) : NewValue(t, r) \in Value
    <3> SUFFICES ASSUME NEW r \in Changed(t) PROVE NewValue(t, r) \in Value
      OBVIOUS
    <3>r. r \in Ref
      BY <1>p
    <3>1. /\ writes[t][r] \in Value \cup {NoValue}
          /\ replay[t][r] \in [Value -> Value] /\ state[r] \in Value
      BY <1>t, <3>r DEF TypeOK, RefTypeOK, TxTypeOK
    <3>2. replay[t][r][state[r]] \in Value
      BY <3>1
    <3> QED
      BY <3>r, <3>1, <3>2 DEF NewValue, Written
  <2>2. RefTypeOK'
    BY <1>4, <1>t, RefTypeStutter DEF CommitAccepted, Decide, TypeOK
  <2>3. TxTypeOK'
    BY <1>4, <1>t, <2>1 DEF CommitAccepted, Changes, TypeOK, TxTypeOK
  <2>4. RunTypeOK'
    BY <1>4, <1>t, <1>p DEF CommitAccepted, Decide, TypeOK, RunTypeOK, Phase, Outcome
  <2>5. \A r \in Changed(t) : changes'[t][r] \in Value
    BY <1>4, <1>t, <1>p, <2>1 DEF CommitAccepted, Changes, TypeOK, TxTypeOK
  <2>6. todo'[t] \subseteq Changed(t) \/ pc'[t] = "releasing"
    BY <1>4, <1>t DEF CommitAccepted, Decide, TypeOK, RunTypeOK
  <2>7. ASSUME NEW u \in Thread, u # t
        PROVE  pc'[u] = pc[u] /\ todo'[u] = todo[u] /\ changes'[u] = changes[u]
    BY <1>4, <1>t, <2>7 DEF CommitAccepted, Decide, TypeOK, RunTypeOK, TxTypeOK
  <2>8. PublishesValues'
    BY <1>t, <2>5, <2>6, <2>7 DEF PublishesValues
  <2> QED
    BY <2>2, <2>3, <2>4, <2>8 DEF TypeInv, TypeOK
<1>5. ASSUME NewTransaction(t), NEW phase \in Phase \ {"publishing"},
             pc' = [pc EXCEPT ![t] = phase], outcome' = [outcome EXCEPT ![t] = "none"],
             attempts' \in [Thread -> Nat],
             UNCHANGED <<refVars, todo, limit, started>>
      PROVE  TypeInv'
  <2>1. RefTypeOK'
    BY <1>5, <1>t, RefTypeStutter DEF TypeOK
  <2>2. TxTypeOK' /\ ops' \in [Thread -> Nat]
    BY <1>5, <1>t, NewTransactionType
  <2>3. RunTypeOK'
    BY <1>5, <1>t, <2>2 DEF TypeOK, RunTypeOK, Outcome
  <2>4. \A u \in Thread : pc'[u] = "publishing" => pc[u] = "publishing" /\ changes'[u] = changes[u]
    BY <1>5, <1>t DEF NewTransaction, TypeOK, TxTypeOK, RunTypeOK
  <2> QED
    BY <1>5, <1>t, <2>1, <2>2, <2>3, <2>4 DEF TypeInv, TypeOK, PublishesValues
<1>6. ASSUME Retry(t) PROVE TypeInv'
  <2>1. attempts' \in [Thread -> Nat]
    BY <1>6, <1>t DEF Retry, TypeOK, RunTypeOK
  <2>2. "body" \in Phase \ {"publishing"}
    BY DEF Phase
  <2> QED
    BY <1>6, <1>5, <2>1, <2>2 DEF Retry
<1>7. ASSUME Leave(t) PROVE TypeInv'
  BY <1>7, <1>t, <1>5 DEF Leave, TypeOK, RunTypeOK, Phase
<1>8. ASSUME StartNotifying(t) PROVE TypeInv'
  <2>1. RefTypeOK' /\ TxTypeOK'
    BY <1>8, <1>t, RefTypeStutter, TxTypeStutter DEF StartNotifying, TypeOK
  <2>2. RunTypeOK'
    BY <1>8, <1>t, <1>p DEF StartNotifying, TypeOK, RunTypeOK, Phase
  <2>3. PublishesValues'
    BY <1>8, <1>t DEF StartNotifying, txVars, TypeOK, RunTypeOK, PublishesValues
  <2> QED
    BY <2>1, <2>2, <2>3 DEF TypeInv, TypeOK
<1>9. ASSUME RunDeferred(t) PROVE TypeInv'
  <2>1. RefTypeOK' /\ RunTypeOK'
    <3>1. UNCHANGED <<refVars, runVars>>
      BY <1>9 DEF RunDeferred
    <3>2. RunTypeOK'
      BY <1>t, <3>1 DEF runVars, TypeOK, RunTypeOK
    <3> QED
      BY <1>t, <3>1, <3>2, RefTypeStutter DEF TypeOK
  <2>2. TxTypeOK'
    <3>1. deferred \in [Thread -> Seq(Nat)]
      BY <1>t DEF TypeOK, TxTypeOK
    <3>2. deferred[t] # <<>>
      BY <1>9 DEF RunDeferred
    <3>3. Tail(deferred[t]) \in Seq(Nat)
      BY <3>1, <3>2, TailIsSeq
    <3>4. PICK s \in {Tail(deferred[t]), <<>>} : deferred' = [deferred EXCEPT ![t] = s]
      BY <1>9 DEF RunDeferred
    <3>e. <<>> \in Seq(Nat)
      BY EmptyIsSeq
    <3>5. s \in Seq(Nat)
      BY <3>3, <3>4, <3>e, Zenon
    <3>6. deferred' \in [Thread -> Seq(Nat)]
      BY <3>1, <3>4, <3>5
    <3>7. UNCHANGED <<reads, writes, commuted, replay, staged, ensured, changes, effect, legal>>
      BY <1>9 DEF RunDeferred
    <3> QED
      BY <1>t, <3>6, <3>7 DEF TypeOK, TxTypeOK
  <2>3. PublishesValues'
    BY <1>9, <1>t DEF RunDeferred, runVars, PublishesValues
  <2> QED
    BY <2>1, <2>2, <2>3 DEF TypeInv, TypeOK
<1>10. ASSUME NEW r \in Ref, LockRef(t, r) \/ Release(t, r) PROVE TypeInv'
  <2>1. RefTypeOK'
    BY <1>10, <1>t DEF LockRef, Release, TypeOK, RefTypeOK
  <2>2. TxTypeOK'
    BY <1>10, <1>t, TxTypeStutter DEF LockRef, Release, TypeOK
  <2>3. RunTypeOK'
    BY <1>10, <1>t DEF LockRef, Release, TypeOK, RunTypeOK
  <2>4. PublishesValues'
    <3>1. changes' = changes /\ pc \in [Thread -> Phase] /\ todo \in [Thread -> SUBSET Ref]
      BY <1>10, <1>t DEF LockRef, Release, txVars, TypeOK, RunTypeOK
    <3>2. \A u \in Thread :
            pc'[u] = "publishing" => pc[u] = "publishing" /\ todo'[u] \subseteq todo[u]
      BY <1>10, <3>1 DEF LockRef, Release
    <3> QED
      BY <1>t, <3>1, <3>2 DEF TypeInv, PublishesValues
  <2> QED
    BY <2>1, <2>2, <2>3, <2>4 DEF TypeInv, TypeOK
<1>11. ASSUME NEW r \in Ref, Publish(t, r) PROVE TypeInv'
  <2>1. changes[t][r] \in Value
    BY <1>11, <1>t DEF Publish, PublishesValues
  <2>2. RefTypeOK'
    BY <1>11, <1>t, <2>1 DEF Publish, Bump, TypeOK, RefTypeOK
  <2>3. TxTypeOK'
    BY <1>11, <1>t, TxTypeStutter DEF Publish, TypeOK
  <2>4. RunTypeOK'
    <3>1. /\ pc \in [Thread -> Phase] /\ todo \in [Thread -> SUBSET Ref]
          /\ UNCHANGED <<outcome, attempts, limit, ops, started>>
      BY <1>11, <1>t DEF Publish, TypeOK, RunTypeOK
    <3>2. pc' \in [Thread -> Phase] /\ todo' \in [Thread -> SUBSET Ref]
      <4>1. CASE todo[t] = {r}
        <5>1. pc' = [pc EXCEPT ![t] = "releasing"] /\ todo' = [todo EXCEPT ![t] = Participant(t)]
          BY <1>11, <4>1 DEF Publish
        <5> QED
          BY <1>p, <3>1, <5>1 DEF Phase
      <4>2. CASE todo[t] # {r}
        <5>1. pc' = pc /\ todo' = [todo EXCEPT ![t] = @ \ {r}]
          BY <1>11, <4>2 DEF Publish
        <5> QED
          BY <3>1, <5>1
      <4> QED
        BY <4>1, <4>2
    <3> QED
      BY <1>t, <3>1, <3>2 DEF TypeOK, RunTypeOK
  <2>5. PublishesValues'
    <3>1. todo'[t] \subseteq todo[t] \/ pc'[t] = "releasing"
      BY <1>11, <1>t DEF Publish, TypeOK, RunTypeOK
    <3>2. changes' = changes /\ pc[t] = "publishing"
      BY <1>11 DEF Publish, txVars
    <3>3. ASSUME NEW u \in Thread, u # t PROVE pc'[u] = pc[u] /\ todo'[u] = todo[u]
      BY <1>11, <1>t, <3>3 DEF Publish, TypeOK, RunTypeOK
    <3> QED
      BY <1>t, <3>1, <3>2, <3>3 DEF PublishesValues
  <2> QED
    BY <2>2, <2>3, <2>4, <2>5 DEF TypeInv, TypeOK
<1>12. ASSUME NEW r \in Ref, Notify(t, r) PROVE TypeInv'
  <2>1. RefTypeOK' /\ TxTypeOK'
    BY <1>12, <1>t, RefTypeStutter, TxTypeStutter DEF Notify, TypeOK
  <2>2. RunTypeOK'
    BY <1>12, <1>t DEF Notify, TypeOK, RunTypeOK
  <2>3. PublishesValues'
    BY <1>12, <1>t DEF Notify, txVars, TypeOK, RunTypeOK, PublishesValues
  <2> QED
    BY <2>1, <2>2, <2>3 DEF TypeInv, TypeOK
<1> QED
  BY <1>1, <1>2, <1>3, <1>4, <1>6, <1>7, <1>8, <1>9, <1>10, <1>11, <1>12
     DEF Proceed, GiveUp, CommitRaises, Return, CommitConflicts, CommitInvalid, Outcome

(* Every step keeps the types. *)
LEMMA TypeStep == TypeInv /\ [Next]_vars => TypeInv'
<1> USE StmAssumption
<1> SUFFICES ASSUME TypeInv, [Next]_vars PROVE TypeInv'
  OBVIOUS
<1>t. TypeOK /\ PublishesValues
  BY DEF TypeInv
<1>1. ASSUME NEW t \in Thread, Begin(t) PROVE TypeInv'
  <2>1. RefTypeOK'
    BY <1>1, <1>t, RefTypeStutter DEF Begin, TypeOK
  <2>2. TxTypeOK' /\ ops' \in [Thread -> Nat]
    BY <1>1, <1>t, NewTransactionType DEF Begin
  <2>3. RunTypeOK'
    BY <1>1, <1>t, <2>2 DEF Begin, TypeOK, RunTypeOK, Phase
  <2>4. \A u \in Thread : pc'[u] = "publishing" => pc[u] = "publishing" /\ changes'[u] = changes[u]
    BY <1>1, <1>t DEF Begin, NewTransaction, TypeOK, TxTypeOK, RunTypeOK
  <2> QED
    BY <1>1, <1>t, <2>1, <2>2, <2>3, <2>4 DEF Begin, TypeInv, TypeOK, PublishesValues
<1>2. ASSUME NEW r \in Ref, NEW p \in Validator[r], SetValidator(r, p) PROVE TypeInv'
  <2>1. RefTypeOK'
    BY <1>2, <1>t DEF SetValidator, TypeOK, RefTypeOK
  <2>2. TxTypeOK' /\ RunTypeOK' /\ PublishesValues'
    BY <1>2, <1>t, TxTypeStutter
       DEF SetValidator, txVars, runVars, TypeOK, RunTypeOK, PublishesValues
  <2> QED
    BY <2>1, <2>2 DEF TypeInv, TypeOK
<1>3. ASSUME NEW r \in Ref, NEW n \in MinHistory[r], SetMinHistory(r, n) PROVE TypeInv'
  <2>1. RefTypeOK'
    BY <1>3, <1>t DEF SetMinHistory, TypeOK, RefTypeOK
  <2>2. TxTypeOK' /\ RunTypeOK' /\ PublishesValues'
    BY <1>3, <1>t, TxTypeStutter
       DEF SetMinHistory, txVars, runVars, TypeOK, RunTypeOK, PublishesValues
  <2> QED
    BY <2>1, <2>2 DEF TypeInv, TypeOK
<1>4. CASE UNCHANGED vars
  <2>1. UNCHANGED refVars /\ UNCHANGED txVars /\ UNCHANGED runVars
    BY <1>4 DEF vars
  <2>2. RunTypeOK' /\ PublishesValues'
    BY <1>t, <2>1 DEF txVars, runVars, TypeOK, RunTypeOK, PublishesValues
  <2> QED
    BY <1>t, <2>1, <2>2, RefTypeStutter, TxTypeStutter DEF TypeInv, TypeOK
<1> QED
  BY <1>1, <1>2, <1>3, <1>4, BodyType, ProceedType DEF Next, Finished

(* The types, and what they need, hold of every behaviour. *)
LEMMA TypeInvHolds == Spec => []TypeInv
BY TypeInit, TypeStep, PTL DEF Spec

(* The variables keep their types. *)
THEOREM TypeCorrect == Spec => []TypeOK
BY TypeInvHolds, PTL DEF TypeInv

----------------------------------------------------------------------------
(* The inductive invariant.                                                *)

(* The version recorded for a Ref is not from the future and, while it is the *)
(* current one, came with the current value.                                 *)
Stamped(t, r) ==
  Recorded(t, r) => /\ reads[t][r].version <= version[r]
                    /\ reads[t][r].version = version[r] => reads[t][r].value = state[r]

TxInv(t, r) == StagedIsRead(t, r) /\ EffectTracked(t, r) /\ Stamped(t, r)

Inv == \A t \in Thread, r \in Ref : TxInv(t, r)

(* Everything TxInv(t, r) speaks of, at the present moment. *)
View(t, r) == <<reads[t][r], writes[t][r], staged[t][r], replay[t][r],
                effect[t][r], legal[t][r], commuted[t] \cap {r}>>

(* What a transaction holds about a Ref stays right when neither the         *)
(* transaction's view of that Ref nor the Ref changes.                       *)
LEMMA TxInvFrame ==
  ASSUME NEW t \in Thread, NEW r \in Ref, TxInv(t, r), View(t, r)' = View(t, r),
         state'[r] = state[r], version'[r] = version[r]
  PROVE  TxInv(t, r)'
BY DEF View, TxInv, StagedIsRead, EffectTracked, Stamped, Recorded, Look, Changed, Written

(* A fresh transaction has touched nothing. *)
LEMMA TxInvFresh ==
  ASSUME TypeOK, NEW t \in Thread, NewTransaction(t), NEW r \in Ref
  PROVE  TxInv(t, r)'
BY DEF TypeOK, TxTypeOK, NewTransaction, NoReadYet, TxInv, StagedIsRead,
       EffectTracked, Stamped, Recorded, Changed, Written

(* Recording a Ref: what the body is shown is the effect so far on the value  *)
(* recorded, which is legal so far.                                           *)
LEMMA RecordShows ==
  ASSUME TypeOK, NEW t \in Thread, NEW r \in Ref, TxInv(t, r), Record(t, r),
         UNCHANGED <<state, version>>
  PROVE  /\ Recorded(t, r)' /\ Stamped(t, r)'
         /\ reads'[t][r].value \in legal[t][r]
         /\ reads'[t][r].value \in Value
         /\ effect[t][r][reads'[t][r].value] = Look(t, r)
         /\ writes'[t][r] = writes[t][r] /\ staged'[t][r] = staged[t][r]
              => Look(t, r)' = Look(t, r)
         /\ \A u \in Thread, q \in Ref : u # t \/ q # r => reads'[u][q] = reads[u][q]
<1>t. /\ state[r] \in Value /\ version[r] \in Nat
      /\ reads \in [Thread -> [Ref -> Read \cup {NoRead}]]
      /\ legal[t][r] \subseteq Value
  BY DEF TypeOK, RefTypeOK, TxTypeOK
<1>1. CASE Known(t, r)
  <2>1. reads' = reads
    BY <1>1 DEF Record
  <2>2. Recorded(t, r)
    BY <1>1 DEF Known, TxInv, StagedIsRead
  <2> QED
    BY <1>t, <2>1, <2>2 DEF TxInv, EffectTracked, Stamped, Recorded, Look
<1>2. CASE ~Known(t, r)
  <2> DEFINE now == [value |-> state[r], version |-> version[r]]
  <2>1. reads' = [reads EXCEPT ![t][r] = now]
    BY <1>2 DEF Record
  <2>2. now \in Read /\ now # NoRead
    BY <1>t, StmAssumption DEF Read, NoRead
  <2>3. reads'[t][r] = now
    BY <1>t, <2>1
  <2>4. ~Recorded(t, r) /\ writes[t][r] = NoValue /\ staged[t][r] = NoValue
    BY <1>2 DEF Known
  <2>5. r \notin Changed(t)
    BY <2>4 DEF TxInv, StagedIsRead, Changed, Written
  <2>6. Look(t, r) = state[r] /\ legal[t][r] = Value /\ effect[t][r] = Same
    BY <2>4, <2>5 DEF Look, TxInv, EffectTracked
  <2>7. Recorded(t, r)' /\ Stamped(t, r)'
    BY <1>t, <2>2, <2>3 DEF Recorded, Stamped
  <2>8. writes'[t][r] = writes[t][r] /\ staged'[t][r] = staged[t][r]
          => Look(t, r)' = Look(t, r)
    BY <2>3, <2>4, <2>6, <2>7 DEF Look
  <2> QED
    BY <1>t, <2>1, <2>3, <2>6, <2>7, <2>8 DEF Same
<1> QED
  BY <1>1, <1>2

(* The step of a body on Ref r of thread t keeps the invariant when it does   *)
(* for that Ref and leaves every other view alone.                            *)
LEMMA OtherViews ==
  ASSUME Inv, NEW t \in Thread, NEW r \in Ref, TxInv(t, r)',
         UNCHANGED <<state, version>>,
         \A u \in Thread, q \in Ref : u # t \/ q # r => View(u, q)' = View(u, q)
  PROVE  Inv'
BY TxInvFrame DEF Inv

(* Reading a Ref: dereferencing or ensuring it.                              *)
LEMMA ReadInv ==
  ASSUME TypeOK, Inv, NEW t \in Thread, NEW r \in Ref, Deref(t, r) \/ Ensure(t, r)
  PROVE  Inv'
<1>1. TxInv(t, r) /\ Record(t, r) /\ UNCHANGED <<state, version>>
  BY DEF Inv, Deref, Ensure, BodyOp
<1>2. /\ UNCHANGED <<writes, commuted, replay, staged, effect>>
      /\ legal' = [legal EXCEPT ![t][r] = {x \in @ : effect[t][r][x] = Look(t, r)}]
  BY DEF Deref, Ensure, Shown
<1>3. /\ \A u \in Thread, q \in Ref : u # t \/ q # r => legal'[u][q] = legal[u][q]
      /\ legal'[t][r] = {x \in legal[t][r] : effect[t][r][x] = Look(t, r)}
  BY <1>2 DEF TypeOK, TxTypeOK
<1>4. TxInv(t, r)'
  BY <1>1, <1>2, <1>3, RecordShows DEF TxInv, StagedIsRead, EffectTracked, Changed, Written
<1>5. \A u \in Thread, q \in Ref : u # t \/ q # r => View(u, q)' = View(u, q)
  BY <1>1, <1>2, <1>3, RecordShows DEF View
<1> QED
  BY <1>1, <1>4, <1>5, OtherViews

(* Writing a Ref: altering or setting it.                                    *)
LEMMA WriteInv ==
  ASSUME TypeOK, Inv, NEW t \in Thread, NEW r \in Ref,
         (\E f \in Fn : Alter(t, r, f)) \/ (\E v \in Value : RefSet(t, r, v))
  PROVE  Inv'
<1>1. TxInv(t, r) /\ Record(t, r) /\ UNCHANGED <<state, version, commuted, replay, staged>>
  BY DEF Inv, Alter, RefSet, BodyOp
<1> DEFINE By(f) == /\ writes' = [writes EXCEPT ![t][r] = f[Look(t, r)]]
                    /\ Applied(t, r, f)
                    /\ Shown(t, r, f[Look(t, r)]) \/ UNCHANGED legal
<1>2. \E f \in [Value -> Value] : By(f)
  <2>v. Look(t, r) \in Value
    BY LookIsValue
  <2>1. ASSUME NEW f \in Fn, Alter(t, r, f) PROVE \E g \in [Value -> Value] : By(g)
    BY <2>1, StmAssumption DEF Alter
  <2>2. ASSUME NEW v \in Value, RefSet(t, r, v) PROVE \E g \in [Value -> Value] : By(g)
    <3> DEFINE g == [x \in Value |-> v]
    <3>1. g \in [Value -> Value] /\ g[Look(t, r)] = v
      BY <2>v
    <3>2. By(g)
      BY <2>2, <3>1 DEF RefSet
    <3> QED
      BY <3>1, <3>2
  <2> QED
    BY <2>1, <2>2
<1>3. PICK f \in [Value -> Value] : By(f)
  BY <1>2
<1> DEFINE w == f[Look(t, r)]
<1>4. w \in Value /\ w # NoValue
  BY LookIsValue, StmAssumption
<1>5. /\ \A u \in Thread, q \in Ref :
           u # t \/ q # r => /\ writes'[u][q] = writes[u][q]
                            /\ effect'[u][q] = effect[u][q]
                            /\ legal'[u][q] = legal[u][q]
      /\ writes'[t][r] = w
      /\ effect'[t][r] = [x \in Value |-> f[effect[t][r][x]]]
  BY <1>3 DEF TypeOK, TxTypeOK, Applied, Shown
<1>6. legal'[t][r] = legal[t][r] \/ legal'[t][r] = {x \in legal[t][r] : effect'[t][r][x] = w}
  BY <1>3 DEF TypeOK, TxTypeOK, Shown
<1>7. TxInv(t, r)'
  <2> DEFINE x == reads'[t][r].value
  <2>1. Recorded(t, r)' /\ Stamped(t, r)' /\ x \in Value /\ x \in legal[t][r]
        /\ effect[t][r][x] = Look(t, r)
    BY <1>1, RecordShows
  <2>2. effect'[t][r][x] = w
    BY <2>1, <1>5
  <2>3. x \in legal'[t][r]
    BY <2>1, <2>2, <1>6
  <2>4. Look(t, r)' = w
    BY <1>4, <1>5 DEF Look
  <2>5. r \in Changed(t)'
    BY <1>4, <1>5 DEF Changed, Written
  <2> HIDE DEF w, x
  <2> QED
    BY <1>4, <1>5, <2>1, <2>2, <2>3, <2>4, <2>5 DEF x, TxInv, StagedIsRead, EffectTracked
<1>8. \A u \in Thread, q \in Ref : u # t \/ q # r => View(u, q)' = View(u, q)
  BY <1>1, <1>5, RecordShows DEF View
<1> QED
  BY <1>1, <1>7, <1>8, OtherViews

(* Commuting a Ref.                                                          *)
LEMMA CommuteInv ==
  ASSUME TypeOK, Inv, NEW t \in Thread, NEW r \in Ref, NEW f \in Fn, Commute(t, r, f)
  PROVE  Inv'
<1>1. TxInv(t, r) /\ Record(t, r) /\ UNCHANGED <<state, version, legal>>
  BY DEF Inv, Commute, BodyOp
<1> DEFINE w == f[Look(t, r)]
<1>2. f \in [Value -> Value] /\ w \in Value /\ w # NoValue
  BY LookIsValue, StmAssumption
<1>3. /\ \A u \in Thread, q \in Ref :
           u # t \/ q # r => /\ effect'[u][q] = effect[u][q]
                            /\ replay'[u][q] = replay[u][q]
                            /\ commuted'[u] \cap {q} = commuted[u] \cap {q}
      /\ effect'[t][r] = [x \in Value |-> f[effect[t][r][x]]]
      /\ replay'[t][r] = [x \in Value |-> f[replay[t][r][x]]]
      /\ r \in commuted'[t]
  BY DEF TypeOK, TxTypeOK, Commute, Applied
<1>4. \/ writes[t][r] # NoValue /\ writes' = [writes EXCEPT ![t][r] = w] /\ staged' = staged
      \/ writes[t][r] = NoValue /\ staged' = [staged EXCEPT ![t][r] = w] /\ writes' = writes
  BY DEF Commute
<1>t. /\ writes \in [Thread -> [Ref -> Value \cup {NoValue}]]
      /\ staged \in [Thread -> [Ref -> Value \cup {NoValue}]]
  BY DEF TypeOK, TxTypeOK
<1> HIDE DEF w
<1>5. /\ \A u \in Thread, q \in Ref :
           u # t \/ q # r => writes'[u][q] = writes[u][q] /\ staged'[u][q] = staged[u][q]
      /\ writes'[t][r] = NoValue <=> writes[t][r] = NoValue
      /\ writes[t][r] # NoValue => writes'[t][r] = w
      /\ writes[t][r] = NoValue => staged'[t][r] = w
  <2>1. CASE writes[t][r] # NoValue
    BY <1>2, <1>4, <1>t, <2>1
  <2>2. CASE writes[t][r] = NoValue
    BY <1>2, <1>4, <1>t, <2>2
  <2> QED
    BY <2>1, <2>2
<1>6. TxInv(t, r)'
  <2> DEFINE x == reads'[t][r].value
  <2>1. Recorded(t, r)' /\ Stamped(t, r)' /\ x \in Value /\ x \in legal[t][r]
        /\ effect[t][r][x] = Look(t, r)
    BY <1>1, RecordShows
  <2>2. effect'[t][r][x] = w
    BY <2>1, <1>3 DEF w
  <2>3. Look(t, r)' = w
    BY <1>2, <1>5 DEF Look
  <2>4. writes'[t][r] = NoValue => effect'[t][r] = replay'[t][r]
    BY <1>1, <1>3, <1>5 DEF TxInv, EffectTracked
  <2> HIDE DEF x
  <2> QED
    BY <1>1, <1>3, <2>1, <2>2, <2>3, <2>4
       DEF x, TxInv, StagedIsRead, EffectTracked, Changed
<1>7. \A u \in Thread, q \in Ref : u # t \/ q # r => View(u, q)' = View(u, q)
  BY <1>1, <1>3, <1>5, RecordShows DEF View
<1> QED
  BY <1>1, <1>6, <1>7, OtherViews

(* Installing a validator in a body reads the Ref, and shows it to nobody.   *)
LEMMA SetValidatorInBodyInv ==
  ASSUME TypeOK, Inv, NEW t \in Thread, NEW r \in Ref, NEW p \in Validator[r],
         SetValidatorInBody(t, r, p)
  PROVE  Inv'
<1>1. TxInv(t, r) /\ UNCHANGED <<state, version, writes, commuted, replay, staged, effect, legal>>
  BY DEF Inv, SetValidatorInBody, BodyOp
<1>2. CASE UNCHANGED reads
  BY <1>1, <1>2, TxInvFrame DEF Inv, View
<1>3. CASE Record(t, r)
  <2>1. TxInv(t, r)'
    BY <1>1, <1>3, RecordShows DEF TxInv, StagedIsRead, EffectTracked, Changed, Written
  <2>2. \A u \in Thread, q \in Ref : u # t \/ q # r => View(u, q)' = View(u, q)
    BY <1>1, <1>3, RecordShows DEF View
  <2> QED
    BY <1>1, <2>1, <2>2, OtherViews
<1> QED
  BY <1>2, <1>3 DEF SetValidatorInBody

(* Publishing a Ref makes every stamp of it that others hold outdated.       *)
LEMMA PublishInv ==
  ASSUME TypeOK, Inv, NEW t \in Thread, NEW r \in Ref, Publish(t, r)
  PROVE  Inv'
<1> SUFFICES ASSUME NEW u \in Thread, NEW q \in Ref PROVE TxInv(u, q)'
  BY DEF Inv
<1>1. TxInv(u, q) /\ View(u, q)' = View(u, q)
  BY DEF Inv, Publish, View, txVars
<1>2. CASE q # r
  BY <1>1, <1>2, TxInvFrame DEF Publish, Bump, TypeOK, RefTypeOK
<1>3. CASE q = r
  <2>1. version[r] \in Nat /\ version'[r] = version[r] + 1
    BY DEF Publish, Bump, TypeOK, RefTypeOK
  <2>2. reads[u][r] \in Read \cup {NoRead}
    BY DEF TypeOK, TxTypeOK
  <2>3. reads[u][r].version \in Nat
    BY <2>2 DEF Read, NoRead
  <2>4. Stamped(u, r)'
    BY <1>1, <1>3, <2>1, <2>3 DEF TxInv, View, Stamped, Recorded
  <2>5. StagedIsRead(u, r)' /\ EffectTracked(u, r)'
    BY <1>1, <1>3 DEF TxInv, View, StagedIsRead, EffectTracked, Recorded, Look,
                      Changed, Written
  <2> QED
    BY <1>3, <2>4, <2>5 DEF TxInv
<1> QED
  BY <1>2, <1>3

(* Every step keeps the invariant: a new transaction has touched nothing, a   *)
(* body operation is described above, and the control of run_transaction and  *)
(* commit changes no view.                                                    *)
LEMMA InvStep ==
  ASSUME TypeOK, Inv, [Next]_vars
  PROVE  Inv'
<1>1. ASSUME NEW t \in Thread, NewTransaction(t), UNCHANGED refVars PROVE Inv'
  <2>1. \A r \in Ref : TxInv(t, r)'
    BY <1>1, TxInvFresh
  <2>2. \A u \in Thread, r \in Ref : u # t => View(u, r)' = View(u, r)
    BY <1>1 DEF NewTransaction, NoReadYet, View, TypeOK, TxTypeOK
  <2> QED
    BY <1>1, <2>1, <2>2, TxInvFrame DEF Inv, refVars
<1>2. ASSUME UNCHANGED <<reads, writes, staged, replay, effect, legal, commuted,
                         state, version>>
      PROVE  Inv'
  BY <1>2, TxInvFrame DEF Inv, View
<1>3. ASSUME NEW t \in Thread, Begin(t) PROVE Inv'
  BY <1>1, <1>3 DEF Begin
<1>4. ASSUME NEW t \in Thread, Body(t) PROVE Inv'
  <2>1. ASSUME AfterCommit(t) PROVE Inv'
    BY <1>2, <2>1 DEF AfterCommit, BodyOp
  <2> QED
    BY <1>4, <2>1, ReadInv, WriteInv, CommuteInv, SetValidatorInBodyInv DEF Body
<1>5. ASSUME NEW t \in Thread, Proceed(t) PROVE Inv'
  <2>1. ASSUME BodyRaises(t) \/ Retry(t) \/ Leave(t) PROVE Inv'
    BY <1>1, <2>1 DEF BodyRaises, Retry, Leave
  <2>2. ASSUME BodyReturns(t) \/ CommitConflicts(t) \/ CommitInvalid(t) \/ CommitAccepted(t)
               \/ StartNotifying(t) \/ RunDeferred(t)
        PROVE  Inv'
    BY <1>2, <2>2 DEF BodyReturns, CommitConflicts, CommitInvalid, CommitAccepted,
                      Decide, StartNotifying, RunDeferred, refVars, txVars
  <2>3. ASSUME NEW r \in Ref, LockRef(t, r) \/ Release(t, r) \/ Notify(t, r)
        PROVE  Inv'
    BY <1>2, <2>3 DEF LockRef, Release, Notify, refVars, txVars
  <2> QED
    BY <1>5, <2>1, <2>2, <2>3, PublishInv DEF Proceed, GiveUp, CommitRaises, Return
<1>6. ASSUME NEW r \in Ref, (\E p \in Validator[r] : SetValidator(r, p))
                            \/ (\E n \in MinHistory[r] : SetMinHistory(r, n))
      PROVE  Inv'
  BY <1>2, <1>6 DEF SetValidator, SetMinHistory, txVars
<1>7. CASE UNCHANGED vars
  BY <1>2, <1>7 DEF vars, refVars, txVars
<1> QED
  BY <1>3, <1>4, <1>5, <1>6, <1>7 DEF Next, Finished

(* The invariant holds of every behaviour, with the types it needs.          *)
LEMMA InvHolds == Spec => [](TypeOK /\ Inv)
<1>1. Init => Inv
  BY DEF Init, Inv, TxInv, StagedIsRead, EffectTracked, Stamped, Recorded, Changed,
         Written, NoRead
<1>2. TypeOK /\ Inv /\ [Next]_vars => Inv'
  BY InvStep
<1> QED
  BY <1>1, <1>2, TypeCorrect, PTL DEF Spec

(* Comparing versions at commit is enough: an equal version means the value   *)
(* the body was shown is the committed one.                                   *)
THEOREM VersionsIdentifyValues == Spec => []VersionStampsValue
<1>1. Inv => VersionStampsValue
  BY DEF Inv, TxInv, Stamped, VersionStampsValue
<1> QED
  BY <1>1, InvHolds, PTL

(* What a transaction stages describes what its body did, on the values it    *)
(* read.                                                                      *)
THEOREM BodiesTracked == Spec => []Tracking
<1>1. Inv => Tracking
  BY DEF Inv, TxInv, Tracking
<1> QED
  BY <1>1, InvHolds, PTL

----------------------------------------------------------------------------
(* After-commit actions.                                                   *)

(* Sequences of equal numbers: adding one more, and dropping the oldest. *)
LEMMA AllEqualTo ==
  ASSUME NEW s \in Seq(Nat), NEW n \in Nat, \A i \in DOMAIN s : s[i] = n
  PROVE  /\ \A i \in DOMAIN Append(s, n) : Append(s, n)[i] = n
         /\ s # <<>> => \A i \in DOMAIN Tail(s) : Tail(s)[i] = n
<1>1. Len(s) \in Nat /\ DOMAIN s = 1..Len(s)
  OBVIOUS
<1>2. \A i \in DOMAIN Append(s, n) : Append(s, n)[i] = n
  <2>1. DOMAIN Append(s, n) = 1..(Len(s) + 1)
    BY <1>1
  <2> QED
    BY <1>1, <2>1
<1>3. ASSUME s # <<>> PROVE \A i \in DOMAIN Tail(s) : Tail(s)[i] = n
  <2>1. DOMAIN Tail(s) = 1..(Len(s) - 1) /\ \A i \in 1..(Len(s) - 1) : Tail(s)[i] = s[i + 1]
    BY <1>1, <1>3
  <2> QED
    BY <1>1, <2>1
<1> QED
  BY <1>2, <1>3

(* What a thread has deferred is of its present attempt, after a step that   *)
(* leaves both alone or starts afresh. *)
DeferredBy(t) == \A i \in DOMAIN deferred[t] : deferred[t][i] = attempts[t]

(* A step of one thread. *)
LEMMA DeferredFrame ==
  ASSUME TypeOK, DeferredByThisAttempt, NEW t \in Thread,
         DeferredBy(t)',
         \A u \in Thread : u # t => deferred'[u] = deferred[u] /\ attempts'[u] = attempts[u]
  PROVE  DeferredByThisAttempt'
BY DEF DeferredByThisAttempt, DeferredBy

(* A step that starts afresh. *)
LEMMA DeferredFresh ==
  ASSUME TypeOK, NEW t \in Thread, NewTransaction(t)
  PROVE  DeferredBy(t)' /\ \A u \in Thread : u # t => deferred'[u] = deferred[u]
BY DEF TypeOK, TxTypeOK, NewTransaction, NoDeferredYet, DeferredBy

(* Every step. *)
LEMMA DeferredStep ==
  TypeOK /\ DeferredByThisAttempt /\ [Next]_vars => DeferredByThisAttempt'
<1> SUFFICES ASSUME TypeOK, DeferredByThisAttempt, [Next]_vars PROVE DeferredByThisAttempt'
  OBVIOUS
<1>t. /\ deferred \in [Thread -> Seq(Nat)] /\ attempts \in [Thread -> Nat]
      /\ \A t \in Thread : DeferredBy(t)
  BY DEF TypeOK, TxTypeOK, RunTypeOK, DeferredByThisAttempt, DeferredBy
<1>1. ASSUME UNCHANGED <<deferred, attempts>> PROVE DeferredByThisAttempt'
  BY <1>1 DEF DeferredByThisAttempt
<1>2. ASSUME NEW t \in Thread, NewTransaction(t),
             \A u \in Thread : u # t => attempts'[u] = attempts[u]
      PROVE  DeferredByThisAttempt'
  BY <1>2, DeferredFresh, DeferredFrame
<1>3. ASSUME NEW t \in Thread, Begin(t) PROVE DeferredByThisAttempt'
  BY <1>2, <1>3, <1>t DEF Begin
<1>4. ASSUME NEW t \in Thread, Body(t) PROVE DeferredByThisAttempt'
  <2>1. ASSUME AfterCommit(t) PROVE DeferredByThisAttempt'
    <3>1. /\ deferred'[t] = Append(deferred[t], attempts[t]) /\ attempts' = attempts
          /\ \A u \in Thread : u # t => deferred'[u] = deferred[u]
      BY <2>1, <1>t DEF AfterCommit, BodyOp
    <3>2. \A i \in DOMAIN Append(deferred[t], attempts[t]) :
            Append(deferred[t], attempts[t])[i] = attempts[t]
      BY <1>t, AllEqualTo DEF DeferredBy
    <3> QED
      BY <3>1, <3>2, DeferredFrame DEF DeferredBy
  <2>2. ASSUME NEW r \in Ref,
               \/ Deref(t, r) \/ Ensure(t, r)
               \/ \E f \in Fn : Alter(t, r, f) \/ Commute(t, r, f)
               \/ \E v \in Value : RefSet(t, r, v)
               \/ \E p \in Validator[r] : SetValidatorInBody(t, r, p)
        PROVE  UNCHANGED <<deferred, attempts>>
    BY <2>2 DEF Deref, Ensure, Alter, Commute, RefSet, SetValidatorInBody, BodyOp
  <2> QED
    BY <1>1, <1>4, <2>1, <2>2 DEF Body
<1>5. ASSUME NEW t \in Thread, Proceed(t) PROVE DeferredByThisAttempt'
  <2>1. ASSUME BodyRaises(t) \/ Retry(t) \/ Leave(t) PROVE DeferredByThisAttempt'
    BY <1>2, <1>t, <2>1 DEF BodyRaises, Retry, Leave
  <2>2. ASSUME BodyReturns(t) \/ CommitConflicts(t) \/ CommitInvalid(t) \/ CommitAccepted(t)
               \/ StartNotifying(t)
        PROVE  DeferredByThisAttempt'
    BY <1>1, <2>2 DEF BodyReturns, CommitConflicts, CommitInvalid, CommitAccepted,
                      Decide, StartNotifying, txVars
  <2>3. ASSUME NEW r \in Ref, LockRef(t, r) \/ Publish(t, r) \/ Release(t, r) \/ Notify(t, r)
        PROVE  DeferredByThisAttempt'
    BY <1>1, <2>3 DEF LockRef, Publish, Release, Notify, txVars
  <2>4. ASSUME RunDeferred(t) PROVE DeferredByThisAttempt'
    <3>1. /\ deferred'[t] \in {Tail(deferred[t]), <<>>} /\ deferred[t] # <<>>
          /\ attempts' = attempts
          /\ \A u \in Thread : u # t => deferred'[u] = deferred[u]
      BY <2>4, <1>t DEF RunDeferred, runVars
    <3>2. \A i \in DOMAIN Tail(deferred[t]) : Tail(deferred[t])[i] = attempts[t]
      BY <1>t, <3>1, AllEqualTo DEF DeferredBy
    <3> QED
      BY <3>1, <3>2, DeferredFrame DEF DeferredBy
  <2> QED
    BY <1>5, <2>1, <2>2, <2>3, <2>4 DEF Proceed, GiveUp, CommitRaises, Return
<1>6. ASSUME NEW r \in Ref, (\E p \in Validator[r] : SetValidator(r, p))
                            \/ (\E n \in MinHistory[r] : SetMinHistory(r, n))
      PROVE  DeferredByThisAttempt'
  BY <1>1, <1>6 DEF SetValidator, SetMinHistory, txVars, runVars
<1>7. CASE UNCHANGED vars
  BY <1>1, <1>7 DEF vars, txVars, runVars
<1> QED
  BY <1>3, <1>4, <1>5, <1>6, <1>7 DEF Next, Finished

(* The after-commit actions a transaction runs were registered by the        *)
(* attempt that commits: those of an attempt that conflicted are gone.       *)
THEOREM DeferredIsCurrent == Spec => []DeferredByThisAttempt
<1>1. Init => DeferredByThisAttempt
  BY DEF Init, DeferredByThisAttempt
<1> QED
  BY <1>1, DeferredStep, TypeCorrect, PTL DEF Spec
----------------------------------------------------------------------------
(* The locks commit takes: who holds what in each phase, and what that       *)
(* protects.                                                                 *)

(* The part of LockDiscipline that speaks of one thread. *)
Disciplined(t) ==
  /\ \A r \in Ref : lock[r] = t <=> r \in Owns(t)
  /\ pc[t] \in {"locking", "releasing"} => todo[t] \subseteq Participant(t)
  /\ pc[t] = "publishing" => todo[t] \subseteq Changed(t)
  /\ pc[t] = "locking" => \A r \in todo[t], q \in Participant(t) \ todo[t] : q < r

(* A thread is not disturbed by steps of others that neither take its locks   *)
(* nor give it any.                                                          *)
LEMMA DisciplinedFrame ==
  ASSUME NEW t \in Thread, Disciplined(t),
         pc'[t] = pc[t], todo'[t] = todo[t], reads'[t] = reads[t],
         writes'[t] = writes[t], commuted'[t] = commuted[t],
         \A r \in Ref : lock'[r] = t <=> lock[r] = t
  PROVE  Disciplined(t)'
BY DEF Disciplined, Owns, Participant, Changed, Written, Recorded

(* Outside commit a thread owns nothing. *)
LEMMA DisciplinedIdle ==
  ASSUME NEW t \in Thread, \A r \in Ref : lock'[r] # t,
         pc'[t] \notin {"locking", "publishing", "releasing"}
  PROVE  Disciplined(t)'
BY DEF Disciplined, Owns

(* A Ref that is changed takes part in the commit. *)
LEMMA ChangedParticipates ==
  ASSUME NEW t \in Thread
  PROVE  Changed(t) \subseteq Participant(t)
BY DEF Participant

(* Steps inside a body, and those that start or drop a transaction.          *)
LEMMA QuietStep ==
  ASSUME TypeOK, LockDiscipline, NEW t \in Thread, UNCHANGED lock,
         Owns(t) = {}, pc'[t] \notin {"locking", "publishing", "releasing"},
         \A u \in Thread \ {t} :
           /\ pc'[u] = pc[u] /\ todo'[u] = todo[u] /\ reads'[u] = reads[u]
           /\ writes'[u] = writes[u] /\ commuted'[u] = commuted[u]
  PROVE  LockDiscipline'
<1>1. \A u \in Thread : Disciplined(u)
  BY DEF LockDiscipline, Disciplined
<1>2. Disciplined(t)'
  BY <1>1, DisciplinedIdle DEF Disciplined
<1>3. \A u \in Thread \ {t} : Disciplined(u)'
  BY <1>1, DisciplinedFrame
<1> QED
  BY <1>2, <1>3 DEF LockDiscipline, Disciplined

(* Steps of commit: they change no transaction, and a lock only when free or  *)
(* owned.                                                                    *)
LEMMA CommitStep ==
  ASSUME TypeOK, LockDiscipline, NEW t \in Thread, Disciplined(t)',
         UNCHANGED <<reads, writes, commuted>>,
         \A u \in Thread \ {t} :
           /\ pc'[u] = pc[u] /\ todo'[u] = todo[u]
           /\ \A r \in Ref : lock'[r] = u <=> lock[r] = u
  PROVE  LockDiscipline'
<1>1. \A u \in Thread \ {t} : Disciplined(u)'
  BY DisciplinedFrame DEF LockDiscipline, Disciplined
<1> QED
  BY <1>1 DEF LockDiscipline, Disciplined

(* Operations of a body touch only its own transaction.                      *)
LEMMA LockBody ==
  ASSUME TypeOK, LockDiscipline, NEW t \in Thread, Body(t)
  PROVE  LockDiscipline'
<1>1. pc[t] = "body" /\ UNCHANGED <<pc, todo, lock>>
  BY DEF Body, Deref, Ensure, Alter, Commute, RefSet, SetValidatorInBody, AfterCommit, BodyOp
<1>2. ASSUME NEW u \in Thread \ {t}
      PROVE  reads'[u] = reads[u] /\ writes'[u] = writes[u] /\ commuted'[u] = commuted[u]
  <2>1. ASSUME NEW r \in Ref, Record(t, r) PROVE reads'[u] = reads[u]
    BY <2>1 DEF Record, TypeOK, TxTypeOK
  <2>2. reads'[u] = reads[u]
    BY <2>1 DEF Body, Deref, Ensure, Alter, Commute, RefSet, SetValidatorInBody, AfterCommit
  <2>3. writes'[u] = writes[u]
    <3>1. ASSUME NEW r \in Ref, NEW f, Alter(t, r, f) \/ Commute(t, r, f)
          PROVE  writes'[u] = writes[u]
      <4>1. writes' = [writes EXCEPT ![t][r] = f[Look(t, r)]] \/ writes' = writes
        BY <3>1 DEF Alter, Commute
      <4> QED
        BY <4>1 DEF TypeOK, TxTypeOK
    <3>2. ASSUME NEW r \in Ref, NEW v, RefSet(t, r, v) PROVE writes'[u] = writes[u]
      BY <3>2 DEF RefSet, TypeOK, TxTypeOK
    <3> QED
      BY <3>1, <3>2 DEF Body, Deref, Ensure, SetValidatorInBody, AfterCommit
  <2>4. commuted'[u] = commuted[u]
    BY DEF TypeOK, TxTypeOK,
           Body, Deref, Ensure, Alter, Commute, RefSet, SetValidatorInBody, AfterCommit
  <2> QED
    BY <2>2, <2>3, <2>4
<1> QED
  BY <1>1, <1>2, QuietStep DEF Owns

(* run_transaction and commit keep the discipline.                           *)
LEMMA LockProceed ==
  ASSUME TypeOK, LockDiscipline, NEW t \in Thread, Proceed(t)
  PROVE  LockDiscipline'
<1>d. Disciplined(t) /\ Changed(t) \subseteq Participant(t) /\ Participant(t) \subseteq Ref
  BY ChangedParticipates DEF LockDiscipline, Disciplined, TypeOK, TxTypeOK, Participant,
                             Changed, Written
<1>p. ASSUME UNCHANGED <<reads, writes, commuted>>
      PROVE  Participant(t)' = Participant(t) /\ Changed(t)' = Changed(t)
  BY <1>p DEF Participant, Changed, Written, Recorded
<1>1. ASSUME NewTransaction(t), UNCHANGED <<refVars, todo>>, Owns(t) = {},
             \E phase \in {"body", "idle"} : pc' = [pc EXCEPT ![t] = phase]
      PROVE  LockDiscipline'
  BY <1>1, QuietStep DEF NewTransaction, NoReadYet, refVars, TypeOK, TxTypeOK, RunTypeOK
<1>2. ASSUME BodyRaises(t) PROVE LockDiscipline'
  BY <1>1, <1>2 DEF BodyRaises, Owns
<1>3. ASSUME Retry(t) PROVE LockDiscipline'
  BY <1>1, <1>3 DEF Retry, Released, Owns
<1>4. ASSUME Leave(t), Owns(t) = {} PROVE LockDiscipline'
  BY <1>1, <1>4 DEF Leave
<1>5. ASSUME BodyReturns(t) PROVE LockDiscipline'
  <2>1. /\ UNCHANGED <<reads, writes, commuted, lock>>
        /\ pc[t] = "body" /\ pc'[t] = "locking" /\ todo'[t] = Participant(t)
        /\ \A u \in Thread \ {t} : pc'[u] = pc[u] /\ todo'[u] = todo[u]
    BY <1>5 DEF BodyReturns, refVars, txVars, TypeOK, RunTypeOK
  <2>2. Disciplined(t)'
    BY <1>d, <1>p, <2>1 DEF Disciplined, Owns
  <2> QED
    BY <2>1, <2>2, CommitStep
<1>6. ASSUME NEW o, NEW phase, NEW visit, Decide(t, o, phase, visit), AllLocked(t),
             UNCHANGED <<reads, writes, commuted>>,
             \/ phase = "releasing" /\ visit = Participant(t)
             \/ phase = "publishing" /\ visit = Changed(t)
      PROVE  LockDiscipline'
  <2>1. /\ UNCHANGED lock /\ pc[t] = "locking" /\ todo[t] = {}
        /\ pc'[t] = phase /\ todo'[t] = visit
        /\ \A u \in Thread \ {t} : pc'[u] = pc[u] /\ todo'[u] = todo[u]
    BY <1>6 DEF Decide, AllLocked, refVars, TypeOK, RunTypeOK
  <2>2. Disciplined(t)'
    BY <1>d, <1>p, <1>6, <2>1 DEF Disciplined, Owns
  <2> QED
    BY <1>6, <2>1, <2>2, CommitStep
<1>7. ASSUME CommitConflicts(t) \/ CommitInvalid(t) \/ CommitAccepted(t)
      PROVE  LockDiscipline'
  BY <1>6, <1>7 DEF CommitConflicts, CommitInvalid, CommitAccepted, CanValidate, txVars
<1>8. ASSUME NEW r \in Ref, LockRef(t, r) PROVE LockDiscipline'
  <2>1. /\ UNCHANGED <<reads, writes, commuted>>
        /\ pc[t] = "locking" /\ pc'[t] = "locking" /\ todo'[t] = todo[t] \ {r}
        /\ r \in todo[t] /\ (\A q \in todo[t] : r <= q)
        /\ lock[r] = Nobody /\ lock'[r] = t
        /\ \A q \in Ref \ {r} : lock'[q] = lock[q]
        /\ \A u \in Thread \ {t} : pc'[u] = pc[u] /\ todo'[u] = todo[u]
    BY <1>8 DEF LockRef, IsNext, txVars, TypeOK, RefTypeOK, RunTypeOK
  <2>2. Participant(t) \ todo'[t] = (Participant(t) \ todo[t]) \cup {r}
    BY <1>d, <2>1 DEF Disciplined
  <2>3. \A q \in todo'[t], p \in Participant(t) \ todo'[t] : p < q
    <3> SUFFICES ASSUME NEW q \in todo'[t], NEW p \in Participant(t) \ todo'[t]
                 PROVE  p < q
      OBVIOUS
    <3>1. q \in todo[t] /\ q # r /\ q \in Nat /\ r \in Nat
      BY <1>d, <2>1, StmAssumption DEF Disciplined
    <3>2. CASE p = r
      BY <2>1, <3>1, <3>2
    <3>3. CASE p \in Participant(t) \ todo[t]
      BY <1>d, <2>1, <3>1, <3>3 DEF Disciplined
    <3> QED
      BY <2>2, <3>2, <3>3
  <2>4. Disciplined(t)'
    BY <1>d, <1>p, <2>1, <2>2, <2>3 DEF Disciplined, Owns
  <2>5. \A u \in Thread \ {t} : \A q \in Ref : lock'[q] = u <=> lock[q] = u
    BY <2>1, StmAssumption
  <2> QED
    BY <2>1, <2>4, <2>5, CommitStep
<1>9. ASSUME NEW r \in Ref, Publish(t, r) PROVE LockDiscipline'
  <2>1. /\ UNCHANGED <<reads, writes, commuted, lock>> /\ pc[t] = "publishing"
        /\ \/ pc'[t] = "releasing" /\ todo'[t] = Participant(t)
           \/ pc'[t] = "publishing" /\ todo'[t] = todo[t] \ {r}
        /\ \A u \in Thread \ {t} : pc'[u] = pc[u] /\ todo'[u] = todo[u]
    BY <1>9 DEF Publish, txVars, TypeOK, RunTypeOK
  <2>2. Disciplined(t)'
    BY <1>d, <1>p, <2>1 DEF Disciplined, Owns
  <2> QED
    BY <2>1, <2>2, CommitStep
<1>10. ASSUME NEW r \in Ref, Release(t, r) PROVE LockDiscipline'
  <2>1. /\ UNCHANGED <<reads, writes, commuted>>
        /\ pc[t] = "releasing" /\ pc'[t] = "releasing" /\ todo'[t] = todo[t] \ {r}
        /\ r \in todo[t] /\ lock'[r] = Nobody
        /\ \A q \in Ref \ {r} : lock'[q] = lock[q]
        /\ \A u \in Thread \ {t} : pc'[u] = pc[u] /\ todo'[u] = todo[u]
    BY <1>10 DEF Release, txVars, TypeOK, RefTypeOK, RunTypeOK
  <2>2. Disciplined(t)'
    BY <1>d, <1>p, <2>1, StmAssumption DEF Disciplined, Owns
  <2>3. \A u \in Thread \ {t} : \A q \in Ref : lock'[q] = u <=> lock[q] = u
    BY <1>d, <2>1, StmAssumption DEF Disciplined, Owns
  <2> QED
    BY <2>1, <2>2, <2>3, CommitStep
<1>11. ASSUME StartNotifying(t) PROVE LockDiscipline'
  BY <1>11, QuietStep DEF StartNotifying, Released, Owns, refVars, txVars, TypeOK, RunTypeOK
<1>12. ASSUME NEW r \in Ref, Notify(t, r) PROVE LockDiscipline'
  BY <1>12, QuietStep DEF Notify, Owns, refVars, txVars, TypeOK, RunTypeOK
<1>13. ASSUME RunDeferred(t) PROVE LockDiscipline'
  BY <1>13, QuietStep DEF RunDeferred, Owns, refVars, runVars
<1> QED
  BY <1>2, <1>3, <1>4, <1>5, <1>7, <1>8, <1>9, <1>10, <1>11, <1>12, <1>13
     DEF Proceed, GiveUp, CommitRaises, Return, Released, Owns

(* Locks follow the discipline in every behaviour.                           *)
LEMMA LocksDisciplined == Spec => [](TypeOK /\ LockDiscipline)
<1>1. Init => LockDiscipline
  BY StmAssumption DEF Init, LockDiscipline, Owns
<1>2. TypeOK /\ LockDiscipline /\ [Next]_vars => LockDiscipline'
  <2> SUFFICES ASSUME TypeOK, LockDiscipline, [Next]_vars PROVE LockDiscipline'
    OBVIOUS
  <2>1. ASSUME NEW t \in Thread, Begin(t) PROVE LockDiscipline'
    BY <2>1, QuietStep DEF Begin, Owns, NewTransaction, NoReadYet, refVars,
                           TypeOK, TxTypeOK, RunTypeOK
  <2>2. ASSUME UNCHANGED <<reads, writes, commuted, pc, todo, lock>> PROVE LockDiscipline'
    BY <2>2, DisciplinedFrame DEF LockDiscipline, Disciplined
  <2>3. ASSUME NEW r \in Ref, (\E p \in Validator[r] : SetValidator(r, p))
                              \/ (\E n \in MinHistory[r] : SetMinHistory(r, n))
        PROVE  LockDiscipline'
    BY <2>2, <2>3 DEF SetValidator, SetMinHistory, txVars, runVars
  <2>4. CASE UNCHANGED vars
    BY <2>2, <2>4 DEF vars, refVars, txVars, runVars
  <2> QED
    BY <2>1, <2>3, <2>4, LockBody, LockProceed DEF Next, Finished
<1> QED
  BY <1>1, <1>2, TypeCorrect, PTL DEF Spec

(* No reader sees a commit in part: while changes are left to publish, the    *)
(* commit holds the lock of every Ref it changes.                             *)
THEOREM CommitsNotTorn == Spec => []NoTornCommit
<1>1. TypeOK /\ LockDiscipline => NoTornCommit
  BY ChangedParticipates DEF LockDiscipline, Owns, NoTornCommit, Held, TypeOK, TxTypeOK,
                             Changed, Written
<1> QED
  BY <1>1, LocksDisciplined, PTL

(* As long as validators read no other Ref, commits wait for locks only in    *)
(* the order of the Refs: they cannot wait for each other in a circle.        *)
THEOREM LocksOrdered ==
  ASSUME \A r \in Ref : ValidatorReads[r] = {}
  PROVE  Spec => []LocksInOrder
<1>1. TypeOK /\ LockDiscipline => LocksInOrder
  <2> SUFFICES ASSUME TypeOK, LockDiscipline, NEW t \in Thread,
                      NEW r \in Wanted(t), NEW q \in Held(t)
               PROVE  q < r
    BY DEF LocksInOrder
  <2>1. ValidatorWants(t) = {}
    BY DEF ValidatorWants, TypeOK, TxTypeOK, Changed, Written
  <2>2. pc[t] = "locking" /\ r \in todo[t]
    BY <2>1 DEF Wanted, IsNext
  <2>3. q \in Participant(t) \ todo[t]
    BY <2>2 DEF Held, LockDiscipline, Owns
  <2> QED
    BY <2>2, <2>3 DEF LockDiscipline
<1> QED
  BY <1>1, LocksDisciplined, PTL

----------------------------------------------------------------------------
(* Validators.                                                             *)

(* A value waiting to be published passed the validator still installed.     *)
ValidInv ==
  /\ StoreValid
  /\ \A t \in Thread :
       pc[t] = "publishing" => \A r \in todo[t] : changes[t][r] \in validator[r]

(* A step that neither publishes nor validates keeps committed values valid.  *)
LEMMA ValidFrame ==
  ASSUME ValidInv, UNCHANGED <<state, validator>>,
         \A t \in Thread :
           pc'[t] = "publishing"
             => pc[t] = "publishing" /\ todo'[t] = todo[t] /\ changes'[t] = changes[t]
  PROVE  ValidInv'
BY DEF ValidInv, StoreValid

(* A commit accepts its changes under the locks it publishes them under; a    *)
(* validator can be replaced only while the lock is free, so not between the  *)
(* two.                                                                      *)
LEMMA ValidStep ==
  ASSUME "set-validator!" \notin BodyOps, TypeOK, LockDiscipline, ValidInv, [Next]_vars
  PROVE  ValidInv'
<1>1. ASSUME NEW t \in Thread, NewTransaction(t), UNCHANGED refVars,
             UNCHANGED todo, \E phase \in {"body", "idle"} : pc' = [pc EXCEPT ![t] = phase]
      PROVE  ValidInv'
  BY <1>1, ValidFrame DEF NewTransaction, refVars, TypeOK, TxTypeOK, RunTypeOK
<1>2. ASSUME NEW t \in Thread, Begin(t) PROVE ValidInv'
  BY <1>1, <1>2 DEF Begin
<1>3. ASSUME NEW t \in Thread, Body(t) PROVE ValidInv'
  <2>1. UNCHANGED <<state, validator, pc, todo, changes>>
    BY <1>3 DEF Body, Deref, Ensure, Alter, Commute, RefSet, SetValidatorInBody,
                AfterCommit, BodyOp
  <2> QED
    BY <2>1, ValidFrame
<1>4. ASSUME NEW t \in Thread, Proceed(t) PROVE ValidInv'
  <2>1. ASSUME BodyRaises(t) \/ Retry(t) \/ Leave(t) PROVE ValidInv'
    BY <1>1, <2>1 DEF BodyRaises, Retry, Leave
  <2>2. ASSUME BodyReturns(t) \/ CommitConflicts(t) \/ CommitInvalid(t) \/ StartNotifying(t)
        PROVE  ValidInv'
    BY <2>2, ValidFrame DEF BodyReturns, CommitConflicts, CommitInvalid, Decide,
                            StartNotifying, refVars, txVars, TypeOK, RunTypeOK
  <2>3. ASSUME NEW r \in Ref, LockRef(t, r) \/ Release(t, r) \/ Notify(t, r)
        PROVE  ValidInv'
    BY <2>3, ValidFrame DEF LockRef, Release, Notify, refVars, txVars, TypeOK, RunTypeOK
  <2>4. ASSUME RunDeferred(t) PROVE ValidInv'
    BY <2>4, ValidFrame DEF RunDeferred, refVars, runVars
  <2>5. ASSUME CommitAccepted(t) PROVE ValidInv'
    <3>1. UNCHANGED <<state, validator>> /\ AllValid(t)
      BY <2>5 DEF CommitAccepted, Decide, refVars
    <3>2. pc'[t] = "publishing" => \A r \in todo'[t] : changes'[t][r] \in validator[r]
      <4> SUFFICES ASSUME pc'[t] = "publishing", NEW r \in todo'[t]
                   PROVE  changes'[t][r] \in validator[r]
        OBVIOUS
      <4>1. r \in Changed(t)
        BY <2>5 DEF CommitAccepted, Decide, TypeOK, RunTypeOK
      <4>2. r \in Ref
        BY <4>1 DEF Changed, Written, TypeOK, TxTypeOK
      <4>3. changes'[t][r] = NewValue(t, r)
        BY <2>5, <4>1, <4>2 DEF CommitAccepted, Changes, TypeOK, TxTypeOK
      <4> QED
        BY <3>1, <4>1, <4>3 DEF AllValid
    <3>3. \A u \in Thread \ {t} :
            pc'[u] = pc[u] /\ todo'[u] = todo[u] /\ changes'[u] = changes[u]
      BY <2>5 DEF CommitAccepted, Decide, TypeOK, TxTypeOK, RunTypeOK
    <3> QED
      BY <3>1, <3>2, <3>3 DEF ValidInv, StoreValid
  <2>6. ASSUME NEW r \in Ref, Publish(t, r) PROVE ValidInv'
    <3>1. /\ UNCHANGED <<validator, changes>>
          /\ pc[t] = "publishing" /\ r \in todo[t] /\ state'[r] = changes[t][r]
          /\ \A q \in Ref \ {r} : state'[q] = state[q]
          /\ pc'[t] = "publishing" => todo'[t] \subseteq todo[t]
          /\ \A u \in Thread \ {t} : pc'[u] = pc[u] /\ todo'[u] = todo[u]
      BY <2>6 DEF Publish, txVars, TypeOK, RefTypeOK, RunTypeOK
    <3> QED
      BY <3>1 DEF ValidInv, StoreValid
  <2> QED
    BY <1>4, <2>1, <2>2, <2>3, <2>4, <2>5, <2>6 DEF Proceed, GiveUp, CommitRaises, Return
<1>5. ASSUME NEW r \in Ref, NEW p \in Validator[r], SetValidator(r, p) PROVE ValidInv'
  <2>1. /\ lock[r] = Nobody /\ state[r] \in p /\ UNCHANGED <<state, pc, todo, changes>>
        /\ validator'[r] = p /\ \A q \in Ref \ {r} : validator'[q] = validator[q]
    BY <1>5 DEF SetValidator, txVars, runVars, TypeOK, RefTypeOK
  <2>2. ASSUME NEW t \in Thread, pc[t] = "publishing" PROVE r \notin todo[t]
    BY <2>1, <2>2, ChangedParticipates, StmAssumption DEF LockDiscipline, Owns
  <2>3. \A t \in Thread : todo[t] \subseteq Ref
    BY DEF TypeOK, RunTypeOK
  <2> QED
    BY <2>1, <2>2, <2>3 DEF ValidInv, StoreValid
<1>6. ASSUME NEW r \in Ref, NEW n \in MinHistory[r], SetMinHistory(r, n) PROVE ValidInv'
  BY <1>6, ValidFrame DEF SetMinHistory, txVars, runVars
<1>7. CASE UNCHANGED vars
  BY <1>7, ValidFrame DEF vars, refVars, txVars, runVars
<1> QED
  BY <1>2, <1>3, <1>4, <1>5, <1>6, <1>7 DEF Next, Finished

(* As long as bodies do not install validators, committed values satisfy     *)
(* their validator at every moment, however commits and set-validator! calls  *)
(* interleave.                                                               *)
THEOREM StoreStaysValid ==
  ASSUME "set-validator!" \notin BodyOps
  PROVE  Spec => []StoreValid
<1>1. Init => ValidInv
  BY DEF Init, ValidInv, StoreValid
<1>2. TypeOK /\ LockDiscipline /\ ValidInv /\ [Next]_vars => ValidInv'
  BY ValidStep
<1>3. ValidInv => StoreValid
  BY DEF ValidInv
<1> QED
  BY <1>1, <1>2, <1>3, LocksDisciplined, PTL DEF Spec

-----------------------------------------------------------------------------
(***************************************************************************)
(* The transactional memory implements SerialStore: initial states map to   *)
(* initial states, and every step to a step of SerialStore or to none.      *)
(***************************************************************************)

RInv == TypeInv /\ Inv /\ LockDiscipline

(* Who is publishing a Ref is told by its lock. *)
LEMMA PublisherOwns ==
  ASSUME TypeOK, LockDiscipline, NEW t \in Thread, pc[t] = "publishing", NEW r \in todo[t]
  PROVE  lock[r] = t
BY ChangedParticipates DEF LockDiscipline, Owns, TypeOK, RunTypeOK

(* Committed values are values. *)
LEMMA CommittedType ==
  ASSUME TypeInv
  PROVE  Committed \in [Ref -> Value]
<1> SUFFICES ASSUME NEW r \in Ref, BeingPublished(r) PROVE changes[lock[r]][r] \in Value
  BY DEF Committed, TypeInv, TypeOK, RefTypeOK
<1> QED
  BY DEF BeingPublished, TypeInv, TypeOK, RefTypeOK, PublishesValues

(* The committed values stay when no value is stored and no thread starts,    *)
(* ends or goes on with publishing.                                          *)
LEMMA CommittedFrame ==
  ASSUME TypeOK, TypeOK', LockDiscipline, LockDiscipline', UNCHANGED state,
         \A t \in Thread :
           /\ pc'[t] = "publishing" <=> pc[t] = "publishing"
           /\ pc[t] = "publishing" => todo'[t] = todo[t] /\ changes'[t] = changes[t]
  PROVE  Committed' = Committed
<1> SUFFICES ASSUME NEW r \in Ref PROVE Committed'[r] = Committed[r]
  BY DEF Committed
<1>1. /\ lock[r] \in Thread \cup {Nobody} /\ lock'[r] \in Thread \cup {Nobody}
      /\ \A t \in Thread : todo[t] \subseteq Ref
  BY DEF TypeOK, RefTypeOK, RunTypeOK
<1>2. CASE BeingPublished(r)
  <2>1. PICK t \in Thread : lock[r] = t /\ pc[t] = "publishing" /\ r \in todo[t]
    BY <1>1, <1>2 DEF BeingPublished
  <2>2. pc'[t] = "publishing" /\ r \in todo'[t] /\ changes'[t] = changes[t]
    BY <2>1
  <2>3. r \in Participant(t)'
    BY <2>2 DEF LockDiscipline, Participant
  <2>4. lock'[r] = t
    BY <2>2, <2>3 DEF LockDiscipline, Owns
  <2> QED
    BY <1>2, <2>1, <2>2, <2>4, StmAssumption DEF Committed, BeingPublished
<1>3. CASE ~BeingPublished(r)
  <2>1. ~BeingPublished(r)'
    <3> SUFFICES ASSUME BeingPublished(r)' PROVE FALSE
      OBVIOUS
    <3>1. lock'[r] \in Thread /\ pc'[lock'[r]] = "publishing" /\ r \in todo'[lock'[r]]
      BY <1>1 DEF BeingPublished
    <3>2. pc[lock'[r]] = "publishing" /\ r \in todo[lock'[r]]
      BY <3>1
    <3>3. lock[r] = lock'[r]
      BY <3>1, <3>2, PublisherOwns
    <3> QED
      BY <1>3, <3>1, <3>2, <3>3, StmAssumption DEF BeingPublished
  <2> QED
    BY <1>3, <2>1 DEF Committed
<1> QED
  BY <1>2, <1>3

(* A new transaction is a fresh one of SerialStore. *)
LEMMA FreshMaps ==
  ASSUME TypeOK, NEW t \in Thread, NewTransaction(t)
  PROVE  Serial!Fresh(t)
<1>1. Pinned' = [Pinned EXCEPT ![t] = {}]
  <2> SUFFICES ASSUME NEW u \in Thread
               PROVE  Pinned'[u] = IF u = t THEN {} ELSE Pinned[u]
    BY DEF Pinned
  <2>1. CASE u = t
    BY <2>1 DEF NewTransaction, Pinned, Written, TypeOK, TxTypeOK
  <2>2. CASE u # t
    BY <2>2 DEF NewTransaction, Pinned, Written, TypeOK, TxTypeOK
  <2> QED
    BY <2>1, <2>2
<1> QED
  BY <1>1 DEF NewTransaction, Serial!Fresh, Same

(* A step that SerialStore does not see. *)
LEMMA StutterMaps ==
  ASSUME TypeInv, TypeOK', LockDiscipline, LockDiscipline', UNCHANGED state,
         UNCHANGED <<effect, legal, commuted, writes, ensured>>,
         \A t \in Thread :
           /\ pc'[t] = "publishing" <=> pc[t] = "publishing"
           /\ pc[t] = "publishing" => todo'[t] = todo[t] /\ changes'[t] = changes[t]
           /\ pc'[t] \in {"body", "locking"} <=> pc[t] \in {"body", "locking"}
  PROVE  UNCHANGED Serial!vars
<1>1. Committed' = Committed
  BY CommittedFrame DEF TypeInv
<1>2. Active' = Active /\ Pinned' = Pinned
  BY DEF Active, Pinned, Written
<1> QED
  BY <1>1, <1>2 DEF Serial!vars

(* Writing or ensuring a Ref pins it. *)
LEMMA Pins ==
  ASSUME TypeOK, NEW t \in Thread, NEW r \in Ref, NEW w, w # NoValue,
         \/ ensured' = [ensured EXCEPT ![t] = @ \cup {r}] /\ UNCHANGED writes
         \/ writes' = [writes EXCEPT ![t][r] = w] /\ UNCHANGED ensured
  PROVE  Pinned' = [Pinned EXCEPT ![t] = @ \cup {r}]
<1> SUFFICES ASSUME NEW u \in Thread
             PROVE  Pinned'[u] = IF u = t THEN Pinned[t] \cup {r} ELSE Pinned[u]
  BY DEF Pinned
<1>t. /\ writes \in [Thread -> [Ref -> Value \cup {NoValue}]]
      /\ ensured \in [Thread -> SUBSET Ref]
  BY DEF TypeOK, TxTypeOK
<1>1. CASE ensured' = [ensured EXCEPT ![t] = @ \cup {r}] /\ UNCHANGED writes
  <2>1. Written(u)' = Written(u)
    BY <1>1 DEF Written
  <2> QED
    BY <1>1, <1>t, <2>1 DEF Pinned
<1>2. CASE writes' = [writes EXCEPT ![t][r] = w] /\ UNCHANGED ensured
  <2>1. Written(u)' = IF u = t THEN Written(t) \cup {r} ELSE Written(u)
    BY <1>2, <1>t DEF Written
  <2> QED
    BY <1>2, <1>t, <2>1 DEF Pinned
<1> QED
  BY <1>1, <1>2

(* Operations of a body: the body observes, updates or commutes.             *)
LEMMA BodyMaps ==
  ASSUME TypeInv, TypeOK', LockDiscipline, LockDiscipline', NEW t \in Thread, Body(t)
  PROVE  [Serial!Next]_(Serial!vars)
<1>t. TypeOK
  BY DEF TypeInv
<1>1. pc[t] = "body" /\ UNCHANGED <<state, pc, todo, changes>>
  BY DEF Body, Deref, Ensure, Alter, Commute, RefSet, SetValidatorInBody, AfterCommit, BodyOp
<1>2. Committed' = Committed /\ Active' = Active /\ t \in Active
  BY <1>1, <1>t, CommittedFrame DEF Active
<1>3. ASSUME NEW r \in Ref PROVE Look(t, r) \in Value
  BY <1>t, LookIsValue
<1>4. ASSUME NEW r \in Ref, Deref(t, r) PROVE Serial!Observe(t, r)
  <2>1. Pinned' = Pinned
    BY <1>4 DEF Deref, Pinned, Written
  <2> QED
    BY <1>2, <1>3, <1>4, <2>1 DEF Deref, Shown, Serial!Observe
<1>5. ASSUME NEW r \in Ref, Ensure(t, r) PROVE Serial!Observe(t, r)
  <2>w. Look(t, r) # NoValue
    BY <1>3, StmAssumption
  <2>1. Pinned' = [Pinned EXCEPT ![t] = @ \cup {r}]
    BY <1>5, <1>t, <2>w, Pins DEF Ensure
  <2> QED
    BY <1>2, <1>3, <1>5, <2>1 DEF Ensure, Shown, Serial!Observe
<1>6. ASSUME NEW r \in Ref, NEW f \in Fn, Alter(t, r, f) PROVE Serial!Update(t, r)
  <2> DEFINE w == f[Look(t, r)]
  <2>1. f \in [Value -> Value] /\ w \in Value
    BY <1>3, StmAssumption
  <2>2. Pinned' = [Pinned EXCEPT ![t] = @ \cup {r}]
    BY <1>6, <1>t, <2>1, Pins, StmAssumption DEF Alter
  <2>3. /\ effect' = [effect EXCEPT ![t][r] = [x \in Value |-> f[@[x]]]]
        /\ legal' = [legal EXCEPT ![t][r] = {x \in @ : effect'[t][r][x] = w}]
        /\ commuted' = commuted
    BY <1>6 DEF Alter, Applied, Shown
  <2>4. \A x \in legal[t][r] : effect'[t][r][x] = f[effect[t][r][x]]
    BY <1>t, <2>3 DEF TypeOK, TxTypeOK
  <2>5. legal' = [legal EXCEPT ![t][r] = {x \in @ : f[effect[t][r][x]] = w}]
    BY <2>3, <2>4
  <2> HIDE DEF w
  <2> QED
    BY <1>2, <2>1, <2>2, <2>3, <2>5 DEF Serial!Update
<1>7. ASSUME NEW r \in Ref, NEW v \in Value, RefSet(t, r, v) PROVE Serial!Update(t, r)
  <2> DEFINE f == [x \in Value |-> v]
  <2>1. Pinned' = [Pinned EXCEPT ![t] = @ \cup {r}]
    BY <1>7, <1>t, Pins, StmAssumption DEF RefSet
  <2>2. /\ effect' = [effect EXCEPT ![t][r] = [x \in Value |-> f[@[x]]]]
        /\ UNCHANGED <<legal, commuted>>
    BY <1>7 DEF RefSet, Applied
  <2>3. \A x \in legal[t][r] : f[effect[t][r][x]] = v
    BY <1>t DEF TypeOK, TxTypeOK
  <2>4. f \in [Value -> Value]
    OBVIOUS
  <2> HIDE DEF f
  <2>5. {x \in legal[t][r] : f[effect[t][r][x]] = v} = legal[t][r]
    BY <2>3
  <2>6. legal' = [legal EXCEPT ![t][r] = {x \in @ : f[effect[t][r][x]] = v}]
    BY <1>t, <2>2, <2>5 DEF TypeOK, TxTypeOK
  <2> QED
    BY <1>2, <2>1, <2>2, <2>4, <2>6 DEF Serial!Update
<1>8. ASSUME NEW r \in Ref, NEW f \in Fn, Commute(t, r, f) PROVE Serial!Commute(t, r)
  <2>1. f \in [Value -> Value] /\ f[Look(t, r)] \in Value
    BY <1>3, StmAssumption
  <2>2. Written(t)' = Written(t) /\ \A u \in Thread \ {t} : writes'[u] = writes[u]
    <3>1. \/ writes[t][r] # NoValue /\ writes' = [writes EXCEPT ![t][r] = f[Look(t, r)]]
          \/ writes' = writes
      BY <1>8 DEF Commute
    <3>2. CASE writes' = writes
      BY <3>2 DEF Written
    <3>3. CASE writes[t][r] # NoValue /\ writes' = [writes EXCEPT ![t][r] = f[Look(t, r)]]
      BY <1>t, <2>1, <3>3, StmAssumption DEF Written, TypeOK, TxTypeOK
    <3> QED
      BY <3>1, <3>2, <3>3
  <2>3. Pinned' = Pinned
    BY <1>8, <2>2 DEF Commute, Pinned, Written
  <2> QED
    BY <1>2, <1>8, <2>1, <2>3 DEF Commute, Applied, Serial!Commute
<1>9. ASSUME NEW r \in Ref, NEW p \in Validator[r], SetValidatorInBody(t, r, p)
      PROVE UNCHANGED Serial!vars
  <2>1. Pinned' = Pinned /\ UNCHANGED <<effect, legal, commuted>>
    BY <1>9 DEF SetValidatorInBody, Pinned, Written
  <2> QED
    BY <1>2, <2>1 DEF Serial!vars
<1>10. ASSUME AfterCommit(t) PROVE UNCHANGED Serial!vars
  <2>1. Pinned' = Pinned /\ UNCHANGED <<effect, legal, commuted>>
    BY <1>10 DEF AfterCommit, Pinned, Written
  <2> QED
    BY <1>2, <2>1 DEF Serial!vars
<1> QED
  BY <1>4, <1>5, <1>6, <1>7, <1>8, <1>9, <1>10 DEF Body, Serial!Next

(* What the commit of t stores in r is the effect of t on the committed value. *)
LEMMA ChangeIsEffect ==
  ASSUME TypeInv, Inv, LockDiscipline, NEW t \in Thread, NEW r \in Changed(t),
         AllLocked(t), ~Conflicting(t)
  PROVE  NewValue(t, r) = effect[t][r][state[r]]
<1>1. r \in Ref /\ TxInv(t, r) /\ state[r] \in Value
  BY DEF Inv, Changed, Written, TypeInv, TypeOK, RefTypeOK, TxTypeOK
<1>2. CASE r \in Written(t)
  <2>1. Recorded(t, r) /\ Look(t, r) = writes[t][r]
    BY <1>1, <1>2 DEF TxInv, StagedIsRead, Written, Look
  <2>2. reads[t][r].version = version[r]
    BY <1>1, <1>2, <2>1 DEF Conflicting, Checked, PureCommute
  <2>3. reads[t][r].value = state[r]
    BY <1>1, <2>1, <2>2 DEF TxInv, Stamped
  <2> QED
    BY <1>1, <1>2, <2>1, <2>3 DEF TxInv, EffectTracked, NewValue
<1>3. CASE r \notin Written(t)
  BY <1>1, <1>3 DEF Written, NewValue, TxInv, EffectTracked
<1> QED
  BY <1>2, <1>3

(* An accepted commit is the instant at which the transaction takes effect.  *)
LEMMA CommitMaps ==
  ASSUME TypeInv, TypeOK', Inv, LockDiscipline, LockDiscipline', NEW t \in Thread,
         CommitAccepted(t)
  PROVE  Serial!Commit(t)
<1>t. TypeOK
  BY DEF TypeInv
<1>1. /\ pc[t] = "locking" /\ todo[t] = {} /\ ~Conflicting(t) /\ AllLocked(t)
      /\ UNCHANGED <<state, lock, effect, legal, commuted, writes, ensured>>
  BY DEF CommitAccepted, CanValidate, AllLocked, Decide, refVars
<1>2. \A r \in Participant(t) : r \in Ref /\ lock[r] = t
  <2>1. commuted[t] \subseteq Ref
    BY <1>t DEF TypeOK, TxTypeOK
  <2>2. Participant(t) \subseteq Ref
    BY <2>1 DEF Participant, Changed, Written
  <2>3. Owns(t) = Participant(t)
    BY <1>1 DEF Owns
  <2>4. \A r \in Ref : lock[r] = t <=> r \in Owns(t)
    BY DEF LockDiscipline
  <2> QED
    BY <2>2, <2>3, <2>4
<1>3. \A r \in Participant(t) : Committed[r] = state[r]
  BY <1>1, <1>2 DEF Committed, BeingPublished
<1>4. t \in Active /\ Active' = Active \ {t} /\ Pinned' = Pinned
  <2>1. /\ pc'[t] \in {"publishing", "releasing"}
        /\ \A u \in Thread \ {t} : pc'[u] = pc[u]
    BY <1>t DEF CommitAccepted, Decide, TypeOK, RunTypeOK
  <2> QED
    BY <1>1, <2>1 DEF Active, Pinned, Written
<1>5. ASSUME NEW r \in Ref \ (commuted[t] \ Pinned[t]) PROVE Committed[r] \in legal[t][r]
  <2>1. TxInv(t, r)
    BY DEF Inv
  <2>2. CASE Recorded(t, r)
    <3>1. r \in Checked(t) /\ r \in Participant(t)
      BY <2>2 DEF Checked, PureCommute, Pinned, Participant
    <3>2. reads[t][r].version = version[r]
      BY <1>1, <3>1 DEF Conflicting
    <3> QED
      BY <1>3, <2>1, <2>2, <3>1, <3>2 DEF TxInv, Stamped, EffectTracked
  <2>3. CASE ~Recorded(t, r)
    BY <2>1, <2>3, CommittedType DEF TxInv, EffectTracked
  <2> QED
    BY <2>2, <2>3
<1>6. Committed' = [r \in Ref |-> effect[t][r][Committed[r]]]
  <2> SUFFICES ASSUME NEW r \in Ref PROVE Committed'[r] = effect[t][r][Committed[r]]
    BY DEF Committed
  <2>1. CASE r \in Changed(t)
    <3>1. pc'[t] = "publishing" /\ r \in todo'[t] /\ lock'[r] = t
      BY <1>1, <1>2, <1>t, <2>1, ChangedParticipates DEF CommitAccepted, Decide, TypeOK, RunTypeOK
    <3>2. changes'[t][r] = NewValue(t, r)
      BY <1>t, <2>1 DEF CommitAccepted, Changes, TypeOK, TxTypeOK
    <3>3. Committed'[r] = NewValue(t, r)
      BY <3>1, <3>2, StmAssumption DEF Committed, BeingPublished
    <3>4. Committed[r] = state[r]
      BY <1>3, <2>1, ChangedParticipates
    <3> QED
      BY <1>1, <2>1, <3>3, <3>4, ChangeIsEffect
  <2>2. CASE r \notin Changed(t)
    <3>1. effect[t][r] = Same
      BY <2>2 DEF Inv, TxInv, EffectTracked
    <3>2. CASE lock[r] = t
      <4>1. ~BeingPublished(r) /\ ~BeingPublished(r)'
        BY <1>1, <1>t, <2>2, <3>2 DEF BeingPublished, CommitAccepted, Decide, TypeOK, RunTypeOK
      <4> QED
        BY <1>1, <4>1, <3>1, CommittedType DEF Committed, Same
    <3>3. CASE lock[r] # t
      <4>1. lock[r] \in Thread =>
              /\ pc'[lock[r]] = pc[lock[r]] /\ todo'[lock[r]] = todo[lock[r]]
              /\ changes'[lock[r]] = changes[lock[r]]
        <5>1. /\ pc \in [Thread -> Phase] /\ todo \in [Thread -> SUBSET Ref]
              /\ changes \in [Thread -> [Ref -> Value \cup {NoValue}]]
          BY <1>t DEF TypeOK, TxTypeOK, RunTypeOK
        <5> QED
          BY <3>3, <5>1 DEF CommitAccepted, Decide
      <4>2. lock[r] \in Thread \cup {Nobody} /\ lock'[r] = lock[r] /\ state'[r] = state[r]
        BY <1>1, <1>t DEF TypeOK, RefTypeOK
      <4>3. Committed'[r] = Committed[r]
        BY <4>1, <4>2, StmAssumption DEF Committed, BeingPublished
      <4> QED
        BY <4>3, <3>1, CommittedType DEF Same
    <3> QED
      BY <3>2, <3>3
  <2> QED
    BY <2>1, <2>2
<1> QED
  BY <1>1, <1>4, <1>5, <1>6 DEF Serial!Commit

(* Publishing changes nothing SerialStore sees: it took effect at the commit. *)
LEMMA PublishMaps ==
  ASSUME TypeInv, TypeOK', LockDiscipline, LockDiscipline', NEW t \in Thread, NEW r \in Ref,
         Publish(t, r)
  PROVE  UNCHANGED Serial!vars
<1>t. TypeOK
  BY DEF TypeInv
<1>1. /\ pc[t] = "publishing" /\ r \in todo[t] /\ UNCHANGED <<lock, changes>>
      /\ state'[r] = changes[t][r] /\ \A q \in Ref \ {r} : state'[q] = state[q]
      /\ \A u \in Thread \ {t} : pc'[u] = pc[u] /\ todo'[u] = todo[u]
      /\ \/ todo[t] = {r} /\ pc'[t] = "releasing"
         \/ todo[t] # {r} /\ pc'[t] = "publishing" /\ todo'[t] = todo[t] \ {r}
  BY <1>t DEF Publish, txVars, TypeOK, RefTypeOK, RunTypeOK
<1>2. lock[r] = t
  BY <1>t, <1>1, PublisherOwns
<1>3. Committed' = Committed
  <2> SUFFICES ASSUME NEW q \in Ref PROVE Committed'[q] = Committed[q]
    BY DEF Committed
  <2>1. CASE q = r
    BY <1>1, <1>2, <2>1, StmAssumption DEF Committed, BeingPublished
  <2>2. CASE q # r
    <3>1. lock[q] \in Thread \cup {Nobody}
      BY <1>t DEF TypeOK, RefTypeOK
    <3>2. BeingPublished(q)' <=> BeingPublished(q)
      BY <1>1, <2>2, <3>1, StmAssumption DEF BeingPublished
    <3> QED
      BY <1>1, <2>2, <3>2 DEF Committed
  <2> QED
    BY <2>1, <2>2
<1>4. Active' = Active /\ Pinned' = Pinned /\ UNCHANGED <<effect, legal, commuted>>
  BY <1>1 DEF Publish, txVars, Active, Pinned, Written
<1> QED
  BY <1>3, <1>4 DEF Serial!vars

(* Every step of the code is a step of SerialStore or none. *)
LEMMA StepMaps ==
  ASSUME RInv, RInv', [Next]_vars
  PROVE  [Serial!Next]_(Serial!vars)
<1>t. /\ TypeInv /\ TypeOK /\ TypeOK' /\ Inv /\ LockDiscipline /\ LockDiscipline'
  BY DEF RInv, TypeInv
<1>1. ASSUME NEW t \in Thread, NEW from \in Phase, NEW to \in {"body", "idle"},
             NewTransaction(t), UNCHANGED <<refVars, todo>>,
             pc[t] = from, from # "publishing", pc' = [pc EXCEPT ![t] = to]
      PROVE  /\ Serial!Fresh(t) /\ Committed' = Committed
             /\ Active' = IF to = "body" THEN Active \cup {t} ELSE Active \ {t}
             /\ t \in Active <=> from \in {"body", "locking"}
  <2>1. /\ pc'[t] = to
        /\ \A u \in Thread \ {t} : pc'[u] = pc[u] /\ changes'[u] = changes[u]
    BY <1>1, <1>t DEF NewTransaction, TypeOK, TxTypeOK, RunTypeOK
  <2>2. Committed' = Committed
    BY <1>1, <1>t, <2>1, CommittedFrame DEF refVars
  <2>3. Active' = IF to = "body" THEN Active \cup {t} ELSE Active \ {t}
    BY <1>1, <2>1 DEF Active
  <2> QED
    BY <1>1, <1>t, <2>2, <2>3, FreshMaps DEF Active
<1>2. ASSUME NEW t \in Thread, Begin(t) PROVE Serial!Begin(t)
  BY <1>1, <1>2 DEF Begin, Phase, Serial!Begin
<1>3. ASSUME NEW t \in Thread, BodyRaises(t) PROVE Serial!Abandon(t)
  BY <1>1, <1>3 DEF BodyRaises, Phase, Serial!Abandon
<1>4. ASSUME NEW t \in Thread, Retry(t) PROVE Serial!Begin(t)
  BY <1>1, <1>4 DEF Retry, Released, Phase, Serial!Begin
<1>5. ASSUME NEW t \in Thread, Leave(t), pc[t] \in {"releasing", "notifying"}
      PROVE  Serial!Forget(t)
  BY <1>1, <1>5 DEF Leave, Phase, Serial!Forget
<1>6. ASSUME NEW t \in Thread, CommitConflicts(t) \/ CommitInvalid(t)
      PROVE  Serial!Abandon(t)
  <2>1. /\ UNCHANGED <<state, effect, legal, commuted, writes, ensured, changes>>
        /\ pc[t] = "locking" /\ pc'[t] = "releasing"
        /\ \A u \in Thread \ {t} : pc'[u] = pc[u] /\ todo'[u] = todo[u]
    BY <1>6, <1>t DEF CommitConflicts, CommitInvalid, CanValidate, AllLocked, Decide,
                      refVars, txVars, TypeOK, RunTypeOK
  <2>2. Committed' = Committed
    BY <1>t, <2>1, CommittedFrame
  <2>3. t \in Active /\ Active' = Active \ {t} /\ Pinned' = Pinned
    BY <2>1 DEF Active, Pinned, Written
  <2> QED
    BY <2>1, <2>2, <2>3 DEF Serial!Abandon
<1>7. ASSUME NEW t \in Thread, BodyReturns(t) \/ StartNotifying(t) PROVE UNCHANGED Serial!vars
  BY <1>7, <1>t, StutterMaps DEF BodyReturns, StartNotifying, Released, refVars, txVars,
                                 TypeOK, RunTypeOK
<1>8. ASSUME NEW t \in Thread, NEW r \in Ref, LockRef(t, r) \/ Release(t, r) \/ Notify(t, r)
      PROVE UNCHANGED Serial!vars
  BY <1>8, <1>t, StutterMaps DEF LockRef, Release, Notify, refVars, txVars, TypeOK, RunTypeOK
<1>9. ASSUME NEW t \in Thread, RunDeferred(t) PROVE UNCHANGED Serial!vars
  BY <1>9, <1>t, StutterMaps DEF RunDeferred, refVars, runVars
<1>10. ASSUME NEW t \in Thread, Proceed(t) PROVE [Serial!Next]_(Serial!vars)
  <2>1. ASSUME GiveUp(t) \/ CommitRaises(t) \/ Return(t) PROVE Serial!Next
    BY <1>5, <2>1 DEF GiveUp, CommitRaises, Return, Released, Serial!Next
  <2>2. ASSUME BodyRaises(t) \/ CommitConflicts(t) \/ CommitInvalid(t) PROVE Serial!Next
    BY <1>3, <1>6, <2>2 DEF Serial!Next
  <2>3. ASSUME CommitAccepted(t) PROVE Serial!Next
    BY <1>t, <2>3, CommitMaps DEF Serial!Next
  <2>4. ASSUME Retry(t) PROVE Serial!Next
    BY <1>4, <2>4 DEF Serial!Next
  <2>5. ASSUME NEW r \in Ref, Publish(t, r) PROVE UNCHANGED Serial!vars
    BY <1>t, <2>5, PublishMaps
  <2> QED
    BY <1>10, <1>7, <1>8, <1>9, <2>1, <2>2, <2>3, <2>4, <2>5 DEF Proceed
<1>11. ASSUME NEW r \in Ref, (\E p \in Validator[r] : SetValidator(r, p))
                             \/ (\E n \in MinHistory[r] : SetMinHistory(r, n))
       PROVE  UNCHANGED Serial!vars
  BY <1>11, <1>t, StutterMaps DEF SetValidator, SetMinHistory, txVars, runVars
<1>12. CASE UNCHANGED vars
  BY <1>12, <1>t, StutterMaps DEF vars, refVars, txVars, runVars
<1>13. ASSUME NEW t \in Thread, Begin(t) PROVE Serial!Next
  BY <1>2, <1>13 DEF Serial!Next
<1>14. ASSUME NEW t \in Thread, Body(t) PROVE [Serial!Next]_(Serial!vars)
  BY <1>t, <1>14, BodyMaps
<1> QED
  BY <1>10, <1>11, <1>12, <1>13, <1>14 DEF Next, Finished

(* Nothing has happened yet, in both. *)
LEMMA InitMaps == Init => Serial!Init
<1> SUFFICES ASSUME Init PROVE Serial!Init
  OBVIOUS
<1>1. Committed = state
  BY StmAssumption DEF Init, Committed, BeingPublished
<1>2. Active = {} /\ Pinned = [t \in Thread |-> {}]
  BY DEF Init, Active, Pinned, Written
<1> QED
  BY <1>1, <1>2 DEF Init, Serial!Init, Same

(* dosync is serializable, for any threads, Refs, values, functions,         *)
(* validators, numbers of operations and of transactions.                    *)
THEOREM Implements == Spec => Serializable
<1>1. Spec => []RInv
  BY TypeInvHolds, InvHolds, LocksDisciplined, PTL DEF RInv
<1>2. RInv /\ RInv' /\ [Next]_vars => [Serial!Next]_(Serial!vars)
  BY StepMaps
<1> QED
  BY <1>1, <1>2, InitMaps, PTL DEF Spec, Serializable, Serial!Spec
=============================================================================
