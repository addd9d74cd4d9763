------------------------------- MODULE StmProps -------------------------------
(***************************************************************************)
(* Correctness properties of the transactional memory.                      *)
(***************************************************************************)
EXTENDS Stm

RefTypeOK ==
  /\ state \in [Ref -> Value]
  /\ version \in [Ref -> Nat]
  /\ validator \in [Ref -> SUBSET Value]
  /\ lock \in [Ref -> Thread \cup {Nobody}]
  /\ minHistory \in [Ref -> Int]
  /\ historyLen \in [Ref -> Nat]

Read == [value : Value, version : Nat]

TxTypeOK ==
  /\ reads \in [Thread -> [Ref -> Read \cup {NoRead}]]
  /\ writes \in [Thread -> [Ref -> Value \cup {NoValue}]]
  /\ commuted \in [Thread -> SUBSET Ref]
  /\ replay \in [Thread -> [Ref -> [Value -> Value]]]
  /\ staged \in [Thread -> [Ref -> Value \cup {NoValue}]]
  /\ ensured \in [Thread -> SUBSET Ref]
  /\ deferred \in [Thread -> Seq(Nat)]
  /\ changes \in [Thread -> [Ref -> Value \cup {NoValue}]]
  /\ effect \in [Thread -> [Ref -> [Value -> Value]]]
  /\ legal \in [Thread -> [Ref -> SUBSET Value]]

RunTypeOK ==
  /\ pc \in [Thread -> Phase]
  /\ todo \in [Thread -> SUBSET Ref]
  /\ outcome \in [Thread -> Outcome]
  /\ attempts \in [Thread -> Nat]
  /\ limit \in [Thread -> Nat]
  /\ ops \in [Thread -> Nat]
  /\ started \in [Thread -> Nat]

(* Every variable holds a value of its type. *)
TypeOK == RefTypeOK /\ TxTypeOK /\ RunTypeOK

Held(t) == {r \in Ref : lock[r] = t}

(* The locks thread t is about to take. *)
Wanted(t) ==
  IF pc[t] # "locking" THEN {}
  ELSE IF todo[t] # {} THEN {r \in Ref : IsNext(t, r)}
  ELSE IF Conflicting(t) THEN {} ELSE ValidatorWants(t)

(* A commit only ever waits for a Ref that comes after, in id() order, every *)
(* Ref it has locked: no two commits can wait for each other.                *)
LocksInOrder ==
  \A t \in Thread : \A r \in Wanted(t), q \in Held(t) : q < r

(* Until its last change is published a commit holds the lock of every Ref   *)
(* it changes, so no reader sees some of its changes without the others.     *)
NoTornCommit ==
  \A t \in Thread :
    pc[t] = "publishing" => Changed(t) \subseteq Held(t)

(* Equal versions mean equal values: comparing versions at commit is enough  *)
(* to know that the value the body saw is still the committed one, even      *)
(* when the Ref has meanwhile been changed and changed back.                 *)
VersionStampsValue ==
  \A t \in Thread, r \in Ref :
    Recorded(t, r) /\ reads[t][r].version = version[r]
      => reads[t][r].value = state[r]

(* The committed value of a Ref satisfies the validator installed on it, at  *)
(* every moment and whatever order transactions and set-validator! calls     *)
(* take.                                                                     *)
StoreValid == \A r \in Ref : state[r] \in validator[r]

(* The after-commit actions a transaction will run were registered by the    *)
(* attempt that commits, never by an earlier one.                            *)
DeferredByThisAttempt ==
  \A t \in Thread :
    \A i \in DOMAIN deferred[t] : deferred[t][i] = attempts[t]

(* The committed value of a Ref: the one being published once its commit has *)
(* been accepted, the stored one otherwise.                                  *)
BeingPublished(r) ==
  /\ lock[r] # Nobody
  /\ pc[lock[r]] = "publishing"
  /\ r \in todo[lock[r]]

Committed ==
  [r \in Ref |-> IF BeingPublished(r) THEN changes[lock[r]][r] ELSE state[r]]

Active == {t \in Thread : pc[t] \in {"body", "locking"}}
Pinned == [t \in Thread |-> Written(t) \cup ensured[t]]

(* dosync is serializable: every transaction takes effect at the instant its *)
(* commit is accepted as if its body ran alone at that instant, being shown  *)
(* the results it was shown; a conflict, a rejected value or an exception    *)
(* leaves no trace.                                                          *)
Serial == INSTANCE SerialStore WITH
  store <- Committed, active <- Active, pinned <- Pinned

Serializable == Serial!Spec

(***************************************************************************)
(* What holds between the variables of one transaction and the Refs it      *)
(* touched: the inductive invariant the proofs rest on.                     *)
(***************************************************************************)

(* The locks a thread holds in each phase of run_transaction. *)
Owns(t) ==
  IF pc[t] = "locking" THEN Participant(t) \ todo[t]
  ELSE IF pc[t] = "publishing" THEN Participant(t)
  ELSE IF pc[t] = "releasing" THEN todo[t]
  ELSE {}

LockDiscipline ==
  \A t \in Thread :
    /\ \A r \in Ref : lock[r] = t <=> r \in Owns(t)
    /\ pc[t] \in {"locking", "releasing"} => todo[t] \subseteq Participant(t)
    /\ pc[t] = "publishing" => todo[t] \subseteq Changed(t)
    /\ pc[t] = "locking" => \A r \in todo[t], q \in Participant(t) \ todo[t] : q < r

(* Whatever a transaction stages, it has read first. *)
StagedIsRead(t, r) ==
  writes[t][r] # NoValue \/ staged[t][r] # NoValue \/ r \in commuted[t]
    => Recorded(t, r)

(* On the values the transaction read, running its body alone shows what it  *)
(* was shown and leaves what it staged; what it did to a Ref it only         *)
(* commuted is the composition of the recorded functions.                    *)
EffectTracked(t, r) ==
  /\ Recorded(t, r) => /\ reads[t][r].value \in legal[t][r]
                       /\ effect[t][r][reads[t][r].value] = Look(t, r)
  /\ ~Recorded(t, r) => legal[t][r] = Value
  /\ r \notin Changed(t) => effect[t][r] = Same
  /\ writes[t][r] = NoValue => effect[t][r] = replay[t][r]

Tracking == \A t \in Thread, r \in Ref : StagedIsRead(t, r) /\ EffectTracked(t, r)

(* Every transaction ends, however its commits interleave with others.       *)
EveryTransactionEnds ==
  \A t \in Thread : pc[t] # "idle" ~> pc[t] = "idle"
=============================================================================
