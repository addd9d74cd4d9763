----------------------------- MODULE SerialStore -----------------------------
(***************************************************************************)
(* What `dosync` promises, without versions, locks or retries.  A running   *)
(* transaction is described by what its body did to each Ref:               *)
(*   effect[t][r]  the value r ends with, as a function of the value it     *)
(*                 had when the transaction runs alone;                     *)
(*   legal[t][r]   the initial values of r for which the body, run alone,   *)
(*                 is shown exactly the results it was shown.               *)
(* Results are guesses while the body runs.  A transaction may take effect  *)
(* only at one instant at which every guess is right, except for a Ref the  *)
(* body updated by commute alone and did not ensure: its functions are      *)
(* applied to whatever the Ref then holds.                                  *)
(***************************************************************************)
CONSTANTS Thread, Ref, Value

VARIABLES
  store,      \* committed value of every Ref
  active,     \* threads whose transaction body or commit is under way
  effect, legal,
  commuted,   \* Refs the body commuted
  pinned      \* Refs the body altered, set or ensured

vars == <<store, active, effect, legal, commuted, pinned>>

Fresh(t) ==
  /\ effect' = [effect EXCEPT ![t] = [r \in Ref |-> [v \in Value |-> v]]]
  /\ legal' = [legal EXCEPT ![t] = [r \in Ref |-> Value]]
  /\ commuted' = [commuted EXCEPT ![t] = {}]
  /\ pinned' = [pinned EXCEPT ![t] = {}]

Init ==
  /\ store \in [Ref -> Value]
  /\ active = {}
  /\ effect = [t \in Thread |-> [r \in Ref |-> [v \in Value |-> v]]]
  /\ legal = [t \in Thread |-> [r \in Ref |-> Value]]
  /\ commuted = [t \in Thread |-> {}]
  /\ pinned = [t \in Thread |-> {}]

(* A new attempt knows nothing of an earlier one. *)
Begin(t) ==
  /\ t \notin active
  /\ active' = active \cup {t}
  /\ Fresh(t)
  /\ UNCHANGED store

(* The body is shown some value of r. *)
Observe(t, r) ==
  /\ t \in active
  /\ \E v \in Value :
       legal' = [legal EXCEPT ![t][r] = {x \in @ : effect[t][r][x] = v}]
  /\ \/ UNCHANGED pinned
     \/ pinned' = [pinned EXCEPT ![t] = @ \cup {r}]      \* ensure
  /\ UNCHANGED <<store, active, effect, commuted>>

(* The body applies f to r and is shown the result (alter, ref-set). *)
Update(t, r) ==
  /\ t \in active
  /\ \E f \in [Value -> Value], v \in Value :
       /\ effect' = [effect EXCEPT ![t][r] = [x \in Value |-> f[@[x]]]]
       /\ legal' = [legal EXCEPT ![t][r] = {x \in @ : f[effect[t][r][x]] = v}]
  /\ pinned' = [pinned EXCEPT ![t] = @ \cup {r}]
  /\ UNCHANGED <<store, active, commuted>>

(* The body asks for f to be applied to r when the transaction commits. *)
Commute(t, r) ==
  /\ t \in active
  /\ \E f \in [Value -> Value] :
       effect' = [effect EXCEPT ![t][r] = [x \in Value |-> f[@[x]]]]
  /\ commuted' = [commuted EXCEPT ![t] = @ \cup {r}]
  /\ UNCHANGED <<store, active, legal, pinned>>

(* The whole transaction takes effect at once. *)
Commit(t) ==
  /\ t \in active
  /\ \A r \in Ref \ (commuted[t] \ pinned[t]) : store[r] \in legal[t][r]
  /\ store' = [r \in Ref |-> effect[t][r][store[r]]]
  /\ active' = active \ {t}
  /\ UNCHANGED <<effect, legal, commuted, pinned>>

(* An attempt ends without a trace. *)
Abandon(t) ==
  /\ t \in active
  /\ active' = active \ {t}
  /\ \/ Fresh(t)
     \/ UNCHANGED <<effect, legal, commuted, pinned>>
  /\ UNCHANGED store

(* What an ended transaction did is forgotten. *)
Forget(t) ==
  /\ t \notin active
  /\ Fresh(t)
  /\ UNCHANGED <<store, active>>

Next ==
  \E t \in Thread :
    \/ Begin(t) \/ Commit(t) \/ Abandon(t) \/ Forget(t)
    \/ \E r \in Ref : Observe(t, r) \/ Update(t, r) \/ Commute(t, r)

Spec == Init /\ [][Next]_vars
=============================================================================
