---------------------------- MODULE SerialChannels ----------------------------
(***************************************************************************)
(* What channels promise, without waiting, futures or selections: each is a *)
(* bounded queue, and every call has at most one effect on one of them.  A  *)
(* call is a number and, if it puts, the value it puts; `received` says, in *)
(* order, which value which call took from a channel.                       *)
(***************************************************************************)
EXTENDS Naturals, Sequences

CONSTANTS Chan, Call, Kinds

VARIABLES
  kind, items, closed, received,
  settled     \* the calls that have had their effect

vars == <<kind, items, closed, received, settled>>

Init ==
  /\ kind \in Kinds
  /\ items = [c \in Chan |-> <<>>]
  /\ closed = [c \in Chan |-> FALSE]
  /\ received = [c \in Chan |-> <<>>]
  /\ settled = {}

Settle(K) == K \cap settled = {} /\ settled' = settled \cup K

(* The queue of c after a value v is added to q.  A full fixed buffer takes *)
(* no value, a full sliding one forgets its oldest, a full dropping one v.  *)
Added(c, q, v) ==
  IF Len(q) < kind[c].capacity THEN {Append(q, v)}
  ELSE IF kind[c].policy = "sliding" THEN {Append(Tail(q), v)}
  ELSE IF kind[c].policy = "dropping" THEN {q}
  ELSE {}

Receive(c, v, k) ==
  received' = [received EXCEPT ![c] = Append(@, [value |-> v, by |-> k])]

Put(c, v) ==
  /\ ~closed[c]
  /\ Settle({v})
  /\ \E q \in Added(c, items[c], v) : items' = [items EXCEPT ![c] = q]
  /\ UNCHANGED <<kind, closed, received>>

Take(c, k) ==
  /\ items[c] # <<>>
  /\ Settle({k})
  /\ Receive(c, Head(items[c]), k)
  /\ items' = [items EXCEPT ![c] = Tail(@)]
  /\ UNCHANGED <<kind, closed>>

(* A put that could not be done before a take is done right after it. *)
TakeThenPut(c, v, k) ==
  /\ ~closed[c]
  /\ items[c] # <<>> /\ v # k
  /\ Settle({v, k})
  /\ Receive(c, Head(items[c]), k)
  /\ \E q \in Added(c, Tail(items[c]), v) : items' = [items EXCEPT ![c] = q]
  /\ UNCHANGED <<kind, closed>>

(* A value is handed from a put to a take while nothing is stored. *)
Hand(c, v, k) ==
  /\ ~closed[c]
  /\ items[c] = <<>> /\ v # k
  /\ Settle({v, k})
  /\ Receive(c, v, k)
  /\ UNCHANGED <<kind, closed, items>>

Close(c) ==
  /\ closed' = [closed EXCEPT ![c] = TRUE]
  /\ UNCHANGED <<kind, items, received, settled>>

Next ==
  \E c \in Chan :
    \/ Close(c)
    \/ \E k \in Call : Put(c, k) \/ Take(c, k)
    \/ \E v, k \in Call : TakeThenPut(c, v, k) \/ Hand(c, v, k)

Spec == Init /\ [][Next]_vars
=============================================================================
