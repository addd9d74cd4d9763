------------------------------- MODULE MCChannel -------------------------------
(* Instances of the channels small enough for TLC. *)
EXTENDS ChannelProps, TLC

CONSTANTS t1, t2, t3, a, b

Tasks == {t1, t2, t3}
Chans == {a, b}

(* a passes values from hand to hand; b has a buffer of one. *)
AllKinds ==
  {[c \in Chans |-> [capacity |-> IF c = a THEN 0 ELSE 1,
                     policy |-> IF c = a THEN "fixed" ELSE p]] : p \in Policy}

FixedKinds == {k \in AllKinds : k[b].policy = "fixed"}

Take(c) == [chan |-> c, put |-> FALSE]
Put(c)  == [chan |-> c, put |-> TRUE]
Single  == {<<p>> : p \in Port}

(* Every pair of ports, and of one pair both orders. *)
Selections ==
  Single \cup {<<Put(a), Take(a)>>, <<Put(b), Take(b)>>,
              <<Put(a), Put(b)>>, <<Put(a), Take(b)>>,
              <<Take(a), Put(b)>>, <<Take(a), Take(b)>>, <<Take(b), Take(a)>>}

(* b is used with and without a timeout, which is a. *)
WithTimeout == Single \cup {<<Take(b), Take(a)>>, <<Put(b), Take(a)>>}

TaskSymmetry == Permutations(Tasks)
=============================================================================
