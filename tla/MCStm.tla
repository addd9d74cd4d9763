--------------------------------- MODULE MCStm ---------------------------------
(* Instances of the transactional memory small enough for TLC. *)
EXTENDS StmProps, TLC

CONSTANTS t1, t2, v1, v2

Threads == {t1, t2}
Values  == {v1, v2}

Flips        == {f \in [Value -> Value] : \A v \in Value : f[v] # v}
NoValidator  == [r \in Ref |-> {Value}]
ValidatorOn1 == [r \in Ref |-> IF r = 1 THEN {Value, {v1}} ELSE {Value}]
NoHistory    == [r \in Ref |-> {}]
HistoryOn2   == [r \in Ref |-> IF r = 2 THEN {1} ELSE {}]
NoReads      == [r \in Ref |-> {}]
LaterReads1  == [r \in Ref |-> IF r = 1 THEN {} ELSE {1}]

Symmetry       == {p @@ q : p \in Permutations(Threads), q \in Permutations(Values)}
ThreadSymmetry == Permutations(Threads)
=============================================================================
